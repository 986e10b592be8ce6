-------------------------- MODULE ReflectiveLearning --------------------------
(***************************************************************************)
(* Reflective learning (services/reflective_learning_service.py,           *)
(* storage/learning_repository.py).                                        *)
(*                                                                         *)
(* An offline artifact that passes the reflection gate yields a memory     *)
(* candidate and, if it names a next action, a policy proposal.  The job   *)
(* learning.consolidate attaches evidence, decides, and applies: a memory  *)
(* is written, a policy becomes a behavior experiment.  The job            *)
(* learning.evaluate_outcomes concludes the experiments that are due from  *)
(* what the user said since they started.  Two processes run the jobs,     *)
(* even the same job at the same time once a batch has outlived its        *)
(* leases.  Decisions are appended in a savepoint together    *)
(* with a compare-and-swap on the version of the proposal; everything else *)
(* is a statement of its own.                                              *)
(***************************************************************************)
EXTENDS Integers, FiniteSets, Sequences

CONSTANTS
    Artifacts,        \* offline artifacts
    Workers,          \* the processes that run the jobs
    NoProposal,       \* "no proposal is in hand"
    MinEvidence,      \* min_evidence_count
    MinObservations,  \* experiment_min_observations
    Said,             \* the signals that what the user says can carry
    MaxFeedback,      \* bound on the user events
    MaxCrashes        \* bound on the number of crashes

Proposals == Artifacts \X {"memory", "policy"}

ASSUME LearningAssumption ==
    /\ NoProposal \notin Proposals
    /\ MinEvidence \in Nat \ {0}
    /\ MinObservations \in Nat \ {0}
    /\ Said \subseteq {-1, 0, 1}
    /\ MaxFeedback \in Nat
    /\ MaxCrashes \in Nat

VARIABLES
    run,           \* table reflection_runs, by the artifact
    wanted,        \* the proposals that the completed runs call for
    strong,        \* those whose critic score passes the gate
    proposal,      \* table learning_proposals
    evidence,      \* table learning_proposal_evidence: the kinds of reference
    decisions,     \* table consolidation_decisions, oldest first
    memories,      \* the memory candidates that memory_write has stored
    experiment,    \* table behavior_experiments
    outcomes,      \* table outcome_observations: last event, is it positive?
    feedback,      \* the signals of the user events, oldest first
    work,          \* what each worker is doing
    overran,       \* has a batch outlived its leases?
    crashes

reflection == <<run, wanted, strong>>
trial == <<experiment, outcomes, feedback>>
faults == <<overran, crashes>>
vars == <<reflection, proposal, evidence, decisions, memories, trial, work, faults>>

Statuses == {"absent", "candidate", "approved", "rejected", "applied", "under_test",
             "confirmed", "rolled_back"}

Rows == [status : Statuses, version : 0 .. 4]
NoRow == [status |-> "absent", version |-> 0]

Consolidating == {"scan", "insert", "artifact", "event", "ready", "decide", "apply", "mark"}
Evaluating == {"due", "verdict", "conclude", "close"}

\* A worker in the middle of a job: its place, the proposal in hand with the
\* row it has read, the rows it has listed, how many user events it has read,
\* and whether the proposal passes the gates, or its test.
Work == [at : {"idle"} \cup Consolidating \cup Evaluating,
         cur : Proposals \cup {NoProposal}, row : Rows,
         listed : SUBSET (Proposals \X Rows), heard : 0 .. MaxFeedback,
         passed : BOOLEAN]

Idle == [at |-> "idle", cur |-> NoProposal, row |-> NoRow, listed |-> {}, heard |-> 0,
         passed |-> FALSE]

NoExperiment == [status |-> "absent", due |-> FALSE, started |-> 0, conclusion |-> "none"]

TypeOK ==
    /\ run \in [Artifacts -> {"none", "completed", "skipped"}]
    /\ wanted \in SUBSET Proposals
    /\ strong \in SUBSET Proposals
    /\ proposal \in [Proposals -> Rows]
    /\ evidence \in [Proposals -> SUBSET {"artifact", "event", "outcome"}]
    /\ decisions \in [Proposals -> Seq({"approve", "reject", "rollback"})]
    /\ \A p \in Proposals : Len(decisions[p]) <= 2
    /\ memories \in SUBSET Proposals
    /\ experiment \in [Proposals ->
         [status : {"absent", "running", "completed"}, due : BOOLEAN,
          started : 0 .. MaxFeedback, conclusion : {"none", "positive", "other"}]]
    /\ outcomes \in [Proposals -> SUBSET ((1 .. MaxFeedback) \X BOOLEAN)]
    /\ feedback \in Seq(Said) /\ Len(feedback) <= MaxFeedback
    /\ work \in [Workers -> Work]
    /\ overran \in BOOLEAN
    /\ crashes \in 0 .. MaxCrashes

Init ==
    /\ run = [a \in Artifacts |-> "none"]
    /\ wanted = {}
    /\ strong = {}
    /\ proposal = [p \in Proposals |-> NoRow]
    /\ evidence = [p \in Proposals |-> {}]
    /\ decisions = [p \in Proposals |-> << >>]
    /\ memories = {}
    /\ experiment = [p \in Proposals |-> NoExperiment]
    /\ outcomes = [p \in Proposals |-> {}]
    /\ feedback = << >>
    /\ work = [w \in Workers |-> Idle]
    /\ overran = FALSE
    /\ crashes = 0

Go(w, me) == work' = [work EXCEPT ![w] = me]

At(w, place) == work[w].at = place

Listed(w) == {item[1] : item \in work[w].listed}

\* The job returns, or raises.
End(w) == Go(w, Idle)

\* The worker turns to the next proposal of its list.
Turn(w, place) ==
    Go(w, [work[w] EXCEPT !.at = place, !.cur = NoProposal, !.row = NoRow, !.passed = FALSE])

\* Its lease keeps a job from running twice, unless leases are outlived.
MayBegin(w, places) ==
    /\ At(w, "idle")
    /\ overran \/ \A v \in Workers : work[v].at \notin places

-----------------------------------------------------------------------------
(***************************************************************************)
(* reflection.schedule: the dedup key admits one run per artifact.  The    *)
(* critic score of a policy is that of its memory candidate times 0.95.    *)
(***************************************************************************)
Schedule(a) ==
    /\ run[a] = "none"
    /\ \/ /\ run' = [run EXCEPT ![a] = "skipped"]
          /\ UNCHANGED <<wanted, strong>>
       \/ /\ run' = [run EXCEPT ![a] = "completed"]
          /\ \E kinds \in {{"memory"}, {"memory", "policy"}} :
               wanted' = wanted \cup {a} \X kinds
          /\ \E kinds \in {{}, {"memory"}, {"memory", "policy"}} :
               strong' = strong \cup {a} \X kinds
    /\ UNCHANGED <<proposal, evidence, decisions, memories, trial, work, faults>>

-----------------------------------------------------------------------------
(***************************************************************************)
(* learning.consolidate: first the missing proposals are inserted, each    *)
(* with its evidence.                                                      *)
(***************************************************************************)
BeginConsolidate(w) ==
    /\ MayBegin(w, Consolidating)
    /\ Go(w, [Idle EXCEPT !.at = "scan", !.listed = {<<p, NoRow>> : p \in wanted}])
    /\ UNCHANGED <<reflection, proposal, evidence, decisions, memories, trial, faults>>

Missing(p) == proposal[p].status = "absent"

\* Of a run, the memory candidate comes first.
Propose(w, item) ==
    /\ At(w, "scan")
    /\ item \in work[w].listed
    /\ item[1][2] = "policy" => <<item[1][1], "memory">> \notin Listed(w)
    /\ IF Missing(item[1])
         THEN Go(w, [work[w] EXCEPT !.at = "insert", !.cur = item[1], !.listed = @ \ {item}])
         ELSE Go(w, [work[w] EXCEPT !.listed = @ \ {item}])
    /\ UNCHANGED <<reflection, proposal, evidence, decisions, memories, trial, faults>>

InsertProposal(w) ==
    /\ At(w, "insert")
    /\ Missing(work[w].cur)
    /\ proposal' = [proposal EXCEPT ![work[w].cur] = [status |-> "candidate", version |-> 1]]
    /\ Go(w, [work[w] EXCEPT !.at = "artifact"])
    /\ UNCHANGED <<reflection, evidence, decisions, memories, trial, faults>>

\* Another process was faster: its row is found, or the unique key raises.
InsertConflict(w) ==
    /\ At(w, "insert")
    /\ ~Missing(work[w].cur)
    /\ Go(w, [work[w] EXCEPT !.at = "artifact"]) \/ End(w)
    /\ UNCHANGED <<reflection, proposal, evidence, decisions, memories, trial, faults>>

Attach(w, kind) ==
    evidence' = [evidence EXCEPT ![work[w].cur] = @ \cup {kind}]

AttachArtifact(w) ==
    /\ At(w, "artifact")
    /\ Attach(w, "artifact")
    /\ Go(w, [work[w] EXCEPT !.at = "event"])
    /\ UNCHANGED <<reflection, proposal, decisions, memories, trial, faults>>

\* The events and traces of the artifact.
AttachEvent(w) ==
    /\ At(w, "event")
    /\ Attach(w, "event")
    /\ Turn(w, "scan")
    /\ UNCHANGED <<reflection, proposal, decisions, memories, trial, faults>>

-----------------------------------------------------------------------------
(***************************************************************************)
(* Then the candidates and the approved proposals are listed and dealt     *)
(* with one by one.                                                        *)
(***************************************************************************)
\* Mutant of Pending: the approved ones are forgotten.
PendingCandidates == {p \in Proposals : proposal[p].status = "candidate"}

Pending == {p \in Proposals : proposal[p].status \in {"candidate", "approved"}}

List(w) ==
    /\ At(w, "scan")
    /\ work[w].listed = {}
    /\ Go(w, [work[w] EXCEPT !.at = "ready", !.listed = {<<p, proposal[p]>> : p \in Pending}])
    /\ UNCHANGED <<reflection, proposal, evidence, decisions, memories, trial, faults>>

PassesGates(p) == p \in strong /\ Cardinality(evidence[p]) >= MinEvidence

\* Mutant of NextStep: a candidate is applied at once.
NextStepApply(row) == "apply"

NextStep(row) == IF row.status = "candidate" THEN "decide" ELSE "apply"

Take(w) ==
    /\ At(w, "ready")
    /\ \E item \in work[w].listed :
         Go(w, [work[w] EXCEPT !.at = NextStep(item[2]), !.cur = item[1], !.row = item[2],
                               !.listed = @ \ {item}, !.passed = PassesGates(item[1])])
    /\ UNCHANGED <<reflection, proposal, evidence, decisions, memories, trial, faults>>

\* Mutant of Unchanged: the version is not compared.
UnchangedAlways(w) == TRUE

Unchanged(w) == proposal[work[w].cur].version = work[w].row.version

\* Mutant of Moved: the service and the repository both count.
MovedTwice(w, status) == [status |-> status, version |-> work[w].row.version + 2]

Moved(w, status) == [status |-> status, version |-> work[w].row.version + 1]

\* append_decision and the compare-and-swap in one savepoint.
AppendDecision(w, d, status) ==
    /\ decisions' = [decisions EXCEPT ![work[w].cur] = Append(@, d)]
    /\ proposal' = [proposal EXCEPT ![work[w].cur] = Moved(w, status)]

Decide(w) ==
    /\ At(w, "decide")
    /\ Unchanged(w)
    /\ LET status == IF work[w].passed THEN "approved" ELSE "rejected" IN
         /\ AppendDecision(w, IF work[w].passed THEN "approve" ELSE "reject", status)
         /\ IF work[w].passed
              THEN Go(w, [work[w] EXCEPT !.at = "apply", !.row = Moved(w, status),
                                         !.passed = FALSE])
              ELSE Turn(w, "ready")
    /\ UNCHANGED <<reflection, evidence, memories, trial, faults>>

\* _apply_memory; without an event as evidence nothing is written.
ApplyMemory(w) ==
    /\ At(w, "apply")
    /\ work[w].cur[2] = "memory"
    /\ IF "event" \in evidence[work[w].cur]
         THEN /\ memories' = memories \cup {work[w].cur}
              /\ Go(w, [work[w] EXCEPT !.at = "mark"])
         ELSE Turn(w, "ready") /\ UNCHANGED memories
    /\ UNCHANGED <<reflection, proposal, evidence, decisions, trial, faults>>

\* _start_experiment finds the experiment by its dedup key, or inserts it.
StartExperiment(w) ==
    /\ At(w, "apply")
    /\ work[w].cur[2] = "policy"
    /\ experiment' = [experiment EXCEPT ![work[w].cur] =
         IF @.status = "absent"
         THEN [@ EXCEPT !.status = "running", !.started = Len(feedback)] ELSE @]
    /\ Go(w, [work[w] EXCEPT !.at = "mark"])
    /\ UNCHANGED <<reflection, proposal, evidence, decisions, memories, outcomes, feedback,
                   faults>>

Mark(w) ==
    /\ At(w, "mark")
    /\ Unchanged(w)
    /\ proposal' = [proposal EXCEPT ![work[w].cur] =
         Moved(w, IF work[w].cur[2] = "memory" THEN "applied" ELSE "under_test")]
    /\ Turn(w, "ready")
    /\ UNCHANGED <<reflection, evidence, decisions, memories, trial, faults>>

ConsolidateDone(w) ==
    /\ At(w, "ready")
    /\ work[w].listed = {}
    /\ End(w)
    /\ UNCHANGED <<reflection, proposal, evidence, decisions, memories, trial, faults>>

\* LearningVersionConflict, or the unique decision version: the job fails.
Conflict(w) ==
    /\ work[w].at \in {"decide", "mark", "conclude"}
    /\ ~Unchanged(w)
    /\ End(w)
    /\ UNCHANGED <<reflection, proposal, evidence, decisions, memories, trial, faults>>

-----------------------------------------------------------------------------
(***************************************************************************)
(* learning.evaluate_outcomes.                                             *)
(***************************************************************************)
Due == {p \in Proposals : experiment[p].status = "running" /\ experiment[p].due}

BeginEvaluate(w) ==
    /\ MayBegin(w, Evaluating)
    /\ Go(w, [Idle EXCEPT !.at = "due", !.listed = {<<p, NoRow>> : p \in Due},
                          !.heard = Len(feedback)])
    /\ UNCHANGED <<reflection, proposal, evidence, decisions, memories, trial, faults>>

\* What the user said since the experiment started.
Signals(w, p) == SubSeq(feedback, experiment[p].started + 1, work[w].heard)

Times(signals, s) == Cardinality({i \in DOMAIN signals : signals[i] = s})

\* The sum of the signals, each of which is -1, 0 or 1.
Total(signals) == Times(signals, 1) - Times(signals, -1)

\* Mutant of IsPositive: silence counts as assent.
IsPositiveOrNeutral(signals) == Total(signals) >= 0

\* The mean of the signals is at least 0.2.
IsPositive(signals) == 5 * Total(signals) >= Len(signals)

\* Too few observations; the write expects the experiment to be running still.
Postpone(w, item) ==
    /\ At(w, "due")
    /\ item \in work[w].listed
    /\ Len(Signals(w, item[1])) < MinObservations
    /\ IF experiment[item[1]].status = "running"
         THEN /\ experiment' = [experiment EXCEPT ![item[1]].due = FALSE]
              /\ Go(w, [work[w] EXCEPT !.listed = @ \ {item}])
         ELSE UNCHANGED experiment /\ End(w)
    /\ UNCHANGED <<reflection, proposal, evidence, decisions, memories, outcomes, feedback,
                   faults>>

\* insert_outcome, whose dedup key is the experiment and the latest event.
InsertOutcome(w, item) ==
    /\ At(w, "due")
    /\ item \in work[w].listed
    /\ LET p == item[1]
           positive == IsPositive(Signals(w, p))
       IN /\ Len(Signals(w, p)) >= MinObservations
          /\ outcomes' = [outcomes EXCEPT ![p] = @ \cup {<<work[w].heard, positive>>}]
          /\ Go(w, [work[w] EXCEPT !.at = "verdict", !.cur = p, !.listed = @ \ {item},
                                   !.passed = positive])
    /\ UNCHANGED <<reflection, proposal, evidence, decisions, memories, experiment, feedback,
                   faults>>

UnderTest(p) == proposal[p].status = "under_test"

\* A proposal that is under test gets the outcome as evidence.
ReadProposal(w) ==
    /\ At(w, "verdict")
    /\ IF UnderTest(work[w].cur)
         THEN /\ Attach(w, "outcome")
              /\ Go(w, [work[w] EXCEPT !.at = "conclude", !.row = proposal[work[w].cur]])
         ELSE UNCHANGED evidence /\ Go(w, [work[w] EXCEPT !.at = "close"])
    /\ UNCHANGED <<reflection, proposal, decisions, memories, trial, faults>>

Conclude(w) ==
    /\ At(w, "conclude")
    /\ Unchanged(w)
    /\ IF work[w].passed THEN AppendDecision(w, "approve", "confirmed")
                         ELSE AppendDecision(w, "rollback", "rolled_back")
    /\ Go(w, [work[w] EXCEPT !.at = "close", !.row = NoRow])
    /\ UNCHANGED <<reflection, evidence, memories, trial, faults>>

\* update_experiment expects the experiment to be running still.
Close(w) ==
    /\ At(w, "close")
    /\ LET p == work[w].cur IN
         IF experiment[p].status = "running"
         THEN /\ experiment' = [experiment EXCEPT ![p].status = "completed", ![p].due = FALSE,
                   ![p].conclusion = IF work[w].passed THEN "positive" ELSE "other"]
              /\ Turn(w, "due")
         ELSE UNCHANGED experiment /\ End(w)
    /\ UNCHANGED <<reflection, proposal, evidence, decisions, memories, outcomes, feedback,
                   faults>>

EvaluateDone(w) ==
    /\ At(w, "due")
    /\ work[w].listed = {}
    /\ End(w)
    /\ UNCHANGED <<reflection, proposal, evidence, decisions, memories, trial, faults>>

-----------------------------------------------------------------------------
\* due_at_ms is reached; hours pass, no job is in the middle of the proposal.
BecomesDue(p) ==
    /\ experiment[p].status = "running"
    /\ ~experiment[p].due
    /\ \A w \in Workers : work[w].cur # p
    /\ experiment' = [experiment EXCEPT ![p].due = TRUE]
    /\ UNCHANGED <<reflection, proposal, evidence, decisions, memories, outcomes, feedback,
                   work, faults>>

UserSays(signal) ==
    /\ Len(feedback) < MaxFeedback
    /\ feedback' = Append(feedback, signal)
    /\ UNCHANGED <<reflection, proposal, evidence, decisions, memories, experiment, outcomes,
                   work, faults>>

Crash(w) ==
    /\ ~At(w, "idle")
    /\ crashes < MaxCrashes
    /\ crashes' = crashes + 1
    /\ End(w)
    /\ UNCHANGED <<reflection, proposal, evidence, decisions, memories, trial, overran>>

\* The leases of the batch expire while a job of it is running.
Overrun(w) ==
    /\ ~At(w, "idle")
    /\ ~overran
    /\ overran' = TRUE
    /\ UNCHANGED <<reflection, proposal, evidence, decisions, memories, trial, work, crashes>>

Proceeds(w) ==
    \/ InsertProposal(w) \/ InsertConflict(w) \/ AttachArtifact(w) \/ AttachEvent(w)
    \/ List(w) \/ Take(w) \/ Decide(w) \/ ApplyMemory(w) \/ StartExperiment(w) \/ Mark(w)
    \/ ConsolidateDone(w) \/ Conflict(w)
    \/ \E item \in work[w].listed :
         Propose(w, item) \/ Postpone(w, item) \/ InsertOutcome(w, item)
    \/ ReadProposal(w) \/ Conclude(w) \/ Close(w) \/ EvaluateDone(w)

Next ==
    \/ \E a \in Artifacts : Schedule(a)
    \/ \E w \in Workers : 
         \/ BeginConsolidate(w) \/ BeginEvaluate(w) \/ Proceeds(w)
         \/ Crash(w) \/ Overrun(w)
    \/ \E p \in Proposals : BecomesDue(p)
    \/ \E signal \in Said : UserSays(signal)

Spec == Init /\ [][Next]_vars

\* Jobs that have begun end, both jobs run again and again, and time passes.
FairSpec ==
    /\ Spec
    /\ \A w \in Workers : WF_vars(Proceeds(w))
    /\ SF_vars(\E w \in Workers : BeginConsolidate(w))
    /\ SF_vars(\E w \in Workers : BeginEvaluate(w))
    /\ \A p \in Proposals : WF_vars(BecomesDue(p))

-----------------------------------------------------------------------------
(***************************************************************************)
(* Properties.                                                             *)
(***************************************************************************)
History(status) ==
    CASE status \in {"absent", "candidate"} -> << >>
      [] status = "rejected" -> <<"reject">>
      [] status \in {"approved", "applied", "under_test"} -> <<"approve">>
      [] status = "confirmed" -> <<"approve", "approve">>
      [] status = "rolled_back" -> <<"approve", "rollback">>

Version(status) ==
    CASE status = "absent" -> 0
      [] status = "candidate" -> 1
      [] status \in {"approved", "rejected"} -> 2
      [] status \in {"applied", "under_test"} -> 3
      [] status \in {"confirmed", "rolled_back"} -> 4

\* The append-only decisions tell the whole history of a proposal, and its
\* version counts its changes: no process decides or applies it twice, although
\* each works on rows it has read earlier.
HistoryIsTold ==
    \A p \in Proposals :
        /\ decisions[p] = History(proposal[p].status)
        /\ proposal[p].version = Version(proposal[p].status)

\* Nothing is learned without approval: whatever crashed, a memory or an
\* experiment belongs to a proposal that was approved first, on evidence.
EffectWasApproved ==
    \A p \in Proposals :
        p \in memories \/ experiment[p].status # "absent"
            => /\ decisions[p] # << >> /\ decisions[p][1] = "approve"
               /\ p \in strong /\ Cardinality(evidence[p]) >= MinEvidence

\* A policy is confirmed only by an outcome on record, and attached to it, in
\* which what the user said was positive; and it is rolled back only by one
\* that was not.
VerdictWasObserved ==
    \A p \in Proposals :
        proposal[p].status \in {"confirmed", "rolled_back"}
            => /\ "outcome" \in evidence[p]
               /\ \E o \in outcomes[p] :
                    /\ o[2] = (proposal[p].status = "confirmed")
                    /\ \E i \in experiment[p].started + 1 .. o[1] :
                         o[2] => feedback[i] = 1

\* A policy under test has an experiment that will conclude it, unless a
\* process died between the two writes.
TestIsRunning ==
    \A p \in Proposals :
        proposal[p].status = "under_test" /\ crashes = 0
            => experiment[p].status = "running"

\* A policy is neither judged without an observation nor left without a test.
PolicyIsTested == VerdictWasObserved /\ TestIsRunning

\* Every proposal that a run calls for is decided and applied in the end: a
\* crash leaves it to the next run of the job.  Only a memory that is approved
\* before its evidence is complete can wait for ever.
ProposalSettles ==
    \A p \in Proposals :
        p \in wanted
            ~> \/ proposal[p].status \notin {"absent", "candidate", "approved"}
               \/ /\ proposal[p].status = "approved"
                  /\ p[2] = "memory" /\ "event" \notin evidence[p]

\* The experiment of a policy under test is concluded once the user has spoken
\* often enough, also by a job that finds the outcome of one that crashed.
TestConcludes ==
    \A p \in Artifacts \X {"policy"} :
        (proposal[p].status = "under_test"
            /\ Len(feedback) >= experiment[p].started + MinObservations)
            ~> (proposal[p].status \in {"confirmed", "rolled_back"}
                   \/ experiment[p].status = "completed")

\* Learning comes to an end, for a proposal and for its experiment.
LearningConcludes == ProposalSettles /\ TestConcludes
=============================================================================
