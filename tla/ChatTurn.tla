------------------------------- MODULE ChatTurn -------------------------------
(***************************************************************************)
(* A chat turn and what it leaves behind (runtime/interactive.py,          *)
(* storage/state_repository.py, services/trace_space_service.py,           *)
(* storage/self_belief_repository.py).                                     *)
(*                                                                         *)
(* Several processes, each with a conversation of its own, share the       *)
(* database and with it the organism and the relationship, which are logs  *)
(* of versions.  A turn reads both, waits for the model, stores the reply, *)
(* and appends a version to each if nobody did meanwhile; then a thread    *)
(* writes the trace of the turn, and a background task learns from it.     *)
(* The send lock orders the turns and the lifecycle tick of one process;   *)
(* the learning tasks run outside it.  Every SQL statement commits on its  *)
(* own, except inside a savepoint, which covers whatever a thread writes   *)
(* through the same connection meanwhile.                                  *)
(***************************************************************************)
EXTENDS Integers, FiniteSets, Sequences

CONSTANTS
    Processes,        \* gateway, terminal interface
    Turns,            \* the turns that users send
    Home,             \* the process of a turn
    Clock,            \* the cause of a version that only time brought about
    NoTurn,           \* no turn is integrating beliefs
    MaxTicks,         \* bound on the versions that ticks append
    MaxStops          \* bound on crashes and shutdowns

ASSUME ChatAssumption ==
    /\ Home \in [Turns -> Processes]
    /\ NoTurn \notin Turns
    /\ Clock \notin Turns
    /\ MaxTicks \in Nat
    /\ MaxStops \in Nat

VARIABLES
    up,            \* is the session of the process usable?
    at,            \* how far a turn is
    seen,          \* the versions a turn has read
    ticking,       \* the version that a lifecycle tick has read, -1: none runs
    user,          \* turns with a user.message event
    agent,         \* turns with an agent.message event
    organism,      \* table state_snapshots, oldest first
    relationship,  \* table relationship_snapshots, oldest first
    traces,        \* turns with a row in table traces
    thread,        \* the thread that writes the trace of a turn
    learner,       \* the background task that learns from a turn
    beliefs,       \* the writers of the versions of one lineage, oldest first
    section,       \* the integration of beliefs that occupies the event loop
    unsaved,       \* traces written inside the open savepoint of a process
    pending,       \* the turns that the backfill of a process still has to visit
    stops

events == <<user, agent>>
states == <<organism, relationship>>
archive == <<traces, thread, unsaved, pending>>
learning == <<learner, beliefs, section>>
session == <<up, stops>>
vars == <<session, at, seen, ticking, events, states, archive, learning>>

-----------------------------------------------------------------------------
Versions == [cause : Turns \cup {Clock}, by : Processes,
             kind : {"initial", "reply", "defer", "time"}, base : Nat]

\* A turn in one of these places has the send lock.
Holding == {"begin", "organism", "new_organism", "relationship", "new_relationship",
            "appraise", "complete", "defer", "defer_relationship",
            "reply", "reply_relationship", "trace"}

NoSection == [turn |-> NoTurn, head |-> 0, open |-> FALSE]

TypeOK ==
    /\ up \in [Processes -> {"down", "backfill", "ready"}]
    /\ at \in [Turns -> Holding \cup {"unsent", "done", "failed"}]
    /\ seen \in [Turns -> [organism : Nat, relationship : Nat]]
    /\ ticking \in [Processes -> Nat \cup {-1}]
    /\ user \in SUBSET Turns
    /\ agent \in SUBSET user
    /\ organism \in Seq(Versions)
    /\ relationship \in Seq(Versions)
    /\ traces \in SUBSET agent
    /\ thread \in [Turns -> {"none", "running", "returned", "failed"}]
    /\ learner \in [Turns -> {"none", "learning", "ended"}]
    /\ beliefs \in Seq(Processes)
    /\ section \in [Processes -> [turn : Turns \cup {NoTurn}, head : Nat, open : BOOLEAN]]
    /\ unsaved \in [Processes -> SUBSET Turns]
    /\ pending \in [Processes -> SUBSET Turns]
    /\ stops \in 0 .. MaxStops

Init ==
    /\ up = [p \in Processes |-> "down"]
    /\ at = [t \in Turns |-> "unsent"]
    /\ seen = [t \in Turns |-> [organism |-> 0, relationship |-> 0]]
    /\ ticking = [p \in Processes |-> -1]
    /\ user = {}
    /\ agent = {}
    /\ organism = << >>
    /\ relationship = << >>
    /\ traces = {}
    /\ thread = [t \in Turns |-> "none"]
    /\ learner = [t \in Turns |-> "none"]
    /\ beliefs = << >>
    /\ section = [p \in Processes |-> NoSection]
    /\ unsaved = [p \in Processes |-> {}]
    /\ pending = [p \in Processes |-> {}]
    /\ stops = 0

Own(p) == {t \in Turns : Home[t] = p}

\* Mutant of LockFree: turns do not exclude ticks, nor each other.
LockFreeOfTicks(p) == ticking[p] = -1

\* The send lock of the session.
LockFree(p) == ticking[p] = -1 /\ \A t \in Own(p) : at[t] \notin Holding

\* In one of these places a turn runs without a pause: only other processes and
\* threads take steps in between.
Running == {"organism", "new_organism", "relationship", "new_relationship",
            "defer", "defer_relationship", "reply", "reply_relationship"}

\* An open savepoint with rows in it keeps the other processes from writing.
MayWrite(p) == up[p] = "ready" /\ \A q \in Processes \ {p} : unsaved[q] = {}

\* The event loop of p can run a callback that was waiting.
LoopFree(p) ==
    /\ MayWrite(p)
    /\ section[p].turn = NoTurn
    /\ ticking[p] = -1
    /\ \A t \in Own(p) : at[t] \notin Running

\* Mutant of Appends: INSERT without the WHERE clause.
AppendsAlways(log, base) == base <= Len(log)

\* append_if_version refuses a version that was not computed from the last one.
Appends(log, base) == Len(log) = base

Version(t, kind, base) == [cause |-> t, by |-> Home[t], kind |-> kind, base |-> base]

Go(t, place) == at' = [at EXCEPT ![t] = place]

\* Mutant of Raise: send returns instead.
RaiseNever(t) == Go(t, "done")

\* send raises: the lock is released and the turn is over.
Raise(t) == Go(t, "failed")

-----------------------------------------------------------------------------
(***************************************************************************)
(* DigitalLifeSession.send up to the answer of the model.                  *)
(***************************************************************************)
Send(t) ==
    /\ at[t] = "unsent"
    /\ LoopFree(Home[t])
    /\ LockFree(Home[t])
    /\ Go(t, "begin")
    /\ UNCHANGED <<session, seen, ticking, events, states, archive, learning>>

\* Attachments are analysed and traces activated before anything is stored.
Observe(t) ==
    /\ at[t] = "begin"
    /\ LoopFree(Home[t])
    /\ user' = user \cup {t}
    /\ Go(t, "organism")
    /\ UNCHANGED <<session, seen, ticking, agent, states, archive, learning>>

EnsureOrganism(t) ==
    /\ at[t] = "organism"
    /\ MayWrite(Home[t])
    /\ seen' = [seen EXCEPT ![t].organism = Len(organism)]
    /\ Go(t, IF organism = << >> THEN "new_organism" ELSE "relationship")
    /\ UNCHANGED <<session, ticking, events, states, archive, learning>>

CreateOrganism(t) ==
    /\ at[t] = "new_organism"
    /\ MayWrite(Home[t])
    /\ \/ /\ Appends(organism, 0)
          /\ organism' = Append(organism, Version(t, "initial", 0))
          /\ seen' = [seen EXCEPT ![t].organism = 1]
          /\ Go(t, "relationship")
       \/ /\ ~Appends(organism, 0)
          /\ Raise(t)
          /\ UNCHANGED <<organism, seen>>
    /\ UNCHANGED <<session, ticking, events, relationship, archive, learning>>

EnsureRelationship(t) ==
    /\ at[t] = "relationship"
    /\ MayWrite(Home[t])
    /\ seen' = [seen EXCEPT ![t].relationship = Len(relationship)]
    /\ Go(t, IF relationship = << >> THEN "new_relationship" ELSE "appraise")
    /\ UNCHANGED <<session, ticking, events, states, archive, learning>>

CreateRelationship(t) ==
    /\ at[t] = "new_relationship"
    /\ MayWrite(Home[t])
    /\ \/ /\ Appends(relationship, 0)
          /\ relationship' = Append(relationship, Version(t, "initial", 0))
          /\ seen' = [seen EXCEPT ![t].relationship = 1]
          /\ Go(t, "appraise")
       \/ /\ ~Appends(relationship, 0)
          /\ Raise(t)
          /\ UNCHANGED <<relationship, seen>>
    /\ UNCHANGED <<session, ticking, events, organism, archive, learning>>

\* A failed appraisal counts as neutral; the emotion frame and the perception
\* are stored before the model is asked.
Appraise(t) ==
    /\ at[t] = "appraise"
    /\ LoopFree(Home[t])
    /\ Go(t, "complete")
    /\ UNCHANGED <<session, seen, ticking, events, states, archive, learning>>

\* The client went away: whatever the turn awaits raises CancelledError, which
\* the handlers of send do not catch.  A thread keeps running.
Cancel(t) ==
    /\ at[t] \in {"begin", "appraise", "complete", "trace"}
    /\ LoopFree(Home[t])
    /\ Raise(t)
    /\ UNCHANGED <<session, seen, ticking, events, states, archive, learning>>

-----------------------------------------------------------------------------
(***************************************************************************)
(* DigitalLifeSession.send from the answer of the model.                   *)
(***************************************************************************)
Answer(t) ==
    /\ at[t] = "complete"
    /\ LoopFree(Home[t])
    /\ agent' = agent \cup {t}
    /\ Go(t, "reply")
    /\ UNCHANGED <<session, seen, ticking, user, states, archive, learning>>

\* An error of the model or an empty reply.
NoAnswer(t) ==
    /\ at[t] = "complete"
    /\ LoopFree(Home[t])
    /\ Go(t, "defer")
    /\ UNCHANGED <<session, seen, ticking, events, states, archive, learning>>

AdvanceOrganism(t) ==
    /\ at[t] \in {"reply", "defer"}
    /\ MayWrite(Home[t])
    /\ \/ /\ Appends(organism, seen[t].organism)
          /\ organism' = Append(organism, Version(t, at[t], seen[t].organism))
          /\ Go(t, IF at[t] = "reply" THEN "reply_relationship" ELSE "defer_relationship")
       \/ /\ ~Appends(organism, seen[t].organism)
          /\ Raise(t)
          /\ UNCHANGED organism
    /\ UNCHANGED <<session, seen, ticking, events, relationship, archive, learning>>

\* After a deferral the turn raises what kept the model from answering; after a
\* reply a thread starts to write the trace.
AdvanceRelationship(t) ==
    /\ MayWrite(Home[t])
    /\ \/ /\ at[t] = "reply_relationship"
          /\ Appends(relationship, seen[t].relationship)
          /\ relationship' =
               Append(relationship, Version(t, "reply", seen[t].relationship))
          /\ thread' = [thread EXCEPT ![t] = "running"]
          /\ Go(t, "trace")
       \/ /\ at[t] = "defer_relationship"
          /\ Appends(relationship, seen[t].relationship)
          /\ relationship' =
               Append(relationship, Version(t, "defer", seen[t].relationship))
          /\ Raise(t)
          /\ UNCHANGED thread
       \/ /\ at[t] \in {"reply_relationship", "defer_relationship"}
          /\ ~Appends(relationship, seen[t].relationship)
          /\ Raise(t)
          /\ UNCHANGED <<relationship, thread>>
    /\ UNCHANGED <<session, seen, ticking, events, organism, traces, unsaved, pending, learning>>

\* write_turn, in a thread that shares the connection with the event loop.
WriteTrace(t) ==
    LET p == Home[t] IN
    /\ thread[t] = "running"
    /\ MayWrite(p)
    /\ \/ /\ traces' = traces \cup {t}
          /\ unsaved' = [unsaved EXCEPT ![p] = IF section[p].open THEN @ \cup {t} ELSE @]
          /\ thread' = [thread EXCEPT ![t] = "returned"]
       \/ /\ thread' = [thread EXCEPT ![t] = "failed"]
          /\ UNCHANGED <<traces, unsaved>>
    /\ UNCHANGED <<session, at, seen, ticking, events, states, pending, learning>>

\* The turn goes on once its thread is through.  A salient turn becomes an
\* emotional memory, whose foreign key refuses a trace that is gone.
Capture(t) ==
    /\ at[t] = "trace"
    /\ LoopFree(Home[t])
    /\ \/ /\ thread[t] = "returned"
          /\ Go(t, "done")
          /\ learner' = [learner EXCEPT ![t] = "learning"]
       \/ /\ thread[t] = "failed" \/ (thread[t] = "returned" /\ t \notin traces)
          /\ Raise(t)
          /\ UNCHANGED learner
    /\ UNCHANGED <<session, seen, ticking, events, states, archive, beliefs, section>>

-----------------------------------------------------------------------------
(***************************************************************************)
(* The lifecycle tick, which appends to the organism under the send lock.  *)
(***************************************************************************)
TickRead(p) ==
    /\ LoopFree(p)
    /\ LockFree(p)
    /\ Cardinality({i \in DOMAIN organism : organism[i].cause = Clock}) < MaxTicks
    /\ ticking' = [ticking EXCEPT ![p] = Len(organism)]
    /\ UNCHANGED <<session, at, seen, events, states, archive, learning>>

\* A refused version fails the job; a small change is not stored.
TickAppend(p) ==
    /\ ticking[p] >= 0
    /\ MayWrite(p)
    /\ \/ /\ Appends(organism, ticking[p])
          /\ organism' = Append(organism,
               [cause |-> Clock, by |-> p, kind |-> "time", base |-> ticking[p]])
       \/ UNCHANGED organism
    /\ ticking' = [ticking EXCEPT ![p] = -1]
    /\ UNCHANGED <<session, at, seen, events, relationship, archive, learning>>

-----------------------------------------------------------------------------
(***************************************************************************)
(* _learn_from_turn in the background, and the integration of a belief.    *)
(***************************************************************************)
EndLearning(t) == learner' = [learner EXCEPT ![t] = "ended"]

\* The extraction finds nothing, fails, or no review is due.
LearnNothing(t) ==
    /\ learner[t] = "learning"
    /\ LoopFree(Home[t])
    /\ EndLearning(t)
    /\ UNCHANGED <<session, at, seen, ticking, events, states, archive, beliefs, section>>

\* record_support and append_if_version read the head of the lineage.
ReadHead(t) ==
    /\ learner[t] = "learning"
    /\ LoopFree(Home[t])
    /\ section' = [section EXCEPT ![Home[t]] =
         [turn |-> t, head |-> Len(beliefs), open |-> FALSE]]
    /\ UNCHANGED <<session, at, seen, ticking, events, states, archive, learner, beliefs>>

OpenSavepoint(p) ==
    /\ section[p].turn # NoTurn
    /\ ~section[p].open
    /\ MayWrite(p)
    /\ section' = [section EXCEPT ![p].open = TRUE]
    /\ UNCHANGED <<session, at, seen, ticking, events, states, archive, learner, beliefs>>

\* The insert finds the head it was computed from, and the savepoint is
\* released; or another process was first, and it is rolled back with all
\* that was written inside.
AppendBelief(p) ==
    /\ section[p].open
    /\ MayWrite(p)
    /\ \/ /\ Appends(beliefs, section[p].head)
          /\ beliefs' = Append(beliefs, p)
          /\ UNCHANGED traces
       \/ /\ ~Appends(beliefs, section[p].head)
          /\ traces' = traces \ unsaved[p]
          /\ UNCHANGED beliefs
    /\ unsaved' = [unsaved EXCEPT ![p] = {}]
    /\ EndLearning(section[p].turn)
    /\ section' = [section EXCEPT ![p] = NoSection]
    /\ UNCHANGED <<session, at, seen, ticking, events, states, thread, pending>>

-----------------------------------------------------------------------------
(***************************************************************************)
(* Start and end of a process.                                             *)
(***************************************************************************)
\* Mutants of Answered: turns without a reply are traced, too; turns that send
\* did not return are left out.
AnsweredOrNot(p) == Own(p) \cap user
AnsweredInFull(p) == {t \in Own(p) \cap agent : at[t] = "done"}

\* The user and agent events with one correlation id.
Answered(p) == Own(p) \cap agent

\* initialize visits the stored turns of the conversation.
Start(p) ==
    /\ up[p] = "down"
    /\ up' = [up EXCEPT ![p] = "backfill"]
    /\ pending' = [pending EXCEPT ![p] = Answered(p)]
    /\ UNCHANGED <<stops, at, seen, ticking, events, states, traces, thread, unsaved, learning>>

\* A turn without a trace gets one, other turns keep theirs.
Backfill(p, t) ==
    /\ up[p] = "backfill"
    /\ t \in pending[p]
    /\ \A q \in Processes : unsaved[q] = {}
    /\ traces' = traces \cup {t}
    /\ pending' = [pending EXCEPT ![p] = @ \ {t}]
    /\ UNCHANGED <<session, at, seen, ticking, events, states, thread, unsaved, learning>>

Ready(p) ==
    /\ up[p] = "backfill"
    /\ pending[p] = {}
    /\ up' = [up EXCEPT ![p] = "ready"]
    /\ UNCHANGED <<stops, at, seen, ticking, events, states, archive, learning>>

\* The process dies, or close cancels the learning tasks and shuts the database;
\* what the open savepoint holds is lost.
Stop(p) ==
    /\ up[p] # "down"
    /\ stops < MaxStops
    /\ stops' = stops + 1
    /\ up' = [up EXCEPT ![p] = "down"]
    /\ at' = [t \in Turns |->
         IF Home[t] = p /\ at[t] \in Holding THEN "failed" ELSE at[t]]
    /\ ticking' = [ticking EXCEPT ![p] = -1]
    /\ thread' = [t \in Turns |->
         IF Home[t] = p /\ thread[t] = "running" THEN "failed" ELSE thread[t]]
    /\ learner' = [t \in Turns |->
         IF Home[t] = p /\ learner[t] = "learning" THEN "ended" ELSE learner[t]]
    /\ section' = [section EXCEPT ![p] = NoSection]
    /\ traces' = traces \ unsaved[p]
    /\ unsaved' = [unsaved EXCEPT ![p] = {}]
    /\ pending' = [pending EXCEPT ![p] = {}]
    /\ UNCHANGED <<seen, events, states, beliefs>>

Next ==
    \/ \E t \in Turns :
         \/ Send(t) \/ Observe(t) \/ Appraise(t) \/ Cancel(t)
         \/ EnsureOrganism(t) \/ CreateOrganism(t)
         \/ EnsureRelationship(t) \/ CreateRelationship(t)
         \/ Answer(t) \/ NoAnswer(t)
         \/ AdvanceOrganism(t) \/ AdvanceRelationship(t)
         \/ WriteTrace(t) \/ Capture(t)
         \/ LearnNothing(t) \/ ReadHead(t)
    \/ \E p \in Processes :
         \/ TickRead(p) \/ TickAppend(p)
         \/ OpenSavepoint(p) \/ AppendBelief(p)
         \/ Start(p) \/ Ready(p) \/ Stop(p)
         \/ \E t \in Turns : Backfill(p, t)

Spec == Init /\ [][Next]_vars

-----------------------------------------------------------------------------
(***************************************************************************)
(* Properties.                                                             *)
(***************************************************************************)
By(log, t, kinds) == {i \in DOMAIN log : log[i].cause = t /\ log[i].kind \in kinds}

Moves == {"reply", "defer"}

\* Every version of the organism and of the relationship was computed from the
\* version before it, and no turn moves either more than once, although turns
\* and ticks of several processes compute from what they read long before.
StateIsChained ==
    /\ \A i \in DOMAIN organism : organism[i].base = i - 1
    /\ \A i \in DOMAIN relationship : relationship[i].base = i - 1
    /\ \A t \in Turns :
         /\ \A i, j \in By(organism, t, Moves) : i = j
         /\ \A i, j \in By(relationship, t, Moves) : i = j

\* The send lock protects the state a turn has read until the turn moves it:
\* only another process can make append_if_version refuse it.
StaleOnlyByOthers ==
    \A t \in Turns :
        /\ at[t] \in {"relationship", "new_relationship", "appraise", "complete",
                      "reply", "defer"}
             => \A i \in seen[t].organism + 1 .. Len(organism) :
                    organism[i].by # Home[t]
        /\ at[t] \in {"appraise", "complete", "reply", "defer",
                      "reply_relationship", "defer_relationship"}
             => \A i \in seen[t].relationship + 1 .. Len(relationship) :
                    relationship[i].by # Home[t]

\* A turn that send returns has its reply, moved the organism and the
\* relationship with that reply, and left a trace, unless a review that
\* another process overtook took the trace along when it was rolled back.
DoneIsWhole ==
    \A t \in Turns : at[t] = "done" =>
        /\ t \in agent
        /\ By(organism, t, {"reply"}) # {}
        /\ By(relationship, t, {"reply"}) # {}
        /\ t \in traces \/ \E i \in DOMAIN beliefs : beliefs[i] # Home[t]

\* A process that has started has a trace for every turn that was answered
\* before, whatever ended those turns.
HistoryIsTraced ==
    [][\A p \in Processes : up[p] = "backfill" /\ up'[p] = "ready"
         => Own(p) \cap agent \subseteq traces']_vars
=============================================================================
