# A verification project for HDSC / ZERO

TLA+ models, TLC configurations and TLAPS proofs for the single-user
"digital life" runtime under `src/ssa`. Paths below are relative to `src/ssa`
of the repository; design documents are at its root.

The code is Python asyncio on one SQLite file. Connections are in autocommit
mode (`storage/database.py`), so **each SQL statement is one atomic step**. Code
between two `await`s is atomic for the other coroutines of its process, but not
for the other processes that share the file (the TUI, the web gateway and
`hdsc worker` all poll the lifecycle; `development_pipeline.md` §29.2 plans for
two processes). The models follow that: one action per statement when several
processes or a crash can come in between, one action per handler when nothing can.

## 1. Inventory

| Component | State | Operations | What is hard |
|---|---|---|---|
| Lifecycle jobs (`runtime/lifecycle.py`, `ScheduledJobRepository`) | `scheduled_jobs`: status, due, attempts, lease | bootstrap, lease, run, reschedule, complete, fail, revive, expedite | leases and crashes, two pollers, settling by id alone |
| Initiatives and outbox (`services/initiative_service.py`, `services/outbox_service.py`) | `initiatives`, `outbox`, `agent.initiative` events | evaluate, queue, claim, deliver, mark, retry, expire | at-least-once delivery, one event per row, hook failures, expiry |
| Contact episodes (`services/contact_episode_service.py`) | `contact_episodes` | open on delivery, follow up, withdraw, resolve on reply | stale whole-row updates, crashes in the middle of a follow-up |
| Inner life (`services/inner_life_service.py`) | `inner_loop_states`: mode, deadline, latent vector, version | observe user, observe agent, heartbeat | blind upserts from two processes, hysteresis |
| Offline agency (`services/offline_agency_service.py`) | `offline_episodes`, `offline_artifacts`, goals | run cycle (study, reflect, artifact, goal step) | awaits between a read and the write that depends on it, crashes |
| Reflective learning (`services/reflective_learning_service.py`) | reflection runs, proposals, experiments, evidence | schedule, consolidate, evaluate outcomes | partial failure between effect and decision |
| Goals | `goals` | ensure, advance | rows shared with the offline cycle |
| Resting traces (`services/resting_state_service.py`) | activations, `emotion_episodes` | expire, step, derive | check and insert apart, a user turn in between |
| World observation (`services/world_observation_service.py`) | `world_observations` | observe, follow up | event before observation, keys of all conversations |
| Autonomous runtime (`runtime/autonomous.py`) | tick lock, event buffers | tick, the twelve jobs, observe user and agent events | mode gates read before long awaits |
| Interactive session (`runtime/interactive.py`) | send lock, turn state, tool rounds | send, poll lifecycle, stream | cancellation, tool loop bounds |
| Organism state, relationship (`storage/state_repository.py`, `relationship_repository.py`) | version chains | append if version | lost updates |
| Background budget (`BackgroundUsageRepository`) | calls per day | try_consume | the limit under concurrent consumers |
| Event ledger (`storage/event_repository.py`) | append-only events | append, find | uniqueness of (channel, message id) |
| Memory write (`services/memory_write_service.py`) | `memories`, evidence | merge, contradict, insert | overlapping tasks, marks before successors |
| Self-beliefs (`services/self_belief_service.py`) | belief versions | candidate, support | two lineages of one claim, repeated reviews |
| Trace space (`services/trace_space_service.py`, `hdsc/active_space.py`) | traces, vectors, shadow | write, advance, replay | row and vector apart, two processes, capacity |
| Emotion services | frames | estimate | numerical cores |
| Web gateway (`interfaces/web_gateway.py`) | streams, speech tasks, event queue, skills, files | send, save, upload | disconnects, order of text and voice, races on a file |
| Model adapters (`adapters/`) | delegate, retries, fragments | complete, stream, configure | a route changed under way, mixed fragments |
| Database (`storage/database.py`) | `schema_migrations`, objects | open, migrate | two starters, missing extension, script splitting |
| Terminal (`interfaces/tui.py`) | composer, queued files, workers, blocks of the view | submit, attach, clear, send, poll | a second Enter, a cleared view, files of a failed turn |
| CLI, speech, tools, configuration | network clients, files | calls with retries | external systems |

Interactions: hosts call `AutonomousRuntime.tick` every two seconds; the tick
runs the due jobs one after the other; job handlers call the services, which
share the tables above; a delivered message calls back into contact episodes
and the inner life; a user event resolves episodes, engages the inner life and
expedites jobs. In one process `DigitalLifeSession._send_lock` keeps chat turns
and ticks apart.

Properties that make each component correct: exclusive execution, bounded
attempts and eventual execution for jobs; at-least-once showing and
exactly-once recording for messages; bounded messages and no resurrection for
contact episodes; a mode that a user event always ends for the inner life;
evidence before claim for offline agency and learning; no lost update for the
version chains; the daily limit for the budget.

## 2. Plan

In order of importance:

1. `LifecycleJobs` with the abstract `JobQueue` (done, proved).
2. `OutboxDelivery` with the abstract `MessageDelivery` (done, proved).
3. `ContactEpisodes`: episodes driven by deliveries, replies and follow-ups (done, proved).
4. `InnerLife`: modes and version of the inner loop, two writers (done, proved).
5. `OfflineAgency` with goals and the background budget, with crashes (done, proved).
6. `ReflectiveLearning` with crashes and compare-and-swap (done, proved).
7. `ChatTurn`: the send lock, cancellation, versions of organism and relationship,
   traces, with two processes (done, proved).
8. `MemoryWrite`, `SelfBelief` and `TurnLearning`: what learning tasks write (done, proved).
9. `TraceSpace`: traces, vectors and the shadow state (done, proved).
10. `ToolLoop` and `GatewayStream`: a streamed turn with tools and voice (done, proved).
11. `Workspace`, `SkillShelf`, `ModelRoute`, `ToolChunks`: the rest of the gateway, and
    `Terminal`, the other client (done, proved).
12. `WorldWatch`, `RestingState`, `RelationshipTurn`, `Migrations`, `SqlScript` (done, proved).
13. Open: the gates of `InitiativeService.evaluate`, the frame state machine of the emotion service,
    the patch protocol of the coding tools, the retry loops of the speech adapters.

Abstract specifications worth stating: a work queue (1), at-least-once delivery
with exactly-once recording (2), a conversation whose open follow-ups are paid for by
messages that were sent (3), a log whose entries were computed from their predecessors (6, 7, 8).

Theorems worth proving: type correctness, exclusiveness, bounds and the refinements of 1 and 2;
the invariants of 3 to 7; the version chains and what the send lock protects in 7; memories and
beliefs in 8; the shadow state of 9; the tool loop of 10 and what the client of a streamed turn is told and hears; the parts of 11 and 12.
All of these are done (section 7).

## 3. Modules

### LifecycleJobs and JobQueue

`LifecycleJobs` models `scheduled_jobs` and any number of
`PersistentLifecycleWorker` processes. Columns are functions on `Jobs` (one row
per dedup key), the locals of `bootstrap` and `run_due` are functions on
`Workers`. Actions and code:

| Action | Code |
|---|---|
| `Boot`, `BootFind`, `BootInsert`, `BootInsertConflict`, `BootRevive`, `BootDone` | `bootstrap`, `enqueue`, `revive_missing_handler_dead_letter` |
| `Enqueue`, `Expedite` | `ScheduledJobRepository.enqueue`, `expedite` |
| `LeaseSelect`, `LeaseUpdate`, `LeaseDone` | the SELECT, the UPDATEs and the end of `lease_due` |
| `Dispatch`, `Reschedule`, `Complete`, `FailRead`, `FailWrite`, `TickDone` | the loop of `run_due` with `reschedule`, `complete`, `fail` |
| `Crash` | death of the process, or `lifecycle_task.cancel()` in the web gateway: `CancelledError` is no `Exception`, so nothing is settled |
| `Advance` | the clock |

`MayOverrun` says whether a batch may outlive its leases. The code does not
prevent it (60 s for up to 32 jobs in sequence, `runtime/lifecycle.py:122`), so
the exclusiveness properties are stated for batches that end in time. The runs of this module assume
it too (`MayOverrun = FALSE`); no run shows a batch that does not.

`JobQueue` is what the table promises: a job is queued, owned by one claimant,
and settled only by its owner, or abandoned. `ImplementsQueue` is the refinement.

### OutboxDelivery and MessageDelivery

`OutboxDelivery` models a message as an initiative with its outbox row, from
`Evaluate` (dedup check, awaited draft, insert, APPROVED, enqueue, QUEUED as
separate statements) over `ClaimSelect`/`ClaimUpdate`, `Show`, `FindEvent`,
`AppendEvent`, `MarkDelivered`, `MarkSent` and the hook to `FailRead`/`FailWrite`,
and `Expire`. Times are kept as the time that remains (`wait`, `life`), which
makes the state space finite without a bound on the clock and lets liveness be
stated without a horizon. `Settings` lists what a behaviour may do (how many
messages, processes and crashes, and whether it is `rough`: batches may outlive
their leases and the hook may raise), so that one run covers a row with two
processes, two rows with one, and the rough case. `Evaluate` excludes a second
process on the same message unless it is rough: the job that runs it is leased
(`LifecycleJobs`, `MutualExclusion`). Delivery does not rely on the job's lease;
`claim_due` is checked on its own.

`MessageDelivery` is the promise: a message is shown before it is recorded,
recorded at most once, and acknowledged only when recorded.

### ContactEpisodes

An episode is one opening initiative with its row in `contact_episodes` and the
messages numbered by their dedup key (`msg[e][n]`). One worker runs
`Evaluate`/`InsertInitiative`/`Enqueue` (initiative.evaluate),
`ContactRead`/`Withdraw`/`Postpone`/`SkipExisting`/`FollowUp`/`Link`
(`evaluate_due` and `_queue_follow_up`) and `Deliver`/`OpenEpisode`/`GetEpisode`/
`AdvanceEpisode`/`Observe` (the delivery and its hook `on_delivered`); the chat
runs `UserEvent`/`Resolve`. `update` writes the whole row from a copy read
earlier (`copy`, `seen`). With `Separate = FALSE` the send lock excludes chat and
worker; with `Separate = TRUE` they are two processes. Then `EndIsFinal`
does not hold (the stale row of one process makes a resolved episode active again),
so the run checks one process only. What the outbox does to one message is the subject of
`OutboxDelivery`: here it is sent, given up, or sent again after a hook that raised.

That an episode never has two open messages is true for the three messages of the service's
default, and for more as long as the hook `on_delivered` returns. From four messages on (the domain
allows eight, domain/lifecycle.py) a hook that raises after it has counted lets the message be
delivered and counted again, and a follow-up is queued beside the one that waits. `OneOpenMessage` says it
with that condition, `FewOpenMessages` bounds what is left (one more for each time the hook raised), and
`CountIsEarned` bounds the count in the same way. The condition was found by the attempt to prove the
unconditional property: no run with three messages can show it.

Not claimed, and false in the model: a job is executed twice when a batch outlives
its leases; `SentIsFinal`, because the update to QUEUED may follow
the delivery by another process; `DeadLetterWasNotSent`, because a hook that raises
fails a row already delivered; `ExpiredIsFinal`, because an initiative that expires
while its row waits is delivered without a look at it; `CooldownKept` and `DailyLimitKept` do
not hold, because the gates count sent messages and two messages queued in one
tick pass them both; `ResolvedSendsNothing` does not hold, because resolving an
episode leaves its queued follow-up in the outbox.

### InnerLife

`row` is the single row of `inner_loop_states`; `users`, `agents` and `answered`
summarise the event ledger. The chat turn (`Send` to `ReplyPut`), the heartbeat
(`Heartbeat`, `BeatUser`, `BeatAgent`, then one of `BeatQuiet`, `BeatCatchesUp`,
`BeatRefreshes`, `BeatAdvances`, then `AppendTransition` and `Write`) and the
delivery hook (`Deliver`, `WorkerGet`, `HookPut`) are split at every statement.
Energy and readiness are numbers the model does not compute: `NextModes` is the
set of modes they can lead to. `attempts` is the attempt count of the heartbeat
job of `LifecycleJobs`. With `InnerSeparate` the chat is another process; then a stale
heartbeat overwrites `engaged` and `OfflineIsInformed` fails, so the deployment the README of the repository asks for,
one worker process per database, is what the run checks.

### OfflineAgency

The cycle (`Plan` to `Cost`) is split at every statement of `run_cycle` and at its
awaits; `Plan` is everything before the first await. `episode` has one slot per trace
and one for the external study in hand, since the dedup key admits one episode per
trace. `goal` and `reviewed` are the row of the self project and the traces that its
steps name; `held` says whether the copy a cycle works on is still of that project.
With `Separate`, `goal.advance` (`AdvanceDue`, `AdvanceStep`, `AdvanceUpdate`,
`CreateProject`) and the drafts that share the LLM budget run in another process, in
the middle of a cycle. `goal.due` stands for `next_action_at_ms`: a cycle writes back
the value it has read, so with two processes any value is possible. The absence of the
user, the energy and the mode of the inner life only decide when a cycle may begin and
are left to nondeterminism.

Not claimed, and false: that every trace is studied whatever happens (the dedup key of
an episode that a crash left running keeps its trace from ever being studied, and while
it is the newest trace all cycles on traces end as duplicates); that a trace the
goal counts was studied (after an external study the step names the newest unstudied
trace); and, with two processes, that a project that is done stays done (the cycle's
stale copy may not, but its re-read of the steps keeps the progress right).

### ReflectiveLearning

`Schedule` is one artifact in `reflection.schedule`; its gate, the critic score and the
naming of a next action are choices. A worker runs `learning.consolidate`
(`BeginConsolidate` to `ConsolidateDone`) or `learning.evaluate_outcomes`
(`BeginEvaluate` to `EvaluateDone`), one SQL statement per action except the savepoint
of `append_decision`, which is one (`Decide`, `Conclude`). `work` holds what the code
keeps in locals: the rows it has listed, with the version that the later write expects,
and how many user events it has read. A lease keeps a job from running twice until
`Overrun`: then both processes run it, and `Unchanged`, the comparison of versions, is
all that is left. A job that loses it raises (`Conflict`).

Not claimed, and false: that a strong proposal is never rejected (a proposal is inserted
before its evidence, and a crash, or another process, in between makes the next
decision find none and reject it; `formalization.md` 13.5 promises that partial failures
stay retryable candidates); that each test ends with a decision (a crash after the
experiment is inserted lets it come due before its proposal is under test, and it is then
closed without one, which is why `TestIsRunning` is stated up to a crash); and that an
approved memory is applied if a crash kept its events from being attached
(`ProposalSettles` names that case).


### ChatTurn

A turn (`at[t]`) goes through `DigitalLifeSession.send`: `Send` takes the send lock,
`Observe` stores the user event, `EnsureOrganism`/`CreateOrganism` and
`EnsureRelationship`/`CreateRelationship` read or create the versions the turn works
with (`seen`), `Appraise` stands for the awaits up to the request and for what they
store, `Answer` and `NoAnswer` are the two outcomes of `_complete_captured`,
`AdvanceOrganism` and `AdvanceRelationship` are the two statements of
`_advance_internal_state`, `WriteTrace` is the thread of `write_turn`, and `Capture`
returns. `TickRead`/`TickAppend` are the other writer of the organism in a process
(`state.refresh`; the cost of an offline cycle is appended the same way). `organism`
and `relationship` are the logs of versions, each with the turn and the process that
wrote it and the version it was computed from.

Code between two awaits runs without a pause in its process (`Running`, `LoopFree`),
but the other process and the threads take steps in between. `section` is the
integration of a belief by a learning task: it reads the head of a lineage, opens a
savepoint, inserts and releases, or finds that another process was first and rolls
back. The connection is shared with the thread of `write_turn`, so a trace written
between the two statements is inside the savepoint (`unsaved`) until it is released
and is gone if it is rolled back. While a savepoint holds rows, SQLite keeps the other
process from writing (`MayWrite`).

Assumed: each process has its own conversation (`web-primary`, `cli-primary`); all
beliefs that are integrated at the same time are of one lineage, the case with
conflicts; a finished thread's row is either there or the thread has raised. Left out:
perception and emotion records. The tool rounds, retries and rewrites inside
`_complete_captured` are `ToolLoop`, the shadow of the trace space is `TraceSpace`, and
what a learning task writes and when a review is due is `TurnLearning`.

Two behaviours that the properties describe and do not excuse. When the other process
has moved the organism during the awaits, `append_if_version` raises after the agent
event is stored: the reply stays in the ledger, the turn fails, and neither the state
step nor (until the next start) the trace happens; `development_pipeline.md` 7.3 asks
to re-execute once from the newest snapshot in one transaction.
`StateIsChained` and `StaleOnlyByOthers` say what remains true. And a turn that
was returned may lose its trace to the rollback above, which is the last disjunct of
`DoneIsWhole`; `HistoryIsTraced` says that the next start repairs both.

### TurnLearning with MemoryWrite and SelfBelief

`TurnLearning` composes the two stores that the learning tasks of a turn write. `Turn` is
`_schedule_learning`, `Initialize` is `_bootstrap_learning` at the start of a process; a
task goes through `AskForMemories`, `MemoriesExtracted`, the steps of `MemoryWrite`
(`WriteMemories`), then `SkipReview` or `AskForClaims`, `ClaimsExtracted`, the steps of
`SelfBelief` (`IntegrateClaims`) and `Reviewed` or `ReviewFails`. The sessions of
the gateway and of the terminal defer their tasks (`build_interactive_session`), so they overlap at their
awaits and run without interruption in between (`MayRun`); a session made without `defer_learning`
awaits each. Both kinds are checked, as two processes that write one database, statement by statement.

`MemoryWrite` is `write_candidates`: look the content up, add support, look for the
memories it contradicts, mark them, insert the memory with its evidence (one savepoint).
`SelfBelief` is `integrate_candidates`: the list of current beliefs is read once, then each
event a belief does not know becomes a version, appended only if the version read is
the latest. What the runtime never calls is left out (`review_candidate`,
`record_counterevidence`, `revise`, `archive`, the whole of `MemoryRetrievalService`).

The model keeps what a reader may not expect: the marker of the identity review is set
although the request failed, and of two deferred tasks that overlap the later one may move
it back, so turns are reviewed twice. `BeliefsAreEarned` says why that does no harm: an
event raises the confidence of a lineage once. Two processes may create one memory or one
belief twice (`TwinsAreOfTwo` says that it takes two). A crash between the mark of a
contradicted memory and the memory that takes its place leaves it set aside for nothing
(`ConflictHasSuccessor` is stated without crashes).

### TraceSpace

Each answered turn leaves a row in `traces`, its vector and its links in statements of their
own (`InsertTrace`, `InsertVector` or `VectorRefused`, then `CountTraces`); the process then
advances its in-memory shadow (`AdvanceShadow`) or replays the archive (`StartReplay`,
`Replay`) when the counts do not fit. `ShadowStep` is `bounded_active_shadow_step`:
retention, injection, capacity with hysteresis, null mass. Masses are exact: integers in a unit that gets 20 times
finer with each step (`one` is a mass of 1 in it); rounding and `mass_tolerance`, which drops a cluster that has
decayed for a hundred steps and more, are left out. `ShadowIsSound` compares
each shadow with the replay of the traces it was made of; `ShadowIsCurrent` says when it
holds all of them. A vector refused, or a crash, between the two inserts leaves a trace without
a vector, and each later replay then fails; the properties say so. Assumed: a process
has one `write_turn` at a time. Left out: links, activation and the rollback of a shared
savepoint (which is in `ChatTurn`).

### RelationshipTurn

What a turn does to the relationship: `Preview` applies the event, `Finalize` the action, both
in one synchronous stretch of `_advance_internal_state`; `Discard` is a version that was
refused. Values are integers (`Full` is 1.0), an effect is a percentage of the cap.
`TurnIsCapped` is the sentence of the class's docstring ("the entire turn is capped relative
to the state that entered preview"), with what may lower trust and what may settle a matter.
The weights of an event and a bare intent never exceed the cap together; it binds when an
action fulfils or resolves, which `RelationshipAction` allows and the runtime does not use yet.
How an event gets its kind, and the last bit of floating point, are left out.

### WorldWatch

`world.observe`: a pass takes one signal of each source (`BeginPass`), and for each that is not silent
looks its key up (`Look`), appends the event (`AppendEvent`) and the observation (`Insert`) in statements
of their own; at the end, new material is followed up (`EndPass`). Keys are global: of two
conversations only the first that sees a key records it. A crash between event and
observation strands the key, and every later pass fails there and hides the signals behind it
(`cutKeys`); a pass that is cut loses its follow-up, since the retry finds everything
stored (`cutPasses`). `NotedIsObserved` and `MaterialIsFollowed` name exactly these exceptions.

### RestingState

`trace.resting_step`: `ExpireDecayed`, the event, the activations one by one
(`RecordActivation`), then an emotion for each type that has none active. What is active is
read once (`DeriveEmotions`); then the types are gone through, and one that was there is passed over
(`PassOver`), one that was not is inserted (`InsertEpisode`). Read and insert are apart, so a process that
took over the lease can add a second one (`EmotionTwinsAreForeign`). `UserTurn` resolves what is active;
`EmotionsAreOfNow` and `EndedStays` say that a turn is not undone by a step that was under way.
Scores, valence and the choice of traces are abstract.

### Migrations and SqlScript

`Migrations` is the start of any number of processes on one file: the applied versions are read
once, before `BEGIN IMMEDIATE` (`Open`), each file is a transaction (`Begin`, `Execute`,
`Commit`), a second starter waits and is then refused or times out, and a migration of vectors
only is put off while the extension is missing. `SchemaIsWhole` relates what is recorded to
what exists. `SqlScript` is `_split_sql_statements` and `_find_comment_start` as functions,
compared with SQL's own reading of quotes and comments, checked for every script of bounded
length and proved for every script. The known difference is stated as an exception (`DashesAfterString`): a string that
goes on over a line end, followed there by two dashes, is cut. Line breaks are left out on both sides: the code
puts one after each line of a statement, but none after a line that ends inside a string, so that a string
over several lines loses its breaks.

### ToolLoop and GatewayStream

`ToolLoop` is one turn of `_complete_captured`: rounds of requests, the tool calls of each with
their deduplication, audit events and time limits, the final request without tools, the
continuation of a truncated answer, the rewrite for length and for voice, and cancellation
at each await. `GatewayStream` adds `POST /api/send`: `OnStream` runs inside the steps of
the turn and feeds `SpeechSegmenter` (`FeedText`, `SetStyle`, `CloseInput`) and the
queue of the client; the voice task (`TtsStep`) and the task that serves the request
(`ServeStep`) run beside it, and the client may leave at any time.

Behaviour the model keeps: text with the reply at the tool limit is neither shown nor spoken
nor checked; tool calls of a truncated response are dropped; the forced call of round 0 is not
remembered and may run again; a cancellation does not kill a running command and leaves its
effect without an audit event; a tool that timed out may have had its effect and may
run again; the cancellation of a turn that is failing is swallowed. Facial cues and expressions are
left out.

### ModelRoute and ToolChunks

`ModelRoute` is the switchable adapter: `Configure` replaces its delegate under the send lock
while requests of the learning tasks are out; `Receive` is an answer, a failure or an empty
answer of each protocol. DeepSeek has two budgets of retries, for answers that are not the JSON that
was asked for and for exhausted resources; the OpenAI Responses endpoint falls back to Chat
Completions, for good once that has answered. Calls of LiteLLM are counted, not what it sends
again by itself (`max_retries`). `ToolChunks` is `_invoke_stream`: the fragments of several calls
arrive mixed, each identifier whole, repeated or cut in two, and `Merged` (`_merge_stream_identifier`) puts them
together. An identifier whose rest repeats the end of its beginning loses letters
(`Ambiguous`). Pieces that each repeat all that came before are not among what the docstring
(`adapters/llm.py:838`) expects, and the code would append them. A provider that leaves chunk indexes out is not modelled.

### Workspace and SkillShelf

`Workspace` is one file of the coding workspace: two editors read and save it with the version
they saw, a command and the tools write it as well. A save compares modification times, writes a temporary
file and replaces; a write of another process between the comparison and the replacement, or
between the replacement and the final `stat`, is the race that `EditsAreKept` excepts by name.
`SkillShelf` is the skill library: a directory per skill and `library.json`. Requests of the
gateway do not interleave (its handlers are `async def` with synchronous bodies), but may fail
or be cut between two writes and between the last write and the answer (`TellClient`), and the process
may stop; the removal of what a failed archive left may itself fail in part (`UndoInPart`). `standing` is
what the client was told and may still rely on: a request that is not answered leaves open only what it
asked to change (`Unanswered`). The files of a skill are those of the upload that lie beside its
`SKILL.md` in an allowed directory; the others are left out before. A directory without `SKILL.md` after a cut
request can be neither installed again nor removed; a failed read of
`library.json` makes the next save forget every other switch. `ShelfIsKept` says what holds
besides. The raw `SKILL.md` of an archive is assumed to be loadable.

### Terminal

`Terminal` is `DigitalLifeApp`: `PressEnter` posts a Submitted message that `Submit`,
`AttachFile`, `DetachFile` or `EmptyQueue` handles later, so Enter may be pressed twice before the
composer is disabled. The second submit cancels the worker of the first (`Cancelled`), whose
`finally` clause (`Unwind`) enables the composer while the second turn runs. `BeginSend`,
`SendLocks`, `HandleStreamEvent`, `RenderTurn` and `SendRaises` are the worker of a turn, `PollLocks`
and `PollEnds` the poll that shares its lock. `wanted` records which files the user
has attached and has neither removed nor seen answered. How Textual posts messages and cancels
workers is external.

Behaviour the model keeps: a superseded turn loses its files, its block stays live, and after it more
files than the limit may be queued (`FilesAreKept` and `ViewIsSettled` except such a turn by name); when
the index cannot be built, the lifecycle is never polled, although the composer is enabled. Panels,
the command palette, the trail of tools and quitting are left out.

### MCMind and MCStream

The modules above write different tables or different parts of the gateway. They are checked side by
side: `scene` picks, in the initial state, which component a behaviour is about, and all
others stay still. Each named property is a conjunction of the components' own (see the
definitions at the end of both modules).

## 4. Runs

| Run | Config | Expect | Properties | Shows |
|---|---|---|---|---|
| jobs_batch | `MCLifecycleJobs.cfg` | pass | `TypeOK`, `LeasesAreKept`, `ImplementsQueue` | Two processes with all handlers poll a recurring and a one-shot job, one of them may crash: no double execution, bounded attempts, and the table implements the abstract queue. |
| jobs_live | `MCLifecycleJobsLive.cfg` | pass | `JobsAreTakenUp`, `OutcomesAreFinal` | A process restarts with and without the handler of the recurring job: under fair polling a due job is taken up although a batch holds one job only, an orphan is leased again, and only burying for want of a handler is undone. |
| jobs_stranded | `MCLifecycleJobsStranded.cfg` | violation | `ExhaustedReachesDeadLetter` | A crash on the last attempt leaves the row running for ever: lease_due filters it out and nothing dead-letters it. |
| outbox | `MCOutboxDelivery.cfg` | pass | `OutboxTypeOK`, `DeliveryIsOrderly`, `ImplementsDelivery`, `MessageIsSettled`, `OrphanExpires` | Two processes queue, expire and deliver messages and one may crash anywhere: at least one showing, at most one event, acknowledgement last; and where batches outlive their leases and hooks raise, a queued message is still delivered or dead-lettered and an initiative without a row expires. |
| contact_one | `MCContactEpisodes.cfg` | pass | `TypeOK`, `EpisodeIsOrderly`, `EndIsFinal`, `EpisodeEnds` | An episode of up to three messages under one worker and a chat behind the send lock, with quiet hours, daily limit and cooldown, failed channels and two crashes or raising hooks: one message is open at a time, the count is earned, an ended episode stays ended, and without a fault or a failed channel every episode ends. |
| contact_stuck | `MCContactEpisodesStuck.cfg` | violation | `ContactTerminates` | A crash between the insert of a follow-up and its outbox row leaves an episode that is due for ever and never moves on. |
| inner_heartbeat | `MCInnerLifePoison.cfg` | violation | `HeartbeatGoesOn` | A crash between the transition event and the row makes every later heartbeat append the same event, raise and use up the attempts of the job. |
| offline_one | `MCOfflineAgency.cfg` | pass | `AgencyTypeOK`, `CompletedHasEvidence`, `BooksAreKept`, `TraceIsStudied` | Offline cycles with goal.advance in another process, failing sources, the end of the day and a crash anywhere: a completed episode has its evidence, the goal is never credited beyond its steps, the budget holds and every trace is studied unless a cycle was killed. |
| learning | `MCReflectiveLearning.cfg` | pass | `TypeOK`, `HistoryIsTold`, `EffectWasApproved`, `PolicyIsTested`, `LearningConcludes` | Two processes consolidate and evaluate, one may crash between any two statements and a batch may outlive its leases, so that both work on one proposal: nothing is decided or learned twice or without approval, and what a crash interrupts is taken up again. |
| chat | `MCChatTurn.cfg` | pass | `TypeOK`, `StateIsChained`, `StaleOnlyByOthers`, `DoneIsWhole`, `HistoryIsTraced` | Gateway and terminal answer three turns with ticks, disconnects, failures, a crash and reviews in the background: the versions of organism and relationship form a chain, only the other process makes a turn stale, what send returns is complete, and a restart traces what was answered. |
| mind | `MCMind.cfg` | pass | `MindTypeOK`, `MemoryIsSound`, `TwinsAreOfTwo`, `TablesAreSound`, `SelfIsEarned`, `ShadowIsCurrent`, `PresenceIsInformed` | What turns leave behind, with two processes and a crash anywhere: memories and beliefs of overlapping learning tasks, traces with the shadow state that follows them, the relationship a turn moves; the mode of the inner loop, what it notices of the world and feels at rest; and the start of a process on an old, empty or half-migrated database, with the splitting of its scripts. |
| stream | `MCStream.cfg` | pass | `StreamSceneTypeOK`, `ToolsAreSound`, `ClientIsTold`, `WorkIsKept`, `TurnEnds` | A turn with its tool rounds, retries and voice as the client receives it, the route of the model and the calls it streams, the files of the coding workspace and the library of skills; and the terminal with its queue of files, its view and its poll. |

A violation run checks one statement of the documents that the code does not keep; the findings of `PROJECT.json` quote it.

## 5. Fairness

`LifecycleJobs!FairSpec` assumes that processes keep taking steps (the hosts
poll every two seconds, handlers return or raise) and that time passes.
`OutboxDelivery!FairSpec` assumes that a process finishes the job it has begun,
and strong fairness of the delivery and the expiry job: between other jobs each
is started again and again, which is what `DueJobIsLeased` shows for the job
table. No fairness is assumed for user events, crashes or the channel: a channel
that always fails still leads to a dead letter.

`ContactEpisodes!FairSpec` assumes that begun jobs and turns end, that delivery,
contact and heartbeat jobs run again and again, and that days and quiet hours end.
Since nothing else in the model relates the hour of the day to the hour of an
evaluation, it also says that days are longer than the hour by which a gate postpones
an episode, and that the contact job, which recurs every few minutes, begins, passes
the gates and ends in them.

`OfflineAgency!AgencyFairSpec` assumes that begun cycles and advances end, that the job
begins a cycle when its gates let it (it recurs every few minutes and is due again
after each run), and that days end. The source and the LLM may always fail.

`ReflectiveLearning!FairSpec` assumes that begun jobs end and that both jobs are begun
again and again (strong fairness, as `DueJobIsLeased` shows for the job table), and that
the duration of an experiment passes. Nobody has to say anything.

The run `stream` assumes that the provider, the commands and the voice services answer or time
out and that a task of the gateway that can take a step takes one: weak fairness of the turn, of
the voice, of the serving task and of the requests to the model; in the terminal, of the workers,
with strong fairness of the send lock, which asyncio grants in the order of requests. The HTTP clients have time limits;
search and git commands, and a killed command whose children keep its pipe, do not, so for them
it is an assumption. The run `mind` has no liveness.

## 6. Bounds

`MaxAttempts = 2` (code: 5) makes the last attempt and the one before it
different; a lease of 2 ticks is the shortest during which time can pass; retry
delays 1 and 2 are the first delay and the cap. One or two crashes suffice to
strand a row on its last attempt. Two processes and two rows are the smallest
instance with a race and an order. `MaxClock` bounds the clock of
`LifecycleJobs`; its liveness properties speak of the jobs due within it.

In `ContactEpisodes` a follow-up is the second and an escalation the third
message, so `MaxMessages = 3` has each; one episode suffices, because episodes meet
only in the gates, which the messages of one already close; the limits `DailyLimit = 2` and
`Cooldown = 1` close the gates within an episode. `MaxFaults` bounds the crashes
and the hooks that raise.

`InnerLife` needs two user events (an answered and an unanswered one), three agent
events (two replies and a delivery) and seven versions of the row to go offline
and come back; `HeartbeatAttempts = 3` leaves two retries after a crash.

`OfflineAgency` has two traces (one to study, one newer), two reviews that finish the
goal (code: seven), two cycles and two LLM calls a day, and an external study every
second cycle, so that every limit is reached in one day and a project is finished and
replaced. The archive is bounded: traces that arrive faster than the cycles of a day
would postpone the oldest for ever, as in the code.

`ReflectiveLearning` has one artifact with its two proposals, one user event that may or
may not be positive, one crash, and two processes: one proposal with two writers is
where the races are, and artifacts do not interact. The limits on runs and proposals per
cycle and on the events read (240) are not reached.

`ChatTurn` has two turns in one process and one in another, one version appended by a
tick and one crash or shutdown: the other process can be early, late and in between
for each pair of statements, and two learning tasks can overlap.

`mind`: `Settings` gives four cases of learning: one turn in each process with memories, a
process with three turns to learn from at its start, three and two turns with reviews, and both in one
task; two contents and one claim suffice, since twins and contradictions are of two. Three traces of
turns, four in all, over two clusters with `Capacity = 1`: the second trace is already over the
capacity. Two sources, of which one may be missing and one silent, and two changes
of the world; one emotion type, three steps and one user turn at rest. Five migrations with each
kind of statement, two old databases, two starters. Scripts of one line of at most five and of two
lines of at most three characters. One turn of a relationship from each corner of its values.

`stream`: two tool rounds (the last allowed one and one before), one continuation and one rewrite,
two tools, six responses that differ in calls, length, cut and voice; segments of three tokens, so
that a soft and a hard cut happen; the three modes of voice. Four writes of a file, two skills, three
changes of route, one retry of each kind, two streamed calls with identifiers of two letters. In the
terminal two files with a limit of one (code: eight) and three turns: after a superseded turn, one that
carries files can fail while the same file is queued again. `Hurried`: Enter is pressed twice for a message only.

## 7. Proofs

`BackgroundProofs` proves of the job table, for any sets of jobs and processes and any bounds,
`TypeCorrect`, and, assuming `~MayOverrun`, `LeasesAreExclusive`,
`OutcomesFinal` and `Refinement`. The argument: a row in a process's batch is
running under exactly the lease that process wrote (`SettlesOwnLease`), and the
lease has not ended because the batch ends first (`Timely`), so no other process
finds it leasable. To be inductive this needs to say which places may hold a
batch (`Tidy`), that what a process has selected but not yet leased is either
unchanged or under a live lease (`SelectionStands`), which is why the missing
attempt check of the UPDATE is harmless, and that the verdict of `FailRead`
still matches the row when `FailWrite` acts on it (`VerdictStands`).

Of the offline cycle `BackgroundProofs` proves, for any bounds, one process or two, `AgencyTypeCorrect`,
`EvidenceOfCompleted` and `BooksStayKept`. `EpisodeIsUnderWay` says what the episode in hand has at
each place of the cycle; without it a second artifact, or a completion without the first, could not
be excluded. `ReadIsEarned` says that what `goal.advance` has read stays covered by the steps of the
goal, counting the trace it is about to add, while the cycle adds steps of its own; that the trace it
has picked was new when it read is what makes the count right, and `NewestExists` (any set
of traces has a newest one, by the well-founded order of finite sets) is needed for that.

`MessageProofs` proves of the chat turn, for any processes, turns, homes and bounds, `TypeCorrect`,
`VersionsAreChained` and `LockProtects`. `Steps` says once what every action does to the
places of the turns, to the versions they have read and to the two logs; the other
lemmas rest on it and do not look at the actions again. The send lock is exclusive
(`Exclusive`): so whoever appends in the process of a turn is that turn itself, which
gives `StaleOnlyByOthers`. A turn that moved a log is past the place where it does so
and never returns there (`Tracked`), which gives the second half of `StateIsChained`;
the first is the comparison in `append_if_version`. `Reached` (what is stored when a
turn has come to a place) is needed for the type invariant, which says that only
answered turns are traced.
`DoneIsWhole` needs three facts more (`Whole`): a savepoint of a belief review holds traces of its
own process only and what it has lost is named (`SectionsAreSound`), each place of the end of a turn has
its two versions behind it (`RepliesAreStored`), and its trace is there unless a belief of another process
has overtaken the review it was written in (`TracesAreKept`). `HistoryIsTraced` adds that a process that is
starting has traced, or is about to trace, each answered turn of its own (`BackfillIsOnItsWay`).

Of the outbox `MessageProofs` proves, for any finite sets of messages and processes
(`FinitenessAssumption`) and any bounds, `OutboxTypeCorrect`, `DeliveryStaysOrderly` and `OutboxRefines`, the refinement of
`MessageDelivery`. That a message is shown at most as often as it has been claimed is not inductive: a claim
that has not been used yet may be used at any moment. `ClaimsArePaid` counts those, too: what was shown
and the processes that still owe a show (`Owing`) are together no more than the attempts in the
row. `StepsAreTaken` says what channel and ledger have seen at each place of a delivery, and
`LeasesHold` what keeps a row from a second claim while nobody overruns.

`ContactEpisodesProofs` proves `EpisodesTypeCorrect`, `EpisodesStayOrderly` and, assuming `~Separate`,
`EndsAreFinal`. The service works with copies of a row that it read earlier, so everything said of the count is
said of the row and of both copies (`CountsAreCovered`): it, and the number of every message but one, is
covered by a message that was sent or by a hook that raised. `MessagesAreInTurn` is the order opening, second,
third. `ReadIsCurrent` says that in one process the copies are as new as the row; it is what fails
with two.

`ReflectiveLearningProofs` proves, for any artifacts, proposals and processes, with crashes at any place,
`LearningTypeCorrect`, `HistoryStaysTold`, `EffectsWereApproved` and `PoliciesAreTested`. A row
that a worker holds is the row of now or has a lower version (`RowsAreOld`), so that compare-and-swap
succeeds on a current row only; what passed the gates keeps passing them, since evidence only grows
(`GatesWerePassed`); an effect has an approval at every place between decision and effect
(`EffectsNeedApproval`); a verdict was said of an outcome on record (`VerdictIsOnRecord`); and without a crash a
test that is due is still being run or about to be marked (`TestsAreFinished`).

`DatabaseProofs` is about the start of the database. The
schema: `SchemaStaysWhole`, for any migrations of which only a later one makes again what an earlier one creates
(`MigrationsAssumption`, which the files under src/migrations satisfy): a transaction has made exactly what its
statements so far make (`WriterIsRight`), what a process has passed is recorded, but for vectors it cannot
make (`StartIsRight`), so a statement fails or a migration is there already only if another process has migrated
since. The scripts: `FilesAreSplitRight`, for any characters, any number of lines and lines of any length.

This module, `MindProofs` and `GatewayProofs` reason about computations over data of any length, by induction
over a *set*: `Climbing` (a set that has 0 and with each number the next has them all, by the well-founded order of the numbers).
With it `ChainExists` shows that any steps can be taken one after the other, and so that the recursive function
`Stepped` is what its equation says; `FoldExists` does the same for `FoldLeft`, which the library defines over the
sets of positions it has passed, and one lemma for each fold (`TakeOneByOne`, ...) turns it into a run.

Of the scripts, `CodeSame` takes a line character by character and shows that splitter and reader agree
(`Same`); a dash the reader holds for the possible beginning of a remark is no reason to differ, since two of them
after an even number of quotes would be a comment start. `LineSame` adds the remark after it, `FileSame`
the lines.

`MindProofs` begins with three parts of a turn. For any caps, appraisals, memories and starting values of a
relationship it proves `RelationshipTypeCorrect` and `TurnsAreCapped`. The inductive invariant `TurnInv` adds to the
types that an open draft belongs to the stored bond (`DraftIsOfBond`): it was previewed from that value,
has not lowered trust unless its event may, keeps the unresolved matters but those a repair names, and its turn is
still to be counted. `MovedIsCapped` carries the arithmetic: counted from the origin, no effect leaves the
cap, whatever `preview` has spent of it. Of the traces it proves `TracesAreNotRepeated`: two traces of one turn
are of two processes. Of the shadow state it proves `TraceTypeCorrect`, `ShadowCorrect` and `ShadowKeepsUp` (below).
Of the learning tasks it proves `LearningTypeCorrect`, `MemoriesStaySound` (evidence, successors and twins of
memories) and `BeliefsStayEarned`. Both rest on `TasksInv`, one running task per process, which needs that the
tasks that write and those that review are the same (`TasksAssumption`: both are called from `_learn` only):
what a task has found out about its candidate (`FindingsHold`) or its claim (`ReadingHolds`) can be
outdated by another process only, and the twins of a process are excluded.

It goes on with the parts that live beside a turn, and puts the run `mind` together. The inner
life: `InnerTypeCorrect` and, assuming `~InnerSeparate`, `InnerIsInformed`. The world: `WorldIsWatched`, by what a
pass still has to come (`NotedIsObserved` and `MaterialIsFollowed` with their exceptions). The rest: `EmotionsAreHonest`. As the parts of `MindSpec` share no variable, `MindIsItsParts` derives each
part's specification from it, and every property of the run `mind` holds of the whole (`MindTypeCorrect`,
`MemoryStaysSound`, `TwinsStayOfTwo`, `TablesStaySound`, `SelfStaysEarned`, `MindKeepsUp` and, with turns and
inner loop in one process, `PresenceStaysInformed`).

Of the shadow state, `Current` says that a state is what the first n traces give in the order of their stamps. A
state as old as the archive has steps is current, a process that is about to insert has, if its state is up to
date, a stamp after all others, and one that is about to step knows exactly the traces before its own
(`Stands`): so the step gives what a replay of all of them would (`CurrentGrows`), and a replay orders them by
their places (`ReplayableTells`). The masses add up because retained, injected, dropped and null mass do
(`MassesAddUp`; `MassOf` is a sum over a set, a recursive function, too), and what is kept is at most the capacity
because no two clusters have the same rank (`KeptKeepsCapacity`).

`StreamProofs` proves the parts of the run `stream`, each as a specification of its own, and puts them together:
`ScenesStep` says that a step of `StreamSpec` is a step of at most one of them, and `ToolsStaySound` and
`WorkStaysKept` hold of the whole.

- `ToolLoop` (`ToolsStayAccounted`): that no effect is had twice needs, at the moment a call is made, that every
  call that succeeded is in the ledger of the turn (`SuccessIsKept`); that its effect is recorded, that the command
  that runs is the first of the calls left (`ExecutingIsRight`). Both end where the turn fails or is cancelled.
- `ModelRoute` (`RoutesStayKept`): adapters are only added, and their protocol and model never change
  (`SameRoutes`), so what was read at the start of a request stays true while the user switches.
- `ToolChunks` (`CallsStayWhole`): the pieces of a call are, at any moment, a function of what was sent and how much
  of it has arrived (`Assembled`), independent of the other calls.
- `Workspace` (`EditsStayKept`): the time an editor holds is that of a version it knows, or older than the file
  (`TimeIsTold`), and what the gateway has found out while it serves a save stays true but for the
  processes (`HandlerIsRight`).
- `SkillShelf` (`ShelfStaysKept`): what is left to unpack and what is there are together what was to be unpacked,
  and a request that waits for its answer has done what was asked (`HandlingIsRight`); every skill is as it was told but
  for what the request in hand is to change (`OffIsOff`, `RestIsTold`).
- `Terminal` (`FilesStayKept`, `ViewStaysSettled`): until a turn is cancelled, at most one is under way, and the
  queue is empty and closed while it is, so that the files of a turn that fails fit into it (`Undisturbed`). Of
  the view, the turn in hand is the last one, and the live block is its own (`ViewInv`).

These needed what the code relies on to be said of the constants: an identifier is a non-empty sequence
(`ChunksAssumption`), an archive is a sequence of files (`ShelfAssumption`), a
response has its four fields (`LoopAssumption`).

`GatewayProofs` is about the streamed turn and its voice, `GatewayStream`, for any tags, styles, responses, lengths
of a segment, rounds and modes of voice. `StreamTypeCorrect` and `ClientStaysTold` are the last two properties of the run
`stream`. The inductive invariant, `StreamInv`, has the invariant of the tool loop and says besides:

- `AnsweredIsRight`: what was spoken, the segment in hand, the input of the voice and the buffer of the segmenter
  are together the text of the reply without its tags, and have together the styles its tags ask for, or one of the schedule where it asks for none (`Says`, `Dresses`); what was shown is that text. Only
  so can a step that moves text from one of these places to the next be seen to lose and double nothing.
- `UnansweredIsRight`: before the answer nothing is shown, spoken or buffered, so what a turn shows is of one
  answer.
- `QueueIsRight`, `VoiceIsTold`: at most two deltas, which follow a start; nothing after the last word; and where
  the voice is tells which of its messages the client has.
- `TtsIsRight`, `SessionsAreRight`, `ServedIsRight`: what the voice task may have in hand at each of its places, that a
  session of Doubao has one style, and that the request does not end before the voice has.

`on_stream` and `feed` are folds, over the events of a step and over the tokens of a text. `FoldExists` again makes a
run of each (`TextSpeaks`, `TellOneByOne`): an induction along the text shows that a token more goes to the end of
what the segmenter has (`Speaks`), whether it is a tag, ends a segment, or cuts one before it. The other half
is about `FlattenSeq`, with which the texts of several segments are put together (`TextsTail` and the lemmas around it).
`StreamAssumption` says of the constants what this rests on: tags are none of the tokens of the text, the schedule is not
empty, and the reply at the tool limit is a text without tags.

Model-checked only:

- All liveness properties: the prover has no support for fairness and ENABLED.

## 8. Not modelled

See the components of `PROJECT.json`. The command line and the configuration are presentation
and validation. Of the adapters, the wire protocols of speech,
vision and embeddings are left out, of the tools the external ones. Numerical cores (appraisal formulas,
activation dynamics, transport operators), prompts, rendering and network
protocols of external services are outside what these models can say something
about; the remaining stateful services are in the plan above.
