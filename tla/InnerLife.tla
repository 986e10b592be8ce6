------------------------------- MODULE InnerLife -------------------------------
(***************************************************************************)
(* The inner loop (services/inner_life_service.py): one row says whether   *)
(* the digital life is engaged, waiting for an answer, offline or at rest, *)
(* and gates what it does on its own.                                      *)
(*                                                                         *)
(* The chat turn, the heartbeat job and the hook of a delivery each read   *)
(* the row and write it back with version + 1.  In one process the send    *)
(* lock keeps chat and worker apart; with InnerSeparate they are two.      *)
(* An event is its number among the events of its actor.                   *)
(***************************************************************************)
EXTENDS Integers

CONSTANTS
    WaitTimes,     \* the waits observe_agent_event may compute
    HeartbeatAttempts, \* max_attempts of the heartbeat job
    InnerSeparate, \* do chat and worker run in two processes?
    MaxUsers,      \* bound on the user events
    MaxAgents,     \* bound on the agent events
    MaxVersion,    \* bound on the version of the row
    InnerCrashes   \* bound on the number of crashes

ASSUME InnerLifeAssumption ==
    /\ WaitTimes \subseteq Nat \ {0}
    /\ WaitTimes # {}
    /\ HeartbeatAttempts \in Nat \ {0}
    /\ InnerSeparate \in BOOLEAN
    /\ MaxUsers \in Nat
    /\ MaxAgents \in Nat
    /\ MaxVersion \in Nat
    /\ InnerCrashes \in Nat

VARIABLES
    users, agents, \* the number of user and of agent events
    answered,      \* the last user event before the latest agent event
    recorded,      \* the lifecycle.inner_transition events, by version and mode
    inner,         \* table inner_loop_states, version 0 when it is empty
    turn, prior,   \* where the chat turn is, and the row it has read
    job, kept, upd,         \* where the worker is, the row it has read, will write
    user, agent, follows,   \* the latest events it has read
    beats,         \* attempt_count of the heartbeat job
    contact,       \* does an approved initiative wait in the outbox?
    innerCrashes

ledger == <<users, agents, answered, recorded>>
chatting == <<turn, prior>>
working == <<job, kept, upd, user, agent, follows>>
innerVars == <<ledger, inner, chatting, working, beats, contact, innerCrashes>>

\* wait_deadline_at_ms is NULL; otherwise the time that remains until it.
NoDeadline == -1

Modes == {"engaged", "waiting", "offline", "quiet_rest"}

InnerRows == [version : Nat, mode : Modes, user : Nat, agent : Nat,
              deadline : {NoDeadline} \cup Nat]

NoInnerRow == [version |-> 0, mode |-> "quiet_rest", user |-> 0, agent |-> 0,
               deadline |-> NoDeadline]

InnerTypeOK ==
    /\ users \in 0 .. MaxUsers
    /\ agents \in 0 .. MaxAgents
    /\ answered \in 0 .. users
    /\ recorded \subseteq (Nat \X Modes)
    /\ inner \in InnerRows
    /\ turn \in {"idle", "get", "put", "thinking", "get_reply", "put_reply"}
    /\ prior \in InnerRows
    /\ job \in {"idle", "beat_user", "beat_agent", "beat", "append", "write",
                   "get_user", "put_user", "get_agent", "put_agent", "get_hook", "put_hook"}
    /\ kept \in InnerRows
    /\ upd \in InnerRows
    /\ user \in 0 .. MaxUsers
    /\ agent \in 0 .. MaxAgents
    /\ follows \in BOOLEAN
    /\ beats \in 0 .. HeartbeatAttempts
    /\ contact \in BOOLEAN
    /\ innerCrashes \in 0 .. InnerCrashes

InnerInit ==
    /\ users = 0
    /\ agents = 0
    /\ answered = 0
    /\ recorded = {}
    /\ inner = NoInnerRow
    /\ turn = "idle"
    /\ prior = NoInnerRow
    /\ job = "idle"
    /\ kept = NoInnerRow
    /\ upd = NoInnerRow
    /\ user = 0
    /\ agent = 0
    /\ follows = FALSE
    /\ beats = 0
    /\ contact = FALSE
    /\ innerCrashes = 0

-----------------------------------------------------------------------------
(***************************************************************************)
(* The rows that are written, from the row r that was read.                *)
(***************************************************************************)
\* observe_user_event: the user is there.
Engaged(r, u) ==
    [r EXCEPT !.version = @ + 1, !.mode = "engaged", !.user = u, !.deadline = NoDeadline]

\* observe_agent_event: the wait begins.
Waiting(r, u, a, wait) ==
    [version |-> r.version + 1, mode |-> "waiting", user |-> u, agent |-> a,
     deadline |-> wait]

\* _quiet_initial: there is no user yet.
Quiet(r) == [NoInnerRow EXCEPT !.version = r.version + 1]

\* _refresh_engaged.
Refreshed(r) == [r EXCEPT !.version = @ + 1]

\* _advance_waiting: with little energy it rests, whatever the rest; in the
\* mode offline it stays there down to the lower threshold, otherwise it goes
\* there after the deadline above the upper one.  Energy and readiness may
\* have any value.
NextModes(r) ==
    {"quiet_rest", "waiting"}
        \cup (IF r.mode = "offline" \/ r.deadline = 0 THEN {"offline"} ELSE {})

Advanced(r, mode) == [r EXCEPT !.version = @ + 1, !.mode = mode]

-----------------------------------------------------------------------------
(***************************************************************************)
(* The chat turn: InteractiveSession.send.                                 *)
(***************************************************************************)
Send ==
    /\ turn = "idle"
    /\ InnerSeparate \/ job = "idle"
    /\ users < MaxUsers
    /\ users' = users + 1
    /\ turn' = "get"
    /\ UNCHANGED <<agents, answered, recorded, inner, prior, working, beats, contact,
                   innerCrashes>>

ChatGet ==
    /\ turn \in {"get", "get_reply"}
    /\ prior' = inner
    /\ turn' = IF turn = "get" THEN "put" ELSE "put_reply"
    /\ UNCHANGED <<ledger, inner, working, beats, contact, innerCrashes>>

ChatPut ==
    /\ turn = "put"
    /\ inner' = Engaged(prior, users)
    /\ prior' = NoInnerRow
    /\ turn' = "thinking"
    /\ UNCHANGED <<ledger, working, beats, contact, innerCrashes>>

\* The answer is recorded; the turn may also fail, and leave no answer.
Reply ==
    /\ turn = "thinking"
    /\ agents < MaxAgents
    /\ agents' = agents + 1
    /\ answered' = users
    /\ turn' = "get_reply"
    /\ UNCHANGED <<users, recorded, inner, prior, working, beats, contact, innerCrashes>>

TurnFails ==
    /\ turn = "thinking"
    /\ turn' = "idle"
    /\ UNCHANGED <<ledger, inner, prior, working, beats, contact, innerCrashes>>

ReplyPut ==
    /\ turn = "put_reply"
    /\ \E wait \in WaitTimes : inner' = Waiting(prior, users, agents, wait)
    /\ prior' = NoInnerRow
    /\ turn' = "idle"
    /\ UNCHANGED <<ledger, working, beats, contact, innerCrashes>>

-----------------------------------------------------------------------------
(***************************************************************************)
(* The worker: the heartbeat job.                                          *)
(***************************************************************************)
Free == job = "idle" /\ (InnerSeparate \/ turn = "idle")

Drop ==
    /\ kept' = NoInnerRow
    /\ upd' = NoInnerRow
    /\ user' = 0
    /\ agent' = 0
    /\ follows' = FALSE

\* lease_due counts the attempt, reschedule clears it.
Heartbeat ==
    /\ Free
    /\ beats < HeartbeatAttempts
    /\ inner.version < MaxVersion
    /\ beats' = beats + 1
    /\ kept' = inner
    /\ job' = "beat_user"
    /\ UNCHANGED <<ledger, inner, chatting, upd, user, agent, follows, contact,
                   innerCrashes>>

BeatUser ==
    /\ job = "beat_user"
    /\ user' = users
    /\ job' = "beat_agent"
    /\ UNCHANGED <<ledger, inner, chatting, kept, upd, agent, follows, beats, contact,
                   innerCrashes>>

BeatAgent ==
    /\ job = "beat_agent"
    /\ agent' = agents
    /\ follows' = (agents > 0 /\ answered >= user)
    /\ job' = "beat"
    /\ UNCHANGED <<ledger, inner, chatting, kept, upd, user, beats, contact, innerCrashes>>

\* Mutant of Missed: an agent event the row does not know goes unnoticed.
MissedUserOnly == user # kept.user

\* There is an event the row does not know.
Missed == kept.version = 0 \/ user # kept.user \/ agent # kept.agent

BeatQuiet ==
    /\ job = "beat"
    /\ user = 0
    /\ upd' = Quiet(kept)
    /\ job' = "write"
    /\ UNCHANGED <<ledger, inner, chatting, kept, user, agent, follows, beats, contact,
                   innerCrashes>>

\* A missed user event that the agent has not answered makes the row engaged;
\* any other missed event makes it waiting.
BeatCatchesUp ==
    /\ job = "beat"
    /\ user > 0
    /\ Missed
    /\ job' = IF (kept.version = 0 \/ user # kept.user) /\ ~follows
                 THEN "get_user" ELSE "get_agent"
    /\ UNCHANGED <<ledger, inner, chatting, kept, upd, user, agent, follows, beats, contact,
                   innerCrashes>>

BeatRefreshes ==
    /\ job = "beat"
    /\ user > 0
    /\ ~Missed
    /\ kept.mode = "engaged" \/ kept.deadline = NoDeadline
    /\ upd' = Refreshed(kept)
    /\ job' = "write"
    /\ UNCHANGED <<ledger, inner, chatting, kept, user, agent, follows, beats, contact,
                   innerCrashes>>

\* The mode changes, which is recorded as an event first.
Announced(mode) == mode # kept.mode

BeatAdvances ==
    /\ job = "beat"
    /\ user > 0
    /\ ~Missed
    /\ kept.mode # "engaged" /\ kept.deadline # NoDeadline
    /\ \E mode \in NextModes(kept) :
         /\ upd' = Advanced(kept, mode)
         /\ job' = IF Announced(mode) THEN "append" ELSE "write"
    /\ UNCHANGED <<ledger, inner, chatting, kept, user, agent, follows, beats, contact,
                   innerCrashes>>

AppendTransition ==
    /\ job = "append"
    /\ <<upd.version, upd.mode>> \notin recorded
    /\ recorded' = recorded \cup {<<upd.version, upd.mode>>}
    /\ job' = "write"
    /\ UNCHANGED <<users, agents, answered, inner, chatting, kept, upd, user, agent, follows,
                   beats, contact, innerCrashes>>

\* DuplicateEventError: the job fails.
AppendRaises ==
    /\ job = "append"
    /\ <<upd.version, upd.mode>> \in recorded
    /\ job' = "idle"
    /\ Drop
    /\ UNCHANGED <<ledger, inner, chatting, beats, contact, innerCrashes>>

Write ==
    /\ job = "write"
    /\ inner' = upd
    /\ job' = "idle"
    /\ Drop
    /\ beats' = 0
    /\ UNCHANGED <<ledger, chatting, contact, innerCrashes>>

\* observe_user_event and observe_agent_event read the row again.
WorkerGet ==
    /\ job \in {"get_user", "get_agent", "get_hook"}
    /\ kept' = inner
    /\ job' = CASE job = "get_user" -> "put_user"
                   [] job = "get_agent" -> "put_agent"
                   [] job = "get_hook" -> "put_hook"
    /\ UNCHANGED <<ledger, inner, chatting, upd, user, agent, follows, beats, contact,
                   innerCrashes>>

WorkerPutUser ==
    /\ job = "put_user"
    /\ inner' = Engaged(kept, user)
    /\ job' = "idle"
    /\ Drop
    /\ beats' = 0
    /\ UNCHANGED <<ledger, chatting, contact, innerCrashes>>

\* The wait counts from the event, so a heartbeat may find it over.
WorkerPutAgent ==
    /\ job = "put_agent"
    /\ \E wait \in WaitTimes \cup {0} : inner' = Waiting(kept, user, agent, wait)
    /\ job' = "idle"
    /\ Drop
    /\ beats' = 0
    /\ UNCHANGED <<ledger, chatting, contact, innerCrashes>>

-----------------------------------------------------------------------------
(***************************************************************************)
(* What the mode gates: initiative.evaluate, contact.evaluate and          *)
(* agency.offline_cycle, here as the contact they prepare.                 *)
(***************************************************************************)
Gate == inner.version > 0 /\ inner.mode = "offline"

PrepareContact ==
    /\ Free
    /\ Gate
    /\ ~contact
    /\ agents < MaxAgents
    /\ contact' = TRUE
    /\ UNCHANGED <<ledger, inner, chatting, working, beats, innerCrashes>>

\* The delivery records the agent's message; its hook observes it.
DeliverContact ==
    /\ Free
    /\ contact
    /\ agents < MaxAgents
    /\ contact' = FALSE
    /\ agents' = agents + 1
    /\ answered' = users
    /\ user' = users
    /\ agent' = agents + 1
    /\ job' = "get_hook"
    /\ UNCHANGED <<users, recorded, inner, chatting, kept, upd, follows, beats, innerCrashes>>

HookPut ==
    /\ job = "put_hook"
    /\ \E wait \in WaitTimes : inner' = Waiting(kept, user, agent, wait)
    /\ job' = "idle"
    /\ Drop
    /\ UNCHANGED <<ledger, chatting, beats, contact, innerCrashes>>

-----------------------------------------------------------------------------
CrashTurn ==
    /\ turn # "idle"
    /\ innerCrashes < InnerCrashes
    /\ innerCrashes' = innerCrashes + 1
    /\ turn' = "idle"
    /\ prior' = NoInnerRow
    /\ UNCHANGED <<ledger, inner, working, beats, contact>>

CrashJob ==
    /\ job # "idle"
    /\ innerCrashes < InnerCrashes
    /\ innerCrashes' = innerCrashes + 1
    /\ job' = "idle"
    /\ Drop
    /\ UNCHANGED <<ledger, inner, chatting, beats, contact>>

Aged(r) == IF r.deadline > 0 THEN [r EXCEPT !.deadline = @ - 1] ELSE r

InnerAdvance ==
    /\ inner.deadline > 0
    /\ inner' = Aged(inner)
    /\ prior' = Aged(prior)
    /\ kept' = Aged(kept)
    /\ upd' = Aged(upd)
    /\ UNCHANGED <<ledger, turn, job, user, agent, follows, beats, contact, innerCrashes>>

InnerNext ==
    \/ Send \/ ChatGet \/ ChatPut \/ Reply \/ TurnFails \/ ReplyPut
    \/ Heartbeat \/ BeatUser \/ BeatAgent
    \/ BeatQuiet \/ BeatCatchesUp \/ BeatRefreshes \/ BeatAdvances
    \/ AppendTransition \/ AppendRaises \/ Write
    \/ WorkerGet \/ WorkerPutUser \/ WorkerPutAgent
    \/ PrepareContact \/ DeliverContact \/ HookPut
    \/ CrashTurn \/ CrashJob \/ InnerAdvance

InnerSpec == InnerInit /\ [][InnerNext]_innerVars

-----------------------------------------------------------------------------
(***************************************************************************)
(* Properties.                                                             *)
(***************************************************************************)

\* The life goes offline only in full knowledge: the row that says so names
\* the latest user event and the latest agent event, over crashed turns,
\* failed turns and heartbeats that were missed.
OfflineIsInformed ==
    [][inner.mode # "offline" /\ inner'.mode = "offline"
         => inner'.user = users /\ inner'.agent = agents]_innerVars

\* A contact is prepared only when the inner life knows the latest events and
\* the user's has been answered, also after turns that failed; a crash opens a
\* window until the next heartbeat.
ContactIsInformed ==
    [][innerCrashes = 0 /\ ~contact /\ contact'
         => inner.user = users /\ inner.agent = agents /\ answered = users]_innerVars

\* The heartbeat goes on after a crash: its attempts are not used up.
HeartbeatGoesOn == beats = HeartbeatAttempts => job # "idle"
=============================================================================
