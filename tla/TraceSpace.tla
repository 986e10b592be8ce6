------------------------------- MODULE TraceSpace -------------------------------
(***************************************************************************)
(* The trace space (services/trace_space_service.py with                   *)
(* storage/trace_repository.py) and its bounded active state               *)
(* (hdsc/active_space.py).                                                 *)
(*                                                                         *)
(* Each complete turn leaves one trace: a row, its vector and its links,   *)
(* written in statements of their own.  From the traces a process keeps a  *)
(* shadow state in memory, a few clusters with their mass; it advances by  *)
(* one step for each trace it writes and replays the whole archive when    *)
(* the counts do not fit.  Two processes may hold one conversation.        *)
(*                                                                         *)
(* A trace is known by its cluster: every trace is relevant.  Masses are   *)
(* integers in units that get 20 times finer with each step, so that they  *)
(* are exact: the retention is 16/20, the injection 3/20, as in the        *)
(* default configuration.  What decays below mass_tolerance, after a       *)
(* hundred steps and more, stays with its cluster here.                    *)
(***************************************************************************)
EXTENDS Integers, Sequences, FiniteSets

CONSTANTS
    TraceProcesses,
    Clusters,      \* the clusters, as numbers in the order of their keys
    Capacity,      \* h2_active_capacity
    Hysteresis,    \* h2_hysteresis in hundredths
    MaxTurnTraces, \* bound on the turns
    MaxTraces,     \* bound on the traces
    MaxTraceFaults \* bound on crashes and refused vectors

ASSUME TraceAssumption ==
    /\ Clusters \subseteq Nat
    /\ Capacity \in Nat \ {0}
    /\ Hysteresis \in Nat
    /\ MaxTurnTraces \in Nat
    /\ MaxTraces \in Nat
    /\ MaxTraceFaults \in Nat

VARIABLES
    ledgerTurns,   \* the complete turns of the conversation, each its cluster
    archive,       \* the traces in the order of their insertion
    now,           \* the clock of the machine
    writing,       \* what each process writes, and how far it is
    backlog,       \* the turns that its backfill has not looked at
    expected,      \* the count of traces it has read
    shadow,        \* its shadow state
    failed,        \* is there an entry in _h2_errors?
    traceFaults

traceVars == <<ledgerTurns, archive, now, writing, backlog, expected, shadow,
               failed, traceFaults>>

TracePlaces == {"down", "idle", "backfill", "insert", "vector", "count", "embed",
                "recount", "replay"}

TurnIds == 1 .. MaxTurnTraces
TraceIds == 1 .. MaxTraces

NoWrite(place) == [at |-> place, turn |-> 0, stamp |-> 0, id |-> 0, live |-> FALSE]

\* H2State.initial; one is a mass of 1 in the units of this step.
Blank == [step |-> 0, one |-> 1, mass |-> <<>>, null |-> 1]

TraceTypeOK ==
    /\ ledgerTurns \in Seq(Clusters) /\ Len(ledgerTurns) <= MaxTurnTraces
    /\ archive \in Seq([turn : TurnIds, by : TraceProcesses, stamp : Nat, vector : BOOLEAN])
    /\ now \in Nat
    /\ \A p \in TraceProcesses :
        /\ writing[p].at \in TracePlaces
        /\ writing[p].turn \in TurnIds \cup {0}
        /\ writing[p].id \in TraceIds \cup {0}
        /\ writing[p].live \in BOOLEAN
        /\ backlog[p] \subseteq TurnIds
        /\ expected[p] \in 0 .. MaxTraces
        /\ shadow[p].step \in Nat
        /\ DOMAIN shadow[p].mass \subseteq Clusters
        /\ failed[p] \in BOOLEAN
    /\ traceFaults \in 0 .. MaxTraceFaults

TraceInit ==
    /\ ledgerTurns = <<>>
    /\ archive = <<>>
    /\ now = 0
    /\ writing = [p \in TraceProcesses |-> NoWrite("down")]
    /\ backlog = [p \in TraceProcesses |-> {}]
    /\ expected = [p \in TraceProcesses |-> 0]
    /\ shadow = [p \in TraceProcesses |-> Blank]
    /\ failed = [p \in TraceProcesses |-> FALSE]
    /\ traceFaults = 0

Traces == DOMAIN archive
ClusterOf(i) == ledgerTurns[archive[i].turn]

-----------------------------------------------------------------------------
(***************************************************************************)
(* bounded_active_shadow_step for one trace.                               *)
(***************************************************************************)
Finer == 20
Retained(m) == 16 * m
Injected(s) == 3 * s.one

\* The trace proposes its cluster with novelty 0 when that is active already.
Novel(s, c) == c \notin DOMAIN s.mass

\* The masses before the capacity is applied: a cluster that is not active yet
\* takes the injection.
Mixed(s, c) ==
    [k \in DOMAIN s.mass \cup {c} |->
        (IF k \in DOMAIN s.mass THEN Retained(s.mass[k]) ELSE 0)
            + (IF k = c /\ Novel(s, c) THEN Injected(s) ELSE 0)]

\* _capacity_priority: who is active already has an advantage; the key decides
\* between equals.
Priority(s, c, k) ==
    100 * Mixed(s, c)[k] + (IF k \in DOMAIN s.mass THEN Hysteresis * Finer * s.one ELSE 0)

Ahead(s, c, j, k) ==
    \/ Priority(s, c, j) > Priority(s, c, k)
    \/ Priority(s, c, j) = Priority(s, c, k) /\ j < k

Kept(s, c) ==
    {k \in DOMAIN Mixed(s, c) :
        Cardinality({j \in DOMAIN Mixed(s, c) : Ahead(s, c, j, k)}) < Capacity}

\* The mass of at most one cluster is dropped, since one is added.
Dropped(s, c) ==
    LET out == DOMAIN Mixed(s, c) \ Kept(s, c) IN
    IF out = {} THEN 0 ELSE Mixed(s, c)[CHOOSE k \in out : TRUE]

NullMass(s, c) ==
    Retained(s.null) + (Finer * s.one - Retained(s.one) - Injected(s))
        + (IF Novel(s, c) THEN 0 ELSE Injected(s)) + Dropped(s, c)

ShadowStep(s, c) ==
    [step |-> s.step + 1,
     one |-> Finer * s.one,
     mass |-> [k \in Kept(s, c) |-> Mixed(s, c)[k]],
     null |-> NullMass(s, c)]

\* The state s after the clusters cs, one by one.
Stepped(s, cs) ==
    LET after[n \in 0 .. Len(cs)] == IF n = 0 THEN s ELSE ShadowStep(after[n - 1], cs[n])
    IN after[Len(cs)]

\* Mutant of Before: the order of insertion.
BeforeInserted(i, j) == i < j

\* ORDER BY created_at_ms, rowid.
Before(i, j) ==
    \/ archive[i].stamp < archive[j].stamp
    \/ archive[i].stamp = archive[j].stamp /\ i < j

\* The place of a trace among those of S.
Place(S, i) == Cardinality({j \in S : j = i \/ Before(j, i)})

\* all_with_embeddings: a trace without its vector is not among them.
Replayable ==
    LET whole == {i \in Traces : archive[i].vector} IN
    [n \in 1 .. Cardinality(whole) |-> ClusterOf(CHOOSE i \in whole : Place(whole, i) = n)]

-----------------------------------------------------------------------------
(***************************************************************************)
(* write_turn and _backfill_trace_space.                                   *)
(***************************************************************************)
\* The clock is read before the row is inserted.
StartWrite(p, n, live) ==
    /\ now' = now + 1
    /\ writing' = [writing EXCEPT ![p] =
                     [at |-> "insert", turn |-> n, stamp |-> now', id |-> 0, live |-> live]]

CompleteTurn(p, c) ==
    /\ writing[p].at = "idle"
    /\ Len(ledgerTurns) < MaxTurnTraces
    /\ ledgerTurns' = Append(ledgerTurns, c)
    /\ StartWrite(p, Len(ledgerTurns) + 1, TRUE)
    /\ UNCHANGED <<archive, backlog, expected, shadow, failed, traceFaults>>

TraceGoto(p, place) == writing' = [writing EXCEPT ![p].at = place]

\* initialize: the events are read once, then each turn is looked up.
StartBackfill(p) ==
    /\ writing[p].at = "down"
    /\ backlog' = [backlog EXCEPT ![p] = DOMAIN ledgerTurns]
    /\ TraceGoto(p, "backfill")
    /\ UNCHANGED <<ledgerTurns, archive, now, expected, shadow, failed, traceFaults>>

\* find_by_input_event.
Archived(n) == \E i \in Traces : archive[i].turn = n

Backfill(p) ==
    /\ writing[p].at = "backfill"
    /\ \E t \in backlog[p] :
        /\ \A u \in backlog[p] : t <= u
        /\ backlog' = [backlog EXCEPT ![p] = @ \ {t}]
        /\ IF Archived(t) THEN UNCHANGED <<writing, now>>
                          ELSE StartWrite(p, t, FALSE)
    /\ UNCHANGED <<ledgerTurns, archive, expected, shadow, failed, traceFaults>>

BackfillDone(p) ==
    /\ writing[p].at = "backfill"
    /\ backlog[p] = {}
    /\ TraceGoto(p, "recount")
    /\ UNCHANGED <<ledgerTurns, archive, now, backlog, expected, shadow, failed,
                   traceFaults>>

InsertTrace(p) ==
    /\ writing[p].at = "insert"
    /\ Len(archive) < MaxTraces
    /\ archive' = Append(archive, [turn |-> writing[p].turn, by |-> p,
                                   stamp |-> writing[p].stamp, vector |-> FALSE])
    /\ writing' = [writing EXCEPT ![p].at = "vector", ![p].id = Len(archive) + 1]
    /\ UNCHANGED <<ledgerTurns, now, backlog, expected, shadow, failed, traceFaults>>

\* The links follow, which nothing here reads; a live turn goes on with the
\* shadow state, a backfill with its next turn.
Written(p) ==
    writing' = [writing EXCEPT ![p] =
                  IF writing[p].live THEN [@ EXCEPT !.at = "count"] ELSE NoWrite("backfill")]

InsertVector(p) ==
    /\ writing[p].at = "vector"
    /\ archive' = [archive EXCEPT ![writing[p].id].vector = TRUE]
    /\ Written(p)
    /\ UNCHANGED <<ledgerTurns, now, backlog, expected, shadow, failed, traceFaults>>

\* An OperationalError, such as a database that is locked, is suppressed.
VectorRefused(p) ==
    /\ writing[p].at = "vector"
    /\ traceFaults < MaxTraceFaults
    /\ traceFaults' = traceFaults + 1
    /\ Written(p)
    /\ UNCHANGED <<ledgerTurns, archive, now, backlog, expected, shadow, failed>>

-----------------------------------------------------------------------------
(***************************************************************************)
(* _advance_h2_shadow and replay_h2_shadow.                                *)
(***************************************************************************)
\* Mutant of Continues: the shadow state steps on, whatever it has missed.
ContinuesAlways(p) == TRUE
\* The trace that was written is the only one the shadow state does not know.
Continues(p) == shadow[p].step = Len(archive) - 1

CountTraces(p) ==
    /\ writing[p].at = "count"
    /\ expected' = [expected EXCEPT ![p] = Len(archive)]
    /\ TraceGoto(p, IF Continues(p) THEN "embed" ELSE "recount")
    /\ UNCHANGED <<ledgerTurns, archive, now, backlog, shadow, failed, traceFaults>>

TraceDone(p) ==
    /\ writing' = [writing EXCEPT ![p] = NoWrite("idle")]
    /\ expected' = [expected EXCEPT ![p] = 0]

\* Without a vector the step raises, which is kept as an error.
AdvanceShadow(p) ==
    /\ writing[p].at = "embed"
    /\ IF archive[writing[p].id].vector
         THEN /\ shadow' = [shadow EXCEPT ![p] = ShadowStep(@, ClusterOf(writing[p].id))]
              /\ failed' = [failed EXCEPT ![p] = FALSE]
         ELSE failed' = [failed EXCEPT ![p] = TRUE] /\ UNCHANGED shadow
    /\ TraceDone(p)
    /\ UNCHANGED <<ledgerTurns, archive, now, backlog, traceFaults>>

StartReplay(p) ==
    /\ writing[p].at = "recount"
    /\ shadow' = [shadow EXCEPT ![p] = Blank]
    /\ failed' = [failed EXCEPT ![p] = FALSE]
    /\ expected' = [expected EXCEPT ![p] = Len(archive)]
    /\ TraceGoto(p, "replay")
    /\ UNCHANGED <<ledgerTurns, archive, now, backlog, traceFaults>>

Replay(p) ==
    /\ writing[p].at = "replay"
    /\ IF Len(Replayable) = expected[p]
         THEN shadow' = [shadow EXCEPT ![p] = Stepped(@, Replayable)] /\ UNCHANGED failed
         ELSE failed' = [failed EXCEPT ![p] = TRUE] /\ UNCHANGED shadow
    /\ TraceDone(p)
    /\ UNCHANGED <<ledgerTurns, archive, now, backlog, traceFaults>>

\* The process dies; its shadow state dies with it.
TraceCrash(p) ==
    /\ writing[p].at # "down"
    /\ traceFaults < MaxTraceFaults
    /\ traceFaults' = traceFaults + 1
    /\ writing' = [writing EXCEPT ![p] = NoWrite("down")]
    /\ backlog' = [backlog EXCEPT ![p] = {}]
    /\ expected' = [expected EXCEPT ![p] = 0]
    /\ shadow' = [shadow EXCEPT ![p] = Blank]
    /\ failed' = [failed EXCEPT ![p] = FALSE]
    /\ UNCHANGED <<ledgerTurns, archive, now>>

TraceNext ==
    \E p \in TraceProcesses :
        \/ \E c \in Clusters : CompleteTurn(p, c)
        \/ StartBackfill(p) \/ Backfill(p) \/ BackfillDone(p)
        \/ InsertTrace(p) \/ InsertVector(p) \/ VectorRefused(p)
        \/ CountTraces(p) \/ AdvanceShadow(p) \/ StartReplay(p) \/ Replay(p)
        \/ TraceCrash(p)

TraceSpec == TraceInit /\ [][TraceNext]_traceVars

-----------------------------------------------------------------------------
(***************************************************************************)
(* Properties.                                                             *)
(***************************************************************************)
\* _h2_snapshot: what the gateway shows of the shadow state.  The audit is that
\* of the latest step: there is one once there was a step.
ShadowStatus(p) ==
    IF failed[p] THEN "failed"
    ELSE IF shadow[p].step = 0
           THEN IF archive = <<>> THEN "awaiting-input" ELSE "awaiting-replay"
    ELSE IF shadow[p].step # Len(archive) THEN "awaiting-replay"
    ELSE "passed"

\* The clusters of the traces in the order of their stamps.
Chronicle ==
    LET place(i) == Cardinality({j \in Traces : j = i \/ archive[j].stamp < archive[i].stamp}) IN
    [n \in Traces |-> ClusterOf(CHOOSE i \in Traces : place(i) = n)]

\* A shadow state that is shown as passed is the one that the whole archive
\* gives in the order of time, although it was advanced trace by trace while
\* another process wrote to the same archive.
ShadowIsReplay ==
    \A p \in TraceProcesses :
        ShadowStatus(p) = "passed" => shadow[p] = Stepped(Blank, Chronicle)

MassOf(s) ==
    LET sum[K \in SUBSET DOMAIN s.mass] ==
          IF K = {} THEN 0
          ELSE LET k == CHOOSE k \in K : TRUE IN s.mass[k] + sum[K \ {k}]
    IN s.null + sum[DOMAIN s.mass]

\* The mass of a shadow state is 1 and its clusters keep to the capacity, over
\* decay, injection, replacement and replay.
MassIsKept ==
    \A p \in TraceProcesses :
        /\ MassOf(shadow[p]) = shadow[p].one
        /\ Cardinality(DOMAIN shadow[p].mass) <= Capacity

\* What the gateway shows of the shadow state can be relied on.
ShadowIsSound == ShadowIsReplay /\ MassIsKept

\* A process ends every turn and every start with its shadow state up to date,
\* unless another process has added a trace meanwhile or a vector is missing.
ShadowIsCurrent ==
    [][\A p \in TraceProcesses :
        (/\ writing[p].at \in {"embed", "replay"} /\ writing'[p].at = "idle"
         /\ Len(archive) = expected[p]
         /\ \A i \in Traces : archive[i].vector)
            => ShadowStatus(p)' \in {"passed", "awaiting-input"}]_traceVars

\* Two traces of one turn come from two processes: a backfill does not repeat
\* what its own process has archived, in this life or an earlier one.
TwinTracesAreForeign ==
    \A i, j \in Traces :
        i # j /\ archive[i].turn = archive[j].turn => archive[i].by # archive[j].by
=============================================================================
