-------------------------------- MODULE MCMind --------------------------------
(***************************************************************************)
(* What a chat turn leaves behind: memories and beliefs (TurnLearning), a  *)
(* trace and the shadow state (TraceSpace), a relationship                 *)
(* (RelationshipTurn); the mode of the inner loop (InnerLife), what it     *)
(* notices (WorldWatch) and feels at rest (RestingState); and the schema   *)
(* under it all (Migrations, SqlScript).  They write different tables and  *)
(* are checked side by side: scene says which of them a behaviour is about.*)
(***************************************************************************)
EXTENDS TurnLearning, TraceSpace, MCInnerLife, RelationshipTurn, WorldWatch,
        RestingState, Migrations, SqlScript

CONSTANTS c1, c2, deferring, awaiting, p1, p2

MCContents == {c1, c2}

\* The gateway and the terminal have build_interactive_session make theirs, with
\* defer_learning; a session that is made without it awaits its tasks.
MCProcesses == {deferring, awaiting}
MCDeferred == {deferring}
MCTasks == MCProcesses \X (0 .. MaxTurns)
MCTraceProcesses == {p1, p2}

\* Both processes learn, and the one that defers starts with past turns; both review;
\* one task does both.
MCTurnsOf(g, t) == [p \in MCProcesses |-> IF p = deferring THEN g ELSE t]
MCSettings ==
    {[enabled |-> {"memory"}, past |-> MCTurnsOf(0, 0), limit |-> MCTurnsOf(1, 1)],
     [enabled |-> {"memory"}, past |-> MCTurnsOf(3, 0), limit |-> MCTurnsOf(3, 0)],
     [enabled |-> {"identity"}, past |-> MCTurnsOf(0, 0), limit |-> MCTurnsOf(3, 2)],
     [enabled |-> {"memory", "identity"}, past |-> MCTurnsOf(0, 0), limit |-> MCTurnsOf(2, 0)]}

MCSymmetry == Permutations(MCContents) \cup Permutations(MCTraceProcesses)

\* A file that may be missing, and a calendar that may have no entry.
MCSources == <<"file", "calendar">>
MCKeys == [s \in {"file", "calendar"} |->
             IF s = "file" THEN {"old", "new", "missing"} ELSE {"entry", "silence"}]

MCEmotions == <<"concern">>

\* A table with its vectors, a column that an old database has, the vectors
\* again, two tables, and vectors of their own.
MCMake(kind, object) == [kind |-> kind, object |-> object]
MCFiles ==
    << << MCMake("create", "memories"), MCMake("vec", "memory_vec") >>,
       << MCMake("column", "vec_rowid") >>,
       << MCMake("vec", "memory_vec") >>,
       << MCMake("create", "trace_nodes"), MCMake("create", "trace_links") >>,
       << MCMake("vec", "trace_vec") >> >>
MCLegacy ==
    { [objects |-> {}, recorded |-> {}],
      [objects |-> {"memories", "vec_rowid"}, recorded |-> {1}] }

\* Every line of up to five characters, and every two lines of up to three.
MCScripts ==
    {<<l>> : l \in BoundedSeq(Characters, 5)}
        \cup (BoundedSeq(Characters, 3) \X BoundedSeq(Characters, 3))

MCEvidence == {-50, 0, 50}
MCBonds == {[value |-> [d \in Dimensions |-> Full], lists |-> [l \in Lists |-> {}]]}

VARIABLE scene

turnVars == <<vars, traceVars, relationshipVars>>
lifeVars == <<innerVars, worldVars, restVars>>
baseVars == <<schemaVars, script>>
mindVars == <<scene, turnVars, lifeVars, baseVars>>

\* What varies from the start varies in its own scene only.
MindInit ==
    /\ scene \in {"learning", "trace", "relationship", "inner", "world", "resting", "schema", "script"}
    /\ Init /\ (scene # "learning" => setting = CHOOSE s \in Settings : TRUE)
    /\ TraceInit /\ InnerInit /\ WorldInit /\ RestInit
    /\ SchemaInit /\ (scene # "schema" => schema.recorded = {})
    /\ RelationshipInit
    /\ bond.lists \in {[l \in Lists |-> {}], [l \in Lists |-> Named]}
    /\ scene # "relationship" => bond \in MCBonds
    /\ IF scene = "script" THEN ScriptInit ELSE script = <<<<>>>>

MindNext ==
    /\ UNCHANGED scene
    /\ \/ scene = "learning" /\ Next /\ UNCHANGED <<traceVars, relationshipVars, lifeVars, baseVars>>
       \/ scene = "trace" /\ TraceNext /\ UNCHANGED <<vars, relationshipVars, lifeVars, baseVars>>
       \/ scene = "relationship" /\ RelationshipNext /\ UNCHANGED <<vars, traceVars, lifeVars, baseVars>>
       \/ scene = "inner" /\ InnerNext /\ UNCHANGED <<turnVars, worldVars, restVars, baseVars>>
       \/ scene = "world" /\ WorldNext /\ UNCHANGED <<turnVars, innerVars, restVars, baseVars>>
       \/ scene = "resting" /\ RestNext /\ UNCHANGED <<turnVars, innerVars, worldVars, baseVars>>
       \/ scene = "schema" /\ SchemaNext /\ UNCHANGED <<turnVars, lifeVars, script>>
       \/ scene = "script" /\ ScriptNext /\ UNCHANGED <<turnVars, lifeVars, schemaVars>>

MindSpec == MindInit /\ [][MindNext]_mindVars

\* Every variable of the components keeps its type.
MindTypeOK ==
    CASE scene = "learning" -> TypeOK
      [] scene = "trace" -> TraceTypeOK
      [] scene = "relationship" -> RelationshipTypeOK
      [] scene = "inner" -> InnerTypeOK
      [] scene = "world" -> WorldTypeOK
      [] scene = "resting" -> RestTypeOK
      [] scene = "schema" -> SchemaTypeOK
      [] OTHER -> TRUE

\* What is kept twice (a memory, a belief, the trace of a turn, an emotion) was
\* written by two processes.
TwinsAreOfTwo ==
    CASE scene = "learning" -> TwinsAreForeign
      [] scene = "trace" -> TwinTracesAreForeign
      [] scene = "resting" -> EmotionTwinsAreForeign
      [] OTHER -> TRUE

\* A memory has its evidence, and one that is set aside has what took its place;
\* an emotion has the activations it came from and is of the present; an
\* observation has its event.
MemoryIsSound ==
    CASE scene = "learning" -> MemoryIsGrounded /\ ConflictHasSuccessor
      [] scene = "world" -> NotedIsObserved /\ MaterialIsFollowed
      [] scene = "resting" -> EmotionsAreTraced /\ EmotionsAreOfNow
      [] OTHER -> TRUE

\* The shadow state is that of the traces; the tables are those of the
\* migrations, and each migration is read as SQL reads it.
TablesAreSound ==
    CASE scene = "trace" -> ShadowIsSound
      [] scene = "schema" -> SchemaIsWhole
      [] scene = "script" -> SplitIsRight
      [] OTHER -> TRUE

\* What a turn adds to the self is earned: confidence by evidence, trust by
\* what was received, and no more than a turn may add.
SelfIsEarned == BeliefsAreEarned /\ TurnIsCapped

\* The life goes offline, prepares a contact, and watches the world, in full
\* knowledge; what it felt stays as it ended.
PresenceIsInformed ==
    OfflineIsInformed /\ ContactIsInformed
        /\ WorldIsTold /\ EndedStays
=============================================================================
