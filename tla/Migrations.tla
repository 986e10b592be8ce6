------------------------------- MODULE Migrations -------------------------------
(***************************************************************************)
(* How a process finds its schema (storage/database.py, Database.initialize *)
(* and _run_migrations).  A migration is a sequence of statements that make *)
(* an object each, and is a transaction of its own.  Statements for vectors *)
(* are left out while the extension is missing: migration 002 has one such  *)
(* beside others, and 008 has it alone, to be tried again at a later start. *)
(***************************************************************************)
EXTENDS Naturals, Sequences, FiniteSets, Functions

CONSTANTS
    Starters,  \* the processes that open the database
    Files,     \* Files[v]: the statements of migration v
    Legacy     \* databases that are found: objects and recorded migrations

Numbers == DOMAIN Files

StatementsOf(v) == Range(Files[v])
Objects(V, kinds) == {s.object : s \in {t \in UNION {StatementsOf(v) : v \in V} : t.kind \in kinds}}

\* A migration of vectors only.
Vectors(v) == \A s \in StatementsOf(v) : s.kind = "vec"

\* Only a later statement makes again what a statement creates, and vectors that
\* are made beside others are made again by a migration of vectors only.  A
\* database that is found has what its migrations made, and none of what
\* another one creates.
ASSUME MigrationsAssumption ==
    /\ "nobody" \notin Starters
    /\ Files \in Seq(Seq([kind : {"create", "column", "vec"}, object : STRING]))
    /\ \A v \in Numbers : Files[v] # <<>>
    /\ \A v, w \in Numbers : \A i \in DOMAIN Files[v], j \in DOMAIN Files[w] :
          Files[v][i].kind = "create" /\ Files[v][i].object = Files[w][j].object
            => v < w \/ (v = w /\ i <= j)
    /\ Objects(Numbers, {"vec"}) \subseteq Objects({v \in Numbers : Vectors(v)}, {"vec"})
    /\ \A d \in Legacy :
          /\ d.recorded \subseteq Numbers
          /\ d.objects \subseteq Objects(Numbers, {"create", "column", "vec"})
          /\ Objects(d.recorded, {"create", "column"}) \subseteq d.objects
          /\ Objects({v \in d.recorded : Vectors(v)}, {"vec"}) \subseteq d.objects
          /\ Objects(Numbers \ d.recorded, {"create"}) \cap d.objects = {}

VARIABLES
    schema,   \* objects: what there is; recorded: schema_migrations
    writer,   \* the process in a transaction, with what it has made in it
    start     \* how far each process is

schemaVars == <<schema, writer, start>>

NoWriter == [by |-> "nobody"]
Closed == [phase |-> "closed"]

SchemaInit ==
    /\ schema \in Legacy
    /\ writer = NoWriter
    /\ start = [p \in Starters |-> Closed]

\* _load_vec_extension may fail; the migrations applied are read once.
Open(p, vec) ==
    /\ start[p] = Closed
    /\ start' = [start EXCEPT ![p] = [phase |-> "running", vec |-> vec, applied |-> schema.recorded, from |-> 1]]
    /\ UNCHANGED <<schema, writer>>

Remaining(p) == {v \in Numbers : v >= start[p].from /\ v \notin start[p].applied}
Lowest(S) == CHOOSE v \in S : \A w \in S : v <= w

\* BEGIN IMMEDIATE waits for another writer.
Begin(p) ==
    /\ start[p].phase = "running" /\ Remaining(p) # {}
    /\ writer = NoWriter
    /\ LET v == Lowest(Remaining(p))
       IN  writer' = [by |-> p, version |-> v, left |-> Files[v], made |-> {}, executed |-> FALSE]
    /\ UNCHANGED <<schema, start>>

\* It has waited for longer than busy_timeout.
LockTimesOut(p) ==
    /\ start[p].phase = "running" /\ writer # NoWriter /\ writer.by # p
    /\ start' = [start EXCEPT ![p] = [@ EXCEPT !.phase = "locked"]]
    /\ UNCHANGED <<schema, writer>>

Exists(object) == object \in schema.objects \cup writer.made

\* A vec0 statement has IF NOT EXISTS; a column that is there is accepted
\* (_is_satisfied_add_column).
Fails(s) == s.kind = "create" /\ Exists(s.object)

Execute(p) ==
    /\ writer.by = p /\ writer.left # <<>>
    /\ LET s == Head(writer.left)
           deferred == s.kind = "vec" /\ ~start[p].vec
       IN  /\ ~Fails(s)
           /\ writer' = [writer EXCEPT !.left = Tail(@),
                                       !.made = IF deferred THEN @ ELSE @ \cup {s.object},
                                       !.executed = @ \/ ~deferred]
    /\ UNCHANGED <<schema, start>>

\* The migration is recorded, unless all of it was left out.
Commit(p) ==
    /\ writer.by = p /\ writer.left = <<>>
    /\ writer.executed => writer.version \notin schema.recorded
    /\ schema' = [objects |-> schema.objects \cup writer.made,
                  recorded |-> IF writer.executed THEN schema.recorded \cup {writer.version}
                               ELSE schema.recorded]
    /\ start' = [start EXCEPT ![p].applied = IF writer.executed THEN @ \cup {writer.version} ELSE @,
                              ![p].from = writer.version + 1]
    /\ writer' = NoWriter

\* A statement fails, or the migration is recorded already: ROLLBACK, and the
\* process does not start.
Refuse(p) ==
    /\ writer.by = p
    /\ \/ writer.left # <<>> /\ Fails(Head(writer.left))
       \/ writer.left = <<>> /\ writer.executed /\ writer.version \in schema.recorded
    /\ start' = [start EXCEPT ![p].phase = "refused"]
    /\ writer' = NoWriter
    /\ UNCHANGED schema

Ready(p) ==
    /\ start[p].phase = "running" /\ Remaining(p) = {}
    /\ start' = [start EXCEPT ![p].phase = "ready"]
    /\ UNCHANGED <<schema, writer>>

\* The process is stopped or killed; a transaction it is in is undone.
Close(p) ==
    /\ start[p] # Closed
    /\ start' = [start EXCEPT ![p] = Closed]
    /\ writer' = IF writer.by = p THEN NoWriter ELSE writer
    /\ UNCHANGED schema

SchemaNext ==
    \E p \in Starters :
        \/ \E vec \in BOOLEAN : Open(p, vec)
        \/ Begin(p) \/ LockTimesOut(p) \/ Execute(p) \/ Commit(p) \/ Refuse(p) \/ Ready(p)
        \/ Close(p)

SchemaSpec == SchemaInit /\ [][SchemaNext]_schemaVars

-----------------------------------------------------------------------------
SchemaTypeOK ==
    /\ schema.objects \subseteq Objects(Numbers, {"create", "column", "vec"})
    /\ schema.recorded \subseteq Numbers
    /\ writer = NoWriter \/ (writer.by \in Starters /\ writer.version \in Numbers /\ writer.executed \in BOOLEAN)
    /\ \A p \in Starters : start[p].phase \in {"closed", "running", "locked", "refused", "ready"}

\* A migration is applied as a whole or not at all, however many processes
\* start at once and wherever one of them is killed.  A process that is ready
\* has every object it can use, those of the extension if it has loaded it; and
\* a process is refused only because another one has migrated since it looked.
SchemaIsWhole ==
    /\ Objects(schema.recorded, {"create", "column"}) \subseteq schema.objects
    /\ Objects(Numbers \ schema.recorded, {"create"}) \cap schema.objects = {}
    /\ \A p \in Starters :
          /\ start[p].phase = "ready" =>
               /\ Objects(Numbers, {"create", "column"}) \subseteq schema.objects
               /\ start[p].vec => Objects(Numbers, {"vec"}) \subseteq schema.objects
                                  /\ schema.recorded = Numbers
          /\ start[p].phase = "refused" => schema.recorded \ start[p].applied # {}
=============================================================================
