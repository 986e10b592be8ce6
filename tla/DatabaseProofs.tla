----------------------------- MODULE DatabaseProofs -----------------------------
(***************************************************************************)
(* Proofs about the database at start: the schema that any number of       *)
(* processes find, migrate and back up, and the scripts it is built from,  *)
(* split into statements for every text up to any length.  What the code   *)
(* does with a fold over a sequence is reasoned about state by state; the  *)
(* lemma that allows it, Climbing, stands first.                           *)
(***************************************************************************)
EXTENDS Migrations, SqlScript, FiniteSetTheorems, SequenceTheorems,
        WellFoundedInduction, TLAPS

-----------------------------------------------------------------------------
(***************************************************************************)
(* Sequences of states: what is built step by step.                        *)
(***************************************************************************)
\* A set of numbers with 0 that goes on from each of its numbers holds all.
LEMMA Climbing ==
    ASSUME NEW S, 0 \in S, \A n \in Nat : n \in S => n + 1 \in S
    PROVE  \A n \in Nat : n \in S
  <1> DEFINE T == {n \in Nat : n \notin S}
  <1> SUFFICES ASSUME T # {} PROVE FALSE
    OBVIOUS
  <1>1. T \subseteq Nat
    OBVIOUS
  <1> HIDE DEF T
  <1>2. PICK n \in T : \A m \in T : ~(<<m, n>> \in OpToRel(<, Nat))
    BY <1>1, NatLessThanWellFounded, WFMin
  <1>3. n \in Nat /\ n \notin S /\ \A m \in T : ~(m < n)
    BY <1>1, <1>2 DEF T, OpToRel
  <1>4. n - 1 \in Nat /\ n - 1 \notin T /\ n = (n - 1) + 1
    BY <1>3
  <1> QED BY <1>3, <1>4 DEF T

Chains(T, a, N, G) ==
    {f \in [0 .. N -> T] : f[0] = a /\ \A n \in 1 .. N : f[n] = G[n][f[n - 1]]}

\* Whatever the steps, they can be taken one after the other.
LEMMA ChainExists ==
    ASSUME NEW T, NEW a \in T, NEW N \in Nat, NEW G \in [1 .. N -> [T -> T]]
    PROVE  Chains(T, a, N, G) # {}
  <1> DEFINE P(n) == \E f \in [0 .. n -> T] : f[0] = a /\ \A i \in 1 .. n : f[i] = G[i][f[i - 1]]
             S == {n \in Nat : n <= N => P(n)}
  <1>1. 0 \in S
    <2>1. [i \in 0 .. 0 |-> a] \in [0 .. 0 -> T] /\ [i \in 0 .. 0 |-> a][0] = a
      OBVIOUS
    <2>2. \A i \in 1 .. 0 : FALSE
      OBVIOUS
    <2> QED BY <2>1, <2>2
  <1>2. ASSUME NEW n \in Nat, n \in S PROVE n + 1 \in S
    <2> SUFFICES ASSUME n + 1 <= N PROVE P(n + 1)
      OBVIOUS
    <2>1. PICK f \in [0 .. n -> T] : f[0] = a /\ \A i \in 1 .. n : f[i] = G[i][f[i - 1]]
      BY <1>2
    <2> DEFINE g == [i \in 0 .. n + 1 |-> IF i = n + 1 THEN G[n + 1][f[n]] ELSE f[i]]
    <2>2. G[n + 1][f[n]] \in T
      OBVIOUS
    <2>3. g \in [0 .. n + 1 -> T]
      BY <2>2
    <2>4. g[0] = a
      BY <2>1
    <2>5. ASSUME NEW i \in 1 .. n + 1 PROVE g[i] = G[i][g[i - 1]]
      <3>1. CASE i = n + 1
        BY <3>1
      <3>2. CASE i # n + 1
        <4>1. i \in 1 .. n /\ i - 1 \in 0 .. n /\ i - 1 # n + 1
          BY <3>2
        <4> QED BY <2>1, <4>1
      <3> QED BY <3>1, <3>2
    <2> HIDE DEF g
    <2> QED BY <2>3, <2>4, <2>5
  <1> HIDE DEF P
  <1>3. \A n \in Nat : n \in S
    <2> HIDE DEF S
    <2> QED BY <1>1, <1>2, Climbing
  <1>4. P(N)
    BY <1>3
  <1>5. \E f \in [0 .. N -> T] : f[0] = a /\ \A n \in 1 .. N : f[n] = G[n][f[n - 1]]
    BY <1>4 DEF P
  <1> QED BY <1>5 DEF Chains

-----------------------------------------------------------------------------
(***************************************************************************)
(* Migrations: how any number of processes find one schema.                *)
(***************************************************************************)
Kinds3 == {"create", "column", "vec"}
FileStatements == [kind : Kinds3, object : STRING]

Opened ==
    [phase : {"running", "locked", "refused", "ready"}, vec : BOOLEAN,
     applied : SUBSET Numbers, from : Nat]
Transactions ==
    [by : Starters, version : Numbers, left : Seq(FileStatements), made : SUBSET STRING,
     executed : BOOLEAN]

\* What a process has passed is recorded, but for vectors it cannot make.
Passed(p, v) == v < start[p].from \/ v \in start[p].applied

StartIsRight(p) ==
    start[p] # Closed =>
        /\ start[p].applied \subseteq schema.recorded
        /\ start[p].phase \in {"running", "ready"} =>
             \A v \in Numbers : Passed(p, v) =>
                v \in schema.recorded \/ (~start[p].vec /\ Vectors(v))
        /\ start[p].phase = "ready" => \A v \in Numbers : Passed(p, v)
        /\ start[p].phase = "refused" => schema.recorded \ start[p].applied # {}

\* How many statements of its migration the transaction has executed.
Executed == Len(Files[writer.version]) - Len(writer.left)

\* A transaction is about the first migration that its process has not passed,
\* and has made what its statements so far make.
WriterIsRight ==
    writer # NoWriter =>
        LET p == writer.by  v == writer.version  f == Files[v] IN
        /\ start[p].phase = "running" /\ start[p].from <= v /\ ~Passed(p, v)
        /\ \A u \in Numbers : u < v => Passed(p, u)
        /\ Executed \in Nat
        /\ \A i \in 1 .. Len(writer.left) : writer.left[i] = f[Executed + i]
        /\ \A x \in writer.made : \E j \in 1 .. Executed : f[j].object = x
        /\ \A j \in 1 .. Executed :
             start[p].vec \/ f[j].kind # "vec" => f[j].object \in schema.objects \cup writer.made
        /\ writer.executed => start[p].vec \/ ~Vectors(v)
        /\ ~writer.executed =>
             writer.made = {} /\ \A j \in 1 .. Executed : f[j].kind = "vec" /\ ~start[p].vec

\* What is recorded has been made as a whole, and nothing of the rest created.
SchemaIsOfMigrations ==
    /\ schema.recorded \subseteq Numbers
    /\ schema.objects \subseteq Objects(Numbers, Kinds3)
    /\ Objects(schema.recorded, {"create", "column"}) \subseteq schema.objects
    /\ Objects({v \in schema.recorded : Vectors(v)}, {"vec"}) \subseteq schema.objects
    /\ Objects(Numbers \ schema.recorded, {"create"}) \cap schema.objects = {}

SchemaInv ==
    /\ start \in [Starters -> Opened \cup {Closed}]
    /\ writer \in Transactions \cup {NoWriter}
    /\ SchemaIsOfMigrations
    /\ \A p \in Starters : StartIsRight(p)
    /\ WriterIsRight

-----------------------------------------------------------------------------
LEMMA FileTypes ==
    /\ Numbers \subseteq Nat /\ IsFiniteSet(Numbers) /\ \A v \in Numbers : v >= 1
    /\ \A v \in Numbers : /\ Files[v] \in Seq(FileStatements) /\ Len(Files[v]) \in Nat \ {0}
                          /\ DOMAIN Files[v] = 1 .. Len(Files[v])
                          /\ \A i \in DOMAIN Files[v] : Files[v][i] \in FileStatements
  <1>1. Files \in Seq(Seq(FileStatements))
    BY MigrationsAssumption DEF FileStatements, Kinds3
  <1>2. Numbers = 1 .. Len(Files) /\ Len(Files) \in Nat
    BY <1>1 DEF Numbers
  <1>3. \A v \in Numbers : Files[v] \in Seq(FileStatements)
    BY <1>1 DEF Numbers
  <1>4. \A v \in Numbers : Files[v] # << >>
    BY MigrationsAssumption
  <1>5. IsFiniteSet(Numbers)
    BY <1>2, FS_Interval
  <1> QED BY <1>2, <1>3, <1>4, <1>5

LEMMA ObjectsAre ==
    ASSUME NEW V, NEW kinds, NEW x
    PROVE  x \in Objects(V, kinds) <=>
             \E v \in V : \E i \in DOMAIN Files[v] : Files[v][i].kind \in kinds /\ Files[v][i].object = x
  BY DEF Objects, StatementsOf, Range

LEMMA VectorsAre == \A v : Vectors(v) <=> \A i \in DOMAIN Files[v] : Files[v][i].kind = "vec"
  BY DEF Vectors, StatementsOf, Range

LEMMA LeastExists ==
    ASSUME NEW S \in SUBSET Numbers, S # {}
    PROVE  \E t \in S : \A u \in S : t <= u
  <1> DEFINE Before1(t) == {u \in S : u < t}
             Family == {Before1(t) : t \in S}
  <1>1. S \subseteq Nat /\ IsFiniteSet(S)
    <2>1. Numbers \subseteq Nat /\ IsFiniteSet(Numbers)
      BY FileTypes
    <2> QED BY <2>1, FS_Subset
  <1>2. IsWellFoundedOn(StrictSubsetOrdering(S), SUBSET S)
    BY <1>1, FS_StrictSubsetOrderingWellFounded, FS_FiniteSubsetsOfFinite
  <1>3. Family \subseteq SUBSET S /\ Family # {}
    OBVIOUS
  <1>4. PICK F \in Family : \A G \in Family : <<G, F>> \notin StrictSubsetOrdering(S)
    <2> HIDE DEF Family
    <2> QED BY <1>2, <1>3, WFMin
  <1>5. PICK t \in S : F = Before1(t)
    OBVIOUS
  <1>6. ASSUME NEW u \in S, u < t PROVE FALSE
    <2> DEFINE G == Before1(u)
    <2> \A x, y, z \in Nat : (x < y /\ y < z => x < z) /\ ~(x < x)
      OBVIOUS
    <2> u \in Nat /\ t \in Nat /\ \A x \in S : x \in Nat
      BY <1>1
    <2>1. G \subseteq F
      BY <1>5, <1>6
    <2>2. u \in F /\ u \notin G
      BY <1>5, <1>6
    <2>3. G \in Family /\ G \in SUBSET S /\ F \in SUBSET S
      BY <1>5
    <2> HIDE DEF G, Family
    <2>4. <<G, F>> \in StrictSubsetOrdering(S)
      BY <2>1, <2>2, <2>3 DEF StrictSubsetOrdering
    <2> QED BY <1>4, <2>3, <2>4
  <1> QED BY <1>1, <1>6

LEMMA LowestIs ==
    ASSUME NEW S \in SUBSET Numbers, S # {}
    PROVE  Lowest(S) \in S /\ \A u \in S : Lowest(S) <= u
  BY LeastExists DEF Lowest

-----------------------------------------------------------------------------
LEMMA HandsOfStarters ==
    ASSUME SchemaInv, NEW p \in Starters, writer.by = p
    PROVE  writer # NoWriter /\ writer \in Transactions
  BY MigrationsAssumption DEF SchemaInv, NoWriter, Transactions

LEMMA OpenedIsOpen ==
    ASSUME SchemaInv, NEW p \in Starters, start[p] # Closed
    PROVE  /\ start[p] \in Opened /\ start[p].phase \in {"running", "locked", "refused", "ready"}
           /\ start[p].vec \in BOOLEAN /\ start[p].from \in Nat /\ start[p].applied \subseteq Numbers
  <1>1. start[p] \in Opened
    BY DEF SchemaInv
  <1> QED BY <1>1 DEF Opened

LEMMA PhaseIsOpen ==
    ASSUME SchemaInv, NEW p \in Starters, start[p].phase # "closed"
    PROVE  start[p] # Closed
  BY DEF Closed

LEMMA WriterIsLeft ==
    ASSUME WriterIsRight, writer' = writer, schema' = schema,
           writer # NoWriter => start'[writer.by] = start[writer.by]
    PROVE  WriterIsRight'
  BY DEF WriterIsRight, Executed, Passed

LEMMA StartIsLeft ==
    ASSUME NEW p, StartIsRight(p), start'[p] = start[p], schema.recorded \subseteq schema'.recorded
    PROVE  StartIsRight(p)'
  BY DEF StartIsRight, Passed

LEMMA NobodyWrites ==
    ASSUME writer' = NoWriter
    PROVE  WriterIsRight'
  BY DEF WriterIsRight

-----------------------------------------------------------------------------
LEMMA SchemaStarts ==
    ASSUME SchemaInit
    PROVE  SchemaInv
  <1> USE DEF SchemaInit
  <1>1. start \in [Starters -> Opened \cup {Closed}] /\ writer \in Transactions \cup {NoWriter}
    OBVIOUS
  <1>2. WriterIsRight
    BY DEF WriterIsRight
  <1>3. \A p \in Starters : StartIsRight(p)
    BY DEF StartIsRight
  <1>4. SchemaIsOfMigrations
    BY MigrationsAssumption DEF SchemaIsOfMigrations, Kinds3
  <1> QED BY <1>1, <1>2, <1>3, <1>4 DEF SchemaInv

LEMMA OpenKeeps ==
    ASSUME SchemaInv, NEW p \in Starters, NEW vec \in BOOLEAN, Open(p, vec)
    PROVE  SchemaInv'
  <1> USE DEF Open
  <1> DEFINE row == [phase |-> "running", vec |-> vec, applied |-> schema.recorded, from |-> 1]
  <1>1. schema.recorded \subseteq Numbers
    BY DEF SchemaInv, SchemaIsOfMigrations
  <1>2. row \in Opened
    BY <1>1 DEF Opened
  <1>3. start' = [start EXCEPT ![p] = row] /\ start \in [Starters -> Opened \cup {Closed}]
    BY DEF SchemaInv
  <1>4. start' \in [Starters -> Opened \cup {Closed}] /\ start'[p] = row
        /\ \A q \in Starters : q # p => start'[q] = start[q]
    <2> HIDE DEF row
    <2> QED BY <1>2, <1>3
  <1>5. WriterIsRight'
    <2>1. writer # NoWriter => writer.by \in Starters /\ start[writer.by].phase = "running"
      BY DEF SchemaInv, WriterIsRight, Transactions
    <2>2. writer # NoWriter => writer.by # p
      BY <2>1 DEF Closed
    <2> QED BY <2>1, <2>2, <1>4, WriterIsLeft DEF SchemaInv
  <1>6. StartIsRight(p)'
    <2>1. \A v \in Numbers : v >= 1 /\ v \in Nat
      BY FileTypes
    <2> QED BY <1>4, <2>1 DEF StartIsRight, Passed
  <1>7. \A q \in Starters : StartIsRight(q)'
    <2>1. ASSUME NEW q \in Starters, q # p PROVE StartIsRight(q)'
      BY <2>1, <1>4, StartIsLeft DEF SchemaInv
    <2> QED BY <2>1, <1>6
  <1> QED BY <1>4, <1>5, <1>7 DEF SchemaInv, SchemaIsOfMigrations

LEMMA BeginKeeps ==
    ASSUME SchemaInv, NEW p \in Starters, Begin(p)
    PROVE  SchemaInv'
  <1> USE DEF Begin
  <1> DEFINE v == Lowest(Remaining(p))
  <1>1. v \in Remaining(p) /\ \A u \in Remaining(p) : v <= u
    BY LowestIs DEF Remaining
  <1>2. v \in Numbers /\ v \in Nat /\ v >= start[p].from /\ v \notin start[p].applied
    BY <1>1, FileTypes DEF Remaining
  <1>3. start[p] \in Opened /\ start[p].from \in Nat /\ start[p].vec \in BOOLEAN
    BY PhaseIsOpen, OpenedIsOpen
  <1>4. \A u \in Numbers : u < v => Passed(p, u)
    <2>1. ASSUME NEW u \in Numbers, u < v PROVE Passed(p, u)
      <3>1. u \notin Remaining(p) /\ u \in Nat
        BY <2>1, <1>1, <1>2, FileTypes
      <3> QED BY <3>1, <2>1, <1>3 DEF Remaining, Passed
    <2> QED BY <2>1
  <1>5. /\ Files[v] \in Seq(FileStatements) /\ Len(Files[v]) \in Nat
    BY <1>2, FileTypes
  <1>6. writer' = [by |-> p, version |-> v, left |-> Files[v], made |-> {}, executed |-> FALSE]
    OBVIOUS
  <1>7. start[p].phase = "running" /\ schema' = schema /\ start' = start
    OBVIOUS
  <1> HIDE DEF v
  <1>8. writer' \in Transactions
    BY <1>2, <1>5, <1>6 DEF Transactions
  <1>9. Executed' = 0
    BY <1>5, <1>6 DEF Executed
  <1>10. WriterIsRight'
    <2>1. ~Passed(p, v) /\ start[p].from <= v
      BY <1>2, <1>3 DEF Passed
    <2> QED BY <1>4, <1>5, <1>6, <1>7, <1>9, <2>1 DEF WriterIsRight, Passed
  <1>11. \A q \in Starters : StartIsRight(q)'
    BY <1>7, StartIsLeft DEF SchemaInv
  <1> QED BY <1>7, <1>8, <1>10, <1>11 DEF SchemaInv, SchemaIsOfMigrations

\* Steps of a process that is in no transaction, or leaves it without a trace.
LEMMA PhaseKeeps ==
    ASSUME SchemaInv, NEW p \in Starters, start[p] # Closed, NEW phase,
           phase \in {"running", "locked", "refused", "ready"},
           start' = [start EXCEPT ![p].phase = phase], schema' = schema,
           \/ writer' = NoWriter
           \/ writer' = writer /\ (writer # NoWriter => writer.by # p),
           phase \notin {"running", "ready"} \/ start[p].phase = "running",
           phase = "ready" => \A v \in Numbers : Passed(p, v),
           phase = "refused" => schema.recorded \ start[p].applied # {}
    PROVE  SchemaInv'
  <1> DEFINE row == [start[p] EXCEPT !.phase = phase]
  <1>1. start[p] \in Opened /\ row \in Opened
    BY OpenedIsOpen DEF Opened
  <1>2. row.phase = phase /\ row.vec = start[p].vec /\ row.applied = start[p].applied
        /\ row.from = start[p].from /\ row # Closed
    BY <1>1 DEF Opened, Closed
  <1>3. start' = [start EXCEPT ![p] = row] /\ start \in [Starters -> Opened \cup {Closed}]
    BY DEF SchemaInv
  <1> HIDE DEF row
  <1>4. start' \in [Starters -> Opened \cup {Closed}] /\ start'[p] = row
        /\ \A q \in Starters : q # p => start'[q] = start[q]
    BY <1>1, <1>3
  <1>5. WriterIsRight'
    <2>1. CASE writer' = NoWriter
      BY <2>1, NobodyWrites
    <2>2. CASE writer' = writer /\ (writer # NoWriter => writer.by # p)
      <3>1. writer # NoWriter => writer.by \in Starters
        BY DEF SchemaInv, Transactions
      <3> QED BY <2>2, <3>1, <1>4, WriterIsLeft DEF SchemaInv
    <2> QED BY <2>1, <2>2
  <1>6. StartIsRight(p)'
    <2>1. StartIsRight(p)
      BY DEF SchemaInv
    <2> QED BY <2>1, <1>2, <1>4 DEF StartIsRight, Passed
  <1>7. \A q \in Starters : StartIsRight(q)'
    <2>1. ASSUME NEW q \in Starters, q # p PROVE StartIsRight(q)'
      BY <2>1, <1>4, StartIsLeft DEF SchemaInv
    <2> QED BY <2>1, <1>6
  <1>8. writer' \in Transactions \cup {NoWriter}
    BY DEF SchemaInv
  <1> QED BY <1>4, <1>5, <1>7, <1>8 DEF SchemaInv, SchemaIsOfMigrations

LEMMA LockTimesOutKeeps ==
    ASSUME SchemaInv, NEW p \in Starters, LockTimesOut(p)
    PROVE  SchemaInv'
  <1>1. start[p] # Closed
    BY PhaseIsOpen DEF LockTimesOut
  <1>2. start' = [start EXCEPT ![p].phase = "locked"]
    BY DEF LockTimesOut
  <1> QED BY <1>1, <1>2, PhaseKeeps DEF LockTimesOut

LEMMA ReadyKeeps ==
    ASSUME SchemaInv, NEW p \in Starters, Ready(p)
    PROVE  SchemaInv'
  <1>1. start[p] # Closed
    BY PhaseIsOpen DEF Ready
  <1>2. start[p].from \in Nat /\ Numbers \subseteq Nat
    BY <1>1, OpenedIsOpen, FileTypes
  <1>3. \A v \in Numbers : Passed(p, v)
    BY <1>2 DEF Ready, Remaining, Passed
  <1>4. writer # NoWriter => writer.by # p
    BY <1>3 DEF SchemaInv, WriterIsRight, Transactions
  <1> QED BY <1>1, <1>3, <1>4, PhaseKeeps DEF Ready

LEMMA CloseKeeps ==
    ASSUME SchemaInv, NEW p \in Starters, Close(p)
    PROVE  SchemaInv'
  <1> USE DEF Close
  <1>1. start' \in [Starters -> Opened \cup {Closed}] /\ start'[p] = Closed
        /\ \A q \in Starters : q # p => start'[q] = start[q]
    BY DEF SchemaInv
  <1>2. WriterIsRight'
    <2>1. CASE writer.by = p
      BY <2>1, NobodyWrites
    <2>2. CASE writer.by # p
      <3>1. writer # NoWriter => writer.by \in Starters
        BY DEF SchemaInv, Transactions
      <3> QED BY <2>2, <3>1, <1>1, WriterIsLeft DEF SchemaInv
    <2> QED BY <2>1, <2>2
  <1>3. \A q \in Starters : StartIsRight(q)'
    <2>1. ASSUME NEW q \in Starters, q # p PROVE StartIsRight(q)'
      BY <2>1, <1>1, StartIsLeft DEF SchemaInv
    <2>2. StartIsRight(p)'
      BY <1>1 DEF StartIsRight
    <2> QED BY <2>1, <2>2
  <1>4. writer' \in Transactions \cup {NoWriter}
    BY DEF SchemaInv
  <1> QED BY <1>1, <1>2, <1>3, <1>4 DEF SchemaInv, SchemaIsOfMigrations

LEMMA LaterStatements ==
    ASSUME NEW v \in Numbers, NEW w \in Numbers, NEW i \in DOMAIN Files[v], NEW j \in DOMAIN Files[w],
           Files[v][i].kind = "create", Files[v][i].object = Files[w][j].object
    PROVE  v < w \/ (v = w /\ i <= j)
  BY MigrationsAssumption

-----------------------------------------------------------------------------
\* The parts of WriterIsRight for the process in the transaction, by themselves.
LEMMA InTransaction ==
    ASSUME SchemaInv, NEW p \in Starters, writer.by = p
    PROVE  /\ writer \in Transactions /\ writer.by \in Starters /\ writer.version \in Numbers
           /\ writer.left \in Seq(FileStatements) /\ writer.made \subseteq STRING /\ writer.executed \in BOOLEAN
           /\ start[p] # Closed /\ start[p] \in Opened /\ start[p].phase = "running"
           /\ start[p].from <= writer.version /\ ~Passed(p, writer.version)
           /\ \A u \in Numbers : u < writer.version => Passed(p, u)
           /\ Executed \in Nat /\ Len(writer.left) \in Nat
           /\ Len(Files[writer.version]) = Executed + Len(writer.left)
           /\ \A i \in 1 .. Len(writer.left) : writer.left[i] = Files[writer.version][Executed + i]
           /\ \A x \in writer.made : \E j \in 1 .. Executed : Files[writer.version][j].object = x
           /\ \A j \in 1 .. Executed :
                start[p].vec \/ Files[writer.version][j].kind # "vec" =>
                   Files[writer.version][j].object \in schema.objects \cup writer.made
           /\ writer.executed => start[p].vec \/ ~Vectors(writer.version)
           /\ ~writer.executed =>
                writer.made = {} /\ \A j \in 1 .. Executed : Files[writer.version][j].kind = "vec" /\ ~start[p].vec
  <1>1. writer # NoWriter /\ writer \in Transactions
    BY HandsOfStarters
  <1>2. /\ writer.by \in Starters /\ writer.version \in Numbers
        /\ writer.left \in Seq(FileStatements) /\ writer.made \subseteq STRING /\ writer.executed \in BOOLEAN
    BY <1>1 DEF Transactions
  <1>3. WriterIsRight
    BY DEF SchemaInv
  <1>4. start[p].phase = "running"
    BY <1>1, <1>3 DEF WriterIsRight
  <1>5. start[p] # Closed /\ start[p] \in Opened
    BY <1>4, PhaseIsOpen, OpenedIsOpen
  <1>6. Len(Files[writer.version]) \in Nat /\ Len(writer.left) \in Nat
    BY <1>2, FileTypes
  <1>7. Executed \in Nat /\ Len(Files[writer.version]) = Executed + Len(writer.left)
    <2>1. Executed \in Nat
      BY <1>1, <1>3 DEF WriterIsRight
    <2> QED BY <2>1, <1>6 DEF Executed
  <1>8. \A j \in 1 .. Executed :
           start[p].vec \/ Files[writer.version][j].kind # "vec" =>
             Files[writer.version][j].object \in schema.objects \cup writer.made
    BY <1>1, <1>3 DEF WriterIsRight
  <1>9. /\ \A i \in 1 .. Len(writer.left) : writer.left[i] = Files[writer.version][Executed + i]
        /\ \A x \in writer.made : \E j \in 1 .. Executed : Files[writer.version][j].object = x
    BY <1>1, <1>3 DEF WriterIsRight
  <1>10. /\ start[p].from <= writer.version /\ ~Passed(p, writer.version)
         /\ \A u \in Numbers : u < writer.version => Passed(p, u)
         /\ writer.executed => start[p].vec \/ ~Vectors(writer.version)
         /\ ~writer.executed =>
              writer.made = {} /\ \A j \in 1 .. Executed : Files[writer.version][j].kind = "vec" /\ ~start[p].vec
    BY <1>1, <1>3 DEF WriterIsRight
  <1> QED BY <1>1, <1>2, <1>4, <1>5, <1>6, <1>7, <1>8, <1>9, <1>10

LEMMA ExecuteKeeps ==
    ASSUME SchemaInv, NEW p \in Starters, Execute(p)
    PROVE  SchemaInv'
  <1> DEFINE s == Head(writer.left)
             deferred == s.kind = "vec" /\ ~start[p].vec
             f == Files[writer.version]
  <1>1. writer.by = p /\ writer.left # << >> /\ schema' = schema /\ start' = start
    BY DEF Execute
  <1>2. writer' = [writer EXCEPT !.left = Tail(@), !.made = IF deferred THEN @ ELSE @ \cup {s.object},
                                 !.executed = @ \/ ~deferred]
    BY DEF Execute
  <1>3. /\ writer \in Transactions /\ writer.version \in Numbers /\ writer.by \in Starters
        /\ writer.left \in Seq(FileStatements) /\ writer.made \subseteq STRING /\ writer.executed \in BOOLEAN
        /\ start[p].phase = "running" /\ start[p].vec \in BOOLEAN
    BY <1>1, InTransaction DEF Opened
  <1>4. s \in FileStatements /\ s.kind \in Kinds3 /\ s.object \in STRING /\ Tail(writer.left) \in Seq(FileStatements)
        /\ Len(Tail(writer.left)) = Len(writer.left) - 1 /\ Len(writer.left) \in Nat \ {0}
    <2>1. s \in FileStatements /\ Tail(writer.left) \in Seq(FileStatements)
          /\ Len(Tail(writer.left)) = Len(writer.left) - 1 /\ Len(writer.left) \in Nat \ {0}
      BY <1>1, <1>3
    <2> QED BY <2>1 DEF FileStatements
  <1>5. /\ writer'.by = p /\ writer'.version = writer.version /\ writer'.left = Tail(writer.left)
        /\ writer'.made = (IF deferred THEN writer.made ELSE writer.made \cup {s.object})
        /\ writer'.executed = (writer.executed \/ ~deferred)
    <2> HIDE DEF deferred, s
    <2> QED BY <1>1, <1>2, <1>3 DEF Transactions
  <1>6. writer' \in Transactions
    <2>1. (IF deferred THEN writer.made ELSE writer.made \cup {s.object}) \subseteq STRING
          /\ (writer.executed \/ ~deferred) \in BOOLEAN
      BY <1>3, <1>4
    <2> HIDE DEF deferred, s
    <2> QED BY <2>1, <1>2, <1>3, <1>4 DEF Transactions
  <1>7. Executed \in Nat /\ Executed' = Executed + 1 /\ s = f[Executed + 1]
    <2>1. Executed \in Nat /\ Len(f) = Executed + Len(writer.left) /\ s = f[Executed + 1]
      <3>1. \A i \in 1 .. Len(writer.left) : writer.left[i] = Files[writer.version][Executed + i]
        BY <1>1, InTransaction
      <3>2. s = writer.left[1] /\ 1 \in 1 .. Len(writer.left)
        BY <1>3, <1>4
      <3>3. s = f[Executed + 1]
        BY <3>1, <3>2
      <3>4. Executed \in Nat /\ Len(f) = Executed + Len(writer.left)
        BY <1>1, InTransaction
      <3> QED BY <3>3, <3>4
    <2>2. Executed' = Len(f) - Len(writer'.left) /\ Executed = Len(f) - Len(writer.left)
      BY <1>5 DEF Executed
    <2>3. Len(writer'.left) = Len(writer.left) - 1 /\ Len(writer.left) \in Nat
      BY <1>4, <1>5
    <2> DEFINE all == Len(f)  before == Len(writer.left)  after == Len(writer'.left)
    <2>4. /\ Executed \in Nat /\ before \in Nat /\ all = Executed + before
          /\ after = before - 1 /\ Executed' = all - after
      BY <2>1, <2>2, <2>3
    <2> HIDE DEF all, before, after
    <2>5. Executed' = Executed + 1
      BY <2>4
    <2> QED BY <2>1, <2>5
  <1>8. f[Executed + 1].kind = "vec" /\ ~start[p].vec <=> deferred
    BY <1>7
  <1> DEFINE e == Executed
  <1>9. e \in Nat /\ Executed' = e + 1 /\ \A j \in 1 .. (e + 1) : j \in 1 .. e \/ j = e + 1
    BY <1>7
  <1>10. \A i \in 1 .. Len(writer'.left) : writer'.left[i] = f[e + 1 + i]
    <2>1. ASSUME NEW i \in 1 .. Len(writer'.left) PROVE writer'.left[i] = f[e + 1 + i]
      <3>1. writer'.left[i] = writer.left[i + 1] /\ i + 1 \in 1 .. Len(writer.left)
        BY <1>3, <1>4, <1>5
      <3>2. writer.left[i + 1] = f[e + (i + 1)]
        BY <3>1, <1>1, InTransaction
      <3> QED BY <3>1, <3>2, <1>9
    <2> QED BY <2>1
  <1>11. \A x \in writer'.made : \E j \in 1 .. (e + 1) : f[j].object = x
    <2>1. \A x \in writer.made : \E j \in 1 .. e : f[j].object = x
      BY <1>1, InTransaction
    <2>2. \A j \in 1 .. e : j \in 1 .. (e + 1)
      BY <1>9
    <2>3. e + 1 \in 1 .. (e + 1) /\ f[e + 1].object = s.object
      BY <1>7, <1>9
    <2> HIDE DEF e, f, s, deferred
    <2> QED BY <2>1, <2>2, <2>3, <1>5
  <1>12. \A j \in 1 .. (e + 1) :
            start[p].vec \/ f[j].kind # "vec" => f[j].object \in schema.objects \cup writer'.made
    <2>1. \A j \in 1 .. e :
             start[p].vec \/ f[j].kind # "vec" => f[j].object \in schema.objects \cup writer.made
      BY <1>1, InTransaction
    <2>2. start[p].vec \/ f[e + 1].kind # "vec" => f[e + 1].object \in writer'.made
      BY <1>5, <1>7, <1>8
    <2>3. writer.made \subseteq writer'.made
      BY <1>5
    <2> HIDE DEF e, f, s, deferred
    <2> QED BY <2>1, <2>2, <2>3, <1>9
  <1>13. writer'.executed => start[p].vec \/ ~Vectors(writer.version)
    <2>1. writer.executed => start[p].vec \/ ~Vectors(writer.version)
      BY <1>1, InTransaction
    <2>2. e + 1 \in DOMAIN f
      <3>1. DOMAIN f = 1 .. Len(f) /\ Len(f) = e + Len(writer.left)
        BY <1>1, <1>3, InTransaction, FileTypes
      <3> QED BY <3>1, <1>4, <1>9
    <2>3. f[e + 1].kind # "vec" => ~Vectors(writer.version)
      BY <2>2, VectorsAre
    <2> QED BY <2>1, <2>3, <1>5, <1>8
  <1>14. ~writer'.executed => writer'.made = {} /\ \A j \in 1 .. (e + 1) : f[j].kind = "vec" /\ ~start[p].vec
    <2>1. ~writer.executed =>
             writer.made = {} /\ \A j \in 1 .. e : f[j].kind = "vec" /\ ~start[p].vec
      BY <1>1, InTransaction
    <2> HIDE DEF e, f, s
    <2> QED BY <2>1, <1>5, <1>8, <1>9 DEF e
  <1>15. start[p].from <= writer.version /\ ~Passed(p, writer.version)
         /\ \A u \in Numbers : u < writer.version => Passed(p, u)
    BY <1>1, InTransaction
  <1>16. WriterIsRight'
    <2> HIDE DEF s, deferred
    <2> QED BY <1>1, <1>3, <1>5, <1>9, <1>10, <1>11, <1>12, <1>13, <1>14, <1>15 DEF WriterIsRight, Passed
  <1>17. \A q \in Starters : StartIsRight(q)'
    BY <1>1, StartIsLeft DEF SchemaInv
  <1> QED BY <1>1, <1>6, <1>16, <1>17 DEF SchemaInv, SchemaIsOfMigrations

LEMMA RefuseKeeps ==
    ASSUME SchemaInv, NEW p \in Starters, Refuse(p)
    PROVE  SchemaInv'
  <1> DEFINE v == writer.version
             f == Files[v]
  <1>1. writer.by = p /\ schema' = schema /\ writer' = NoWriter
        /\ start' = [start EXCEPT ![p].phase = "refused"]
    BY DEF Refuse
  <1>2. start[p] # Closed /\ v \in Numbers /\ ~Passed(p, v)
    BY <1>1, InTransaction
  <1>3. v \in schema.recorded
    <2>1. CASE writer.left = << >> /\ writer.executed /\ writer.version \in schema.recorded
      BY <2>1
    <2>2. CASE writer.left # << >> /\ Fails(Head(writer.left))
      <3>1. Head(writer.left) = f[Executed + 1] /\ Executed + 1 \in DOMAIN f /\ Executed \in Nat
        <4>1. Head(writer.left) = writer.left[1] /\ Len(writer.left) \in Nat \ {0}
          BY <1>1, <2>2, InTransaction
        <4>2. Executed \in Nat /\ Len(f) = Executed + Len(writer.left)
              /\ \A i \in 1 .. Len(writer.left) : writer.left[i] = f[Executed + i]
          BY <1>1, InTransaction
        <4>3. DOMAIN f = 1 .. Len(f)
          BY <1>2, FileTypes
        <4> QED BY <4>1, <4>2, <4>3
      <3>2. f[Executed + 1].kind = "create" /\ f[Executed + 1].object \in schema.objects \cup writer.made
        BY <2>2, <3>1 DEF Fails, Exists
      <3>3. f[Executed + 1].object \notin writer.made
        <4>1. SUFFICES ASSUME f[Executed + 1].object \in writer.made PROVE FALSE
          OBVIOUS
        <4>2. PICK j \in 1 .. Executed : f[j].object = f[Executed + 1].object
          BY <4>1, <1>1, InTransaction
        <4>3. DOMAIN f = 1 .. Len(f) /\ Len(f) \in Nat
          BY <1>2, FileTypes
        <4>4. j \in DOMAIN f /\ j \in Nat /\ j <= Executed
          BY <4>2, <4>3, <3>1
        <4>5. v < v \/ (v = v /\ Executed + 1 <= j)
          BY <3>1, <3>2, <4>2, <4>4, <1>2, LaterStatements
        <4>6. v \in Nat
          BY <1>2, FileTypes
        <4> HIDE DEF v
        <4> QED BY <4>4, <4>5, <4>6, <3>1
      <3>4. ASSUME v \notin schema.recorded PROVE FALSE
        <4>1. f[Executed + 1].object \in Objects(Numbers \ schema.recorded, {"create"})
          BY <3>1, <3>2, <3>4, <1>2, ObjectsAre
        <4> QED BY <4>1, <3>2, <3>3 DEF SchemaInv, SchemaIsOfMigrations
      <3> QED BY <3>4
    <2> QED BY <2>1, <2>2 DEF Refuse
  <1>4. schema.recorded \ start[p].applied # {}
    BY <1>2, <1>3 DEF Passed
  <1> QED BY <1>1, <1>2, <1>4, PhaseKeeps

LEMMA CommitKeeps ==
    ASSUME SchemaInv, NEW p \in Starters, Commit(p)
    PROVE  SchemaInv'
  <1> DEFINE v == writer.version
             f == Files[v]
             row == [start[p] EXCEPT !.applied = IF writer.executed THEN @ \cup {v} ELSE @, !.from = v + 1]
  <1>1. /\ writer.by = p /\ writer.left = << >> /\ writer' = NoWriter
        /\ schema'.objects = schema.objects \cup writer.made
        /\ schema'.recorded = (IF writer.executed THEN schema.recorded \cup {v} ELSE schema.recorded)
        /\ (writer.executed => v \notin schema.recorded)
    BY DEF Commit
  <1>2. start' = [start EXCEPT ![p] = row]
    BY DEF Commit, SchemaInv
  <1>3. /\ v \in Numbers /\ v \in Nat /\ writer.executed \in BOOLEAN /\ start[p] \in Opened
        /\ start[p].phase = "running" /\ start[p].from <= v /\ start[p] # Closed
    BY <1>1, InTransaction, FileTypes
  <1>4. row \in Opened
    <2> DEFINE a == IF writer.executed THEN start[p].applied \cup {v} ELSE start[p].applied
    <2>1. a \in SUBSET Numbers /\ v + 1 \in Nat
      BY <1>3 DEF Opened
    <2>2. row = [start[p] EXCEPT !.applied = a, !.from = v + 1]
      OBVIOUS
    <2> HIDE DEF a, row
    <2> QED BY <2>1, <2>2, <1>3 DEF Opened
  <1>5. row.phase = "running" /\ row.vec = start[p].vec /\ row.from = v + 1
        /\ row.applied = (IF writer.executed THEN start[p].applied \cup {v} ELSE start[p].applied)
    BY <1>3 DEF Opened
  <1>6. start' \in [Starters -> Opened \cup {Closed}] /\ start'[p] = row
        /\ \A q \in Starters : q # p => start'[q] = start[q]
    <2> HIDE DEF row
    <2> QED BY <1>2, <1>4 DEF SchemaInv
  <1>7. DOMAIN f = 1 .. Executed /\ Executed \in Nat \ {0}
    <2>1. Len(f) = Executed /\ Executed \in Nat
      BY <1>1, InTransaction
    <2> QED BY <2>1, <1>3, FileTypes
  <1> HIDE DEF row
  <1>8. StartIsRight(p)'
    <2>1. StartIsRight(p)
      BY DEF SchemaInv
    <2>2. start'[p].applied \subseteq schema'.recorded
      BY <2>1, <1>1, <1>3, <1>5, <1>6 DEF StartIsRight
    <2>3. ASSUME NEW u \in Numbers, u < v + 1 \/ u \in row.applied
          PROVE  u \in schema'.recorded \/ (~start[p].vec /\ Vectors(u))
      <3>1. CASE u # v
        <4>1. Passed(p, u)
          <5>1. u \in Nat
            BY FileTypes
          <5>2. u < v => Passed(p, u)
            BY <1>1, InTransaction
          <5> QED BY <5>1, <5>2, <2>3, <3>1, <1>3, <1>5 DEF Passed
        <4> QED BY <4>1, <2>1, <1>1, <1>3 DEF StartIsRight
      <3>2. CASE u = v /\ writer.executed
        BY <3>2, <1>1
      <3>3. CASE u = v /\ ~writer.executed
        <4>1. \A j \in 1 .. Executed : f[j].kind = "vec" /\ ~start[p].vec
          BY <3>3, <1>1, InTransaction
        <4>2. Vectors(v) /\ ~start[p].vec
          <5>1. Vectors(v)
            BY <4>1, <1>7, VectorsAre
          <5>2. 1 \in 1 .. Executed
            BY <1>7
          <5> QED BY <4>1, <5>1, <5>2
        <4> QED BY <4>2, <3>3
      <3> QED BY <3>1, <3>2, <3>3
    <2> QED BY <2>2, <2>3, <1>5, <1>6 DEF StartIsRight, Passed
  <1>9. \A q \in Starters : StartIsRight(q)'
    <2>1. ASSUME NEW q \in Starters, q # p PROVE StartIsRight(q)'
      BY <2>1, <1>1, <1>6, StartIsLeft DEF SchemaInv
    <2> QED BY <2>1, <1>8
  <1>10. WriterIsRight' /\ writer' \in Transactions \cup {NoWriter}
    BY <1>1, NobodyWrites
  \* What the transaction has made.
  <1>11. \A x \in writer.made : \E j \in DOMAIN f : f[j].object = x
    BY <1>1, <1>7, InTransaction
  <1>12. \A j \in DOMAIN f : start[p].vec \/ f[j].kind # "vec" => f[j].object \in schema'.objects
    BY <1>1, <1>7, InTransaction
  <1>13. writer.executed => start[p].vec \/ ~Vectors(v)
    BY <1>1, InTransaction
  <1>14. ~writer.executed => schema'.objects = schema.objects /\ schema'.recorded = schema.recorded
    BY <1>1, InTransaction
  <1>15. SchemaIsOfMigrations
    BY DEF SchemaInv
  <1>16. SchemaIsOfMigrations'
    <2>1. CASE ~writer.executed
      BY <2>1, <1>14, <1>15 DEF SchemaIsOfMigrations
    <2>2. CASE writer.executed
      <3>1. schema'.recorded = schema.recorded \cup {v} /\ schema.objects \subseteq schema'.objects
        BY <2>2, <1>1
      <3>2. schema'.recorded \subseteq Numbers
        BY <3>1, <1>3, <1>15 DEF SchemaIsOfMigrations
      <3>3. schema'.objects \subseteq Objects(Numbers, Kinds3)
        <4>1. ASSUME NEW x \in writer.made PROVE x \in Objects(Numbers, Kinds3)
          <5>1. PICK j \in DOMAIN f : f[j].object = x
            BY <1>11
          <5>2. f[j].kind \in Kinds3
            <6>1. f[j] \in FileStatements
              BY <1>3, FileTypes
            <6> QED BY <6>1 DEF FileStatements
          <5> QED BY <5>1, <5>2, <1>3, ObjectsAre
        <4> QED BY <4>1, <1>1, <1>15 DEF SchemaIsOfMigrations
      <3>4. Objects(schema'.recorded, {"create", "column"}) \subseteq schema'.objects
        <4>1. ASSUME NEW x \in Objects(schema'.recorded, {"create", "column"}) PROVE x \in schema'.objects
          <5>1. PICK u \in schema'.recorded : \E i \in DOMAIN Files[u] :
                   Files[u][i].kind \in {"create", "column"} /\ Files[u][i].object = x
            BY <4>1, ObjectsAre
          <5>2. CASE u = v
            BY <5>1, <5>2, <1>12
          <5>3. CASE u \in schema.recorded
            <6>1. x \in Objects(schema.recorded, {"create", "column"})
              BY <5>1, <5>3, ObjectsAre
            <6> QED BY <6>1, <3>1, <1>15 DEF SchemaIsOfMigrations
          <5> QED BY <5>1, <5>2, <5>3, <3>1
        <4> QED BY <4>1
      <3>5. Objects({u \in schema'.recorded : Vectors(u)}, {"vec"}) \subseteq schema'.objects
        <4>1. ASSUME NEW x \in Objects({u \in schema'.recorded : Vectors(u)}, {"vec"}) PROVE x \in schema'.objects
          <5>1. PICK u \in {u \in schema'.recorded : Vectors(u)} : \E i \in DOMAIN Files[u] :
                   Files[u][i].kind \in {"vec"} /\ Files[u][i].object = x
            BY <4>1, ObjectsAre
          <5>2. CASE u = v
            <6>1. start[p].vec
              BY <5>1, <5>2, <1>13, <2>2
            <6> QED BY <5>1, <5>2, <6>1, <1>12
          <5>3. CASE u \in schema.recorded
            <6>1. x \in Objects({t \in schema.recorded : Vectors(t)}, {"vec"})
              BY <5>1, <5>3, ObjectsAre
            <6> QED BY <6>1, <3>1, <1>15 DEF SchemaIsOfMigrations
          <5> QED BY <5>1, <5>2, <5>3, <3>1
        <4> QED BY <4>1
      <3>6. Objects(Numbers \ schema'.recorded, {"create"}) \cap schema'.objects = {}
        <4>1. ASSUME NEW x \in Objects(Numbers \ schema'.recorded, {"create"}), x \in schema'.objects PROVE FALSE
          <5>1. PICK u \in Numbers \ schema'.recorded : \E i \in DOMAIN Files[u] :
                   Files[u][i].kind \in {"create"} /\ Files[u][i].object = x
            BY <4>1, ObjectsAre
          <5>2. PICK i \in DOMAIN Files[u] : Files[u][i].kind = "create" /\ Files[u][i].object = x
            BY <5>1
          <5>3. CASE x \in schema.objects
            <6>1. x \in Objects(Numbers \ schema.recorded, {"create"})
              BY <5>1, <3>1, ObjectsAre
            <6> QED BY <6>1, <5>3, <1>15 DEF SchemaIsOfMigrations
          <5>4. CASE x \in writer.made
            <6>1. PICK j \in DOMAIN f : f[j].object = x
              BY <5>4, <1>11
            <6>2. u < v \/ (u = v /\ i <= j)
              BY <5>1, <5>2, <6>1, <1>3, LaterStatements
            <6>3. u # v
              BY <5>1, <3>1
            <6>4. Passed(p, u)
              BY <6>2, <6>3, <5>1, <1>1, InTransaction
            <6>5. u \in schema.recorded \/ Vectors(u)
              BY <6>4, <5>1, <1>3 DEF SchemaInv, StartIsRight
            <6>6. ~Vectors(u)
              BY <5>2, VectorsAre
            <6> QED BY <6>5, <6>6, <5>1, <3>1
          <5> QED BY <5>3, <5>4, <4>1, <1>1
        <4> QED BY <4>1
      <3> QED BY <3>2, <3>3, <3>4, <3>5, <3>6 DEF SchemaIsOfMigrations
    <2> QED BY <2>1, <2>2, <1>3
  <1> QED BY <1>6, <1>9, <1>10, <1>16 DEF SchemaInv

-----------------------------------------------------------------------------
LEMMA SchemaSteps ==
    ASSUME SchemaInv, [SchemaNext]_schemaVars
    PROVE  SchemaInv'
  <1>1. CASE UNCHANGED schemaVars
    BY <1>1 DEF schemaVars, SchemaInv, SchemaIsOfMigrations, StartIsRight, Passed, WriterIsRight, Executed
  <1>2. CASE SchemaNext
    BY <1>2, OpenKeeps, BeginKeeps, LockTimesOutKeeps, ExecuteKeeps, CommitKeeps, RefuseKeeps, ReadyKeeps,
       CloseKeeps DEF SchemaNext
  <1> QED BY <1>1, <1>2

LEMMA SchemaInvIsWhole ==
    ASSUME SchemaInv
    PROVE  SchemaTypeOK /\ SchemaIsWhole
  <1>1. SchemaIsOfMigrations
    BY DEF SchemaInv
  <1>2. ASSUME NEW p \in Starters, start[p].phase = "ready"
        PROVE  /\ \A v \in Numbers : v \in schema.recorded \/ (~start[p].vec /\ Vectors(v))
    BY <1>2, PhaseIsOpen DEF SchemaInv, StartIsRight
  <1>3. ASSUME NEW p \in Starters, start[p].phase = "ready"
        PROVE  Objects(Numbers, {"create", "column"}) \subseteq schema.objects
    <2>1. ASSUME NEW x \in Objects(Numbers, {"create", "column"}) PROVE x \in schema.objects
      <3>1. PICK v \in Numbers : \E i \in DOMAIN Files[v] :
               Files[v][i].kind \in {"create", "column"} /\ Files[v][i].object = x
        BY <2>1, ObjectsAre
      <3>2. v \in schema.recorded
        BY <3>1, <1>2, <1>3, VectorsAre
      <3>3. x \in Objects(schema.recorded, {"create", "column"})
        BY <3>1, <3>2, ObjectsAre
      <3> QED BY <3>3, <1>1 DEF SchemaIsOfMigrations
    <2> QED BY <2>1
  <1>4. ASSUME NEW p \in Starters, start[p].phase = "ready", start[p].vec
        PROVE  schema.recorded = Numbers /\ Objects(Numbers, {"vec"}) \subseteq schema.objects
    <2>1. schema.recorded = Numbers
      BY <1>1, <1>2, <1>4 DEF SchemaIsOfMigrations
    <2>2. Objects(Numbers, {"vec"}) \subseteq Objects({v \in Numbers : Vectors(v)}, {"vec"})
      BY MigrationsAssumption
    <2> QED BY <2>1, <2>2, <1>1 DEF SchemaIsOfMigrations
  <1>5. ASSUME NEW p \in Starters, start[p].phase = "refused"
        PROVE  schema.recorded \ start[p].applied # {}
    BY <1>5, PhaseIsOpen DEF SchemaInv, StartIsRight
  <1>6. SchemaIsWhole
    BY <1>1, <1>3, <1>4, <1>5 DEF SchemaIsWhole, SchemaIsOfMigrations
  <1>7. \A p \in Starters : start[p].phase \in {"closed", "running", "locked", "refused", "ready"}
    BY OpenedIsOpen DEF Closed
  <1>8. writer = NoWriter \/ (writer.by \in Starters /\ writer.version \in Numbers /\ writer.executed \in BOOLEAN)
    BY DEF SchemaInv, Transactions
  <1> QED BY <1>1, <1>6, <1>7, <1>8 DEF SchemaTypeOK, SchemaIsOfMigrations, Kinds3

\* Every process finds one whole schema, for every set of migrations.
THEOREM SchemaStaysWhole == SchemaSpec => [](SchemaTypeOK /\ SchemaIsWhole)
  <1>1. SchemaInit => SchemaInv
    BY SchemaStarts
  <1>2. SchemaInv /\ [SchemaNext]_schemaVars => SchemaInv'
    BY SchemaSteps
  <1>3. SchemaInv => SchemaTypeOK /\ SchemaIsWhole
    BY SchemaInvIsWhole
  <1> QED BY <1>1, <1>2, <1>3, PTL DEF SchemaSpec

-----------------------------------------------------------------------------
(***************************************************************************)
(* Folds over sequences.  FoldLeft is defined by the sets of positions it  *)
(* has passed; these lemmas turn it into a run, one element at a time.     *)
(***************************************************************************)
\* The functions that solve the equation of a fold over 1 .. N.
FoldsOf(T, a, N, G) ==
    {h \in [SUBSET (1 .. N) -> T] :
        \A K \in SUBSET (1 .. N) : h[K] = IF K = {} THEN a ELSE G[Max(K)][h[K \ {Max(K)}]]}

LEMMA HasMax ==
    ASSUME NEW N \in Nat, NEW K \in SUBSET (1 .. N), K # {}
    PROVE  Max(K) \in K /\ Max(K) \in Nat /\ \A y \in K : y <= Max(K)
  <1> DEFINE P(n) == \A X \in SUBSET (1 .. n) : X # {} => \E x \in X : \A y \in X : x >= y
             S == {n \in Nat : P(n)}
  <1>0. \A X \in SUBSET (1 .. 0) : X = {}
    OBVIOUS
  <1>1. 0 \in S
    BY <1>0
  <1>2. ASSUME NEW n \in Nat, n \in S PROVE n + 1 \in S
    <2> SUFFICES ASSUME NEW X \in SUBSET (1 .. n + 1), X # {}
                 PROVE  \E x \in X : \A y \in X : x >= y
      OBVIOUS
    <2>1. CASE n + 1 \in X
      BY <2>1
    <2>2. CASE n + 1 \notin X
      <3>1. X \in SUBSET (1 .. n)
        BY <2>2
      <3> QED BY <3>1, <1>2
    <2> QED BY <2>1, <2>2
  <1>3. \A n \in Nat : n \in S
    <2> HIDE DEF S
    <2> QED BY <1>1, <1>2, Climbing
  <1>4. \E x \in K : \A y \in K : x >= y
    BY <1>3
  <1>5. Max(K) \in K /\ \A y \in K : Max(K) >= y
    BY <1>4 DEF Max
  <1>6. \A y \in K : y \in Nat
    OBVIOUS
  <1>7. Max(K) \in Nat
    BY <1>5, <1>6
  <1> QED BY <1>5, <1>6, <1>7

LEMMA HasMin ==
    ASSUME NEW N \in Nat, NEW K \in SUBSET (1 .. N), K # {}
    PROVE  Min(K) \in K /\ \A y \in K : Min(K) <= y
  <1> DEFINE P(n) == \A X \in SUBSET (1 .. n) : X # {} => \E x \in X : \A y \in X : x <= y
             S == {n \in Nat : P(n)}
  <1>0. \A X \in SUBSET (1 .. 0) : X = {}
    OBVIOUS
  <1>1. 0 \in S
    BY <1>0
  <1>2. ASSUME NEW n \in Nat, n \in S PROVE n + 1 \in S
    <2> SUFFICES ASSUME NEW X \in SUBSET (1 .. n + 1), X # {}
                 PROVE  \E x \in X : \A y \in X : x <= y
      OBVIOUS
    <2>1. CASE X = {n + 1}
      BY <2>1
    <2>2. CASE X # {n + 1}
      <3>1. X \ {n + 1} \in SUBSET (1 .. n) /\ X \ {n + 1} # {}
        BY <2>2
      <3>2. PICK x \in X \ {n + 1} : \A y \in X \ {n + 1} : x <= y
        BY <3>1, <1>2
      <3>3. \A y \in X : x <= y
        BY <3>1, <3>2
      <3> QED BY <3>2, <3>3
    <2> QED BY <2>1, <2>2
  <1>3. \A n \in Nat : n \in S
    <2> HIDE DEF S
    <2> QED BY <1>1, <1>2, Climbing
  <1>4. \E x \in K : \A y \in K : x <= y
    BY <1>3
  <1> QED BY <1>4 DEF Min

LEMMA MaxOfFirst ==
    ASSUME NEW N \in Nat, NEW n \in 1 .. N
    PROVE  /\ 1 .. n \in SUBSET (1 .. N) /\ 1 .. n # {}
           /\ Max(1 .. n) = n /\ (1 .. n) \ {Max(1 .. n)} = 1 .. n - 1
  <1>1. 1 .. n \in SUBSET (1 .. N) /\ n \in 1 .. n
    OBVIOUS
  <1>2. Max(1 .. n) \in 1 .. n /\ n <= Max(1 .. n)
    BY <1>1, HasMax
  <1>3. Max(1 .. n) = n
    BY <1>2
  <1> QED BY <1>1, <1>3

LEMMA FoldExists ==
    ASSUME NEW T, NEW a \in T, NEW N \in Nat, NEW G \in [1 .. N -> [T -> T]]
    PROVE  FoldsOf(T, a, N, G) # {}
  <1> DEFINE Eq(h, K) == h[K] = IF K = {} THEN a ELSE G[Max(K)][h[K \ {Max(K)}]]
             P(n) == \E h \in [SUBSET (1 .. n) -> T] : \A K \in SUBSET (1 .. n) : Eq(h, K)
             S == {n \in Nat : n <= N => P(n)}
  <1>1. 0 \in S
    <2> DEFINE h == [K \in SUBSET (1 .. 0) |-> a]
    <2>1. \A K \in SUBSET (1 .. 0) : K = {}
      OBVIOUS
    <2>2. h \in [SUBSET (1 .. 0) -> T] /\ \A K \in SUBSET (1 .. 0) : Eq(h, K)
      BY <2>1
    <2> QED BY <2>2
  <1>2. ASSUME NEW n \in Nat, n \in S PROVE n + 1 \in S
    <2> SUFFICES ASSUME n + 1 <= N PROVE P(n + 1)
      <3> HIDE DEF P
      <3> QED OBVIOUS
    <2>0. P(n)
      <3> HIDE DEF P
      <3> QED BY <1>2
    <2>1. PICK h \in [SUBSET (1 .. n) -> T] : \A K \in SUBSET (1 .. n) : Eq(h, K)
      BY <2>0
    <2> DEFINE g == [K \in SUBSET (1 .. n + 1) |-> IF n + 1 \in K THEN G[n + 1][h[K \ {n + 1}]] ELSE h[K]]
    <2>2. G[n + 1] \in [T -> T]
      OBVIOUS
    <2>3. \A K \in SUBSET (1 .. n + 1) : K \ {n + 1} \in SUBSET (1 .. n)
      OBVIOUS
    <2>4. \A K \in SUBSET (1 .. n + 1) : n + 1 \notin K => K \in SUBSET (1 .. n)
      OBVIOUS
    <2>5. g \in [SUBSET (1 .. n + 1) -> T]
      BY <2>2, <2>3, <2>4
    <2>6. ASSUME NEW K \in SUBSET (1 .. n + 1) PROVE Eq(g, K)
      <3>1. CASE n + 1 \in K
        <4>a. n + 1 \in Nat /\ K # {}
          BY <3>1
        <4>b. Max(K) \in K /\ Max(K) \in Nat /\ \A y \in K : y <= Max(K)
          BY <4>a, HasMax
        <4>1. Max(K) \in 1 .. n + 1 /\ n + 1 <= Max(K)
          BY <3>1, <4>b
        <4>2. Max(K) = n + 1
          BY <4>1
        <4>3. K \ {n + 1} \in SUBSET (1 .. n + 1) /\ n + 1 \notin K \ {n + 1}
          OBVIOUS
        <4>4. g[K \ {n + 1}] = h[K \ {n + 1}]
          BY <4>3
        <4>5. g[K] = G[n + 1][h[K \ {n + 1}]]
          BY <3>1
        <4> QED BY <3>1, <4>2, <4>4, <4>5
      <3>2. CASE n + 1 \notin K
        <4>1. g[K] = h[K] /\ Eq(h, K)
          BY <3>2, <2>1, <2>4
        <4>2. CASE K = {}
          BY <4>1, <4>2
        <4>3. CASE K # {}
          <5>1. K \ {Max(K)} \in SUBSET (1 .. n + 1) /\ n + 1 \notin K \ {Max(K)}
            BY <3>2
          <5>2. g[K \ {Max(K)}] = h[K \ {Max(K)}]
            BY <5>1
          <5> QED BY <4>1, <4>3, <5>2
        <4> QED BY <4>2, <4>3
      <3> QED BY <3>1, <3>2
    <2> HIDE DEF g, Eq
    <2> QED BY <2>5, <2>6
  <1> HIDE DEF P
  <1>3. \A n \in Nat : n \in S
    <2> HIDE DEF S
    <2> QED BY <1>1, <1>2, Climbing
  <1>4. P(N)
    BY <1>3
  <1> QED BY <1>4 DEF P, FoldsOf

-----------------------------------------------------------------------------
(***************************************************************************)
(* SqlScript: one character, one line, and all lines, on either side.      *)
(***************************************************************************)
Splitters == [done : Seq(Seq(Characters)), current : Seq(Characters), inString : BOOLEAN]
ReadModes == {"code", "dash", "string", "remark"}
Readers == [mode : ReadModes, done : Seq(Seq(Characters)), current : Seq(Characters)]
Signs == Characters \cup {Break}

LEMMA SignsDiffer ==
    /\ Quote \in Characters /\ Semicolon \in Characters /\ Dash \in Characters
    /\ Break \notin Characters
    /\ Quote # Semicolon /\ Quote # Dash /\ Semicolon # Dash
  BY DEF Quote, Semicolon, Dash, Break, Characters

LEMMA TextGrows ==
    /\ <<>> \in Seq(Characters)
    /\ \A s \in Seq(Characters) : \A c \in Characters :
          Append(s, c) \in Seq(Characters) /\ Append(s, c) # <<>>
    /\ \A d \in Seq(Seq(Characters)) : \A s \in Seq(Characters) : Append(d, s) \in Seq(Seq(Characters))
  <1>1. \A S : \A s \in Seq(S) : \A x \in S : Append(s, x) \in Seq(S) /\ Append(s, x) # <<>>
    BY AppendProperties
  <1>2. <<>> \in Seq(Characters)
    OBVIOUS
  <1> QED BY <1>1, <1>2, Zenon

LEMMA EndKeepsSplitters ==
    ASSUME NEW m \in Splitters
    PROVE  /\ EndStatement(m) \in Splitters
           /\ EndStatement(m).done = IF m.current = <<>> THEN m.done ELSE Append(m.done, m.current)
           /\ EndStatement(m).current = <<>> /\ EndStatement(m).inString = m.inString
  <1>1. m.done \in Seq(Seq(Characters)) /\ m.current \in Seq(Characters) /\ m.inString \in BOOLEAN
    BY DEF Splitters
  <1>2. Append(m.done, m.current) \in Seq(Seq(Characters)) /\ <<>> \in Seq(Characters)
    BY <1>1, TextGrows, Zenon
  <1>3. EndStatement(m) \in Splitters
    BY <1>1, <1>2 DEF EndStatement, Splitters
  <1>4. EndStatement(m).done = IF m.current = <<>> THEN m.done ELSE Append(m.done, m.current)
    BY DEF EndStatement, Splitters
  <1>5. EndStatement(m).current = <<>>
    BY DEF EndStatement, Splitters
  <1>6. EndStatement(m).inString = m.inString
    BY DEF EndStatement, Splitters
  <1> QED BY <1>3, <1>4, <1>5, <1>6

\* What one character makes of a splitter.
LEMMA TakeGives ==
    ASSUME NEW m \in Splitters, NEW c \in Characters
    PROVE  LET t == Take(m, c)
               in == IF c = Quote THEN ~m.inString ELSE m.inString
               ends == c = Semicolon /\ ~in
           IN  /\ t \in Splitters
               /\ t.inString = in
               /\ t.done = IF ends THEN Append(m.done, Append(m.current, c)) ELSE m.done
               /\ t.current = IF ends THEN <<>> ELSE Append(m.current, c)
  <1> DEFINE n == [m EXCEPT !.current = Append(@, c), !.inString = IF c = Quote THEN ~@ ELSE @]
  <1>1. m.done \in Seq(Seq(Characters)) /\ m.current \in Seq(Characters) /\ m.inString \in BOOLEAN
    BY DEF Splitters
  <1>2. Append(m.current, c) \in Seq(Characters) /\ Append(m.current, c) # <<>>
    BY <1>1, TextGrows, Zenon
  <1>3. n \in Splitters
    BY <1>1, <1>2 DEF Splitters
  <1>4. n.done = m.done
    BY DEF Splitters
  <1>5. n.current = Append(m.current, c)
    BY DEF Splitters
  <1>6. n.inString = IF c = Quote THEN ~m.inString ELSE m.inString
    BY DEF Splitters
  <1>7. Take(m, c) = IF c = Semicolon /\ ~n.inString THEN EndStatement(n) ELSE n
    BY DEF Take
  <1> HIDE DEF n
  <1>8. /\ EndStatement(n) \in Splitters
        /\ EndStatement(n).done = IF n.current = <<>> THEN n.done ELSE Append(n.done, n.current)
        /\ EndStatement(n).current = <<>> /\ EndStatement(n).inString = n.inString
    BY <1>3, EndKeepsSplitters
  <1>9. CASE c = Semicolon /\ ~n.inString
    BY <1>2, <1>4, <1>5, <1>6, <1>7, <1>8, <1>9
  <1>10. CASE ~(c = Semicolon /\ ~n.inString)
    BY <1>3, <1>4, <1>5, <1>6, <1>7, <1>10
  <1> QED BY <1>9, <1>10

LEMMA ReadStringGives ==
    ASSUME NEW m \in Readers, NEW c \in Characters, m.mode = "string"
    PROVE  LET t == Read(m, c)
           IN  /\ t \in Readers /\ t.done = m.done /\ t.current = Append(m.current, c)
               /\ t.mode = IF c = Quote THEN "code" ELSE "string"
  <1>1. m.done \in Seq(Seq(Characters)) /\ m.current \in Seq(Characters)
    BY DEF Readers
  <1>2. Append(m.current, c) \in Seq(Characters)
    BY <1>1, TextGrows, Zenon
  <1>3. Read(m, c) = [m EXCEPT !.current = Append(@, c), !.mode = IF c = Quote THEN "code" ELSE @]
    BY SignsDiffer DEF Read, ReadString
  <1>4. Read(m, c) \in Readers
    BY <1>1, <1>2, <1>3 DEF Readers, ReadModes
  <1>5. Read(m, c).done = m.done
    BY <1>3 DEF Readers
  <1>6. Read(m, c).current = Append(m.current, c)
    BY <1>3 DEF Readers
  <1>7. Read(m, c).mode = IF c = Quote THEN "code" ELSE "string"
    BY <1>3 DEF Readers
  <1> QED BY <1>4, <1>5, <1>6, <1>7

LEMMA ReadCodeGives ==
    ASSUME NEW m \in Readers, NEW c \in Characters, m.mode \in {"code", "dash"},
           ~(c = Dash /\ m.mode = "dash")
    PROVE  LET t == Read(m, c)
           IN  /\ t \in Readers
               /\ t.done = IF c = Semicolon THEN Append(m.done, Append(m.current, c)) ELSE m.done
               /\ t.current = IF c = Semicolon THEN <<>> ELSE Append(m.current, c)
               /\ t.mode = IF c = Quote THEN "string" ELSE IF c = Dash THEN "dash" ELSE "code"
  <1>1. m.done \in Seq(Seq(Characters)) /\ m.current \in Seq(Characters)
    BY DEF Readers
  <1>2. Append(m.current, c) \in Seq(Characters) /\ <<>> \in Seq(Characters)
    BY <1>1, TextGrows, Zenon
  <1>3. Append(m.done, Append(m.current, c)) \in Seq(Seq(Characters))
    BY <1>1, <1>2, TextGrows, Zenon
  <1>4. Read(m, c) = ReadCode(m, c)
    BY SignsDiffer DEF Read
  <1>5. CASE c = Semicolon
    <2>1. Read(m, c) = [m EXCEPT !.done = Append(@, Append(m.current, c)), !.current = <<>>, !.mode = "code"]
      BY <1>4, <1>5, SignsDiffer DEF ReadCode
    <2>2. Read(m, c) \in Readers
      BY <1>1, <1>2, <1>3, <2>1 DEF Readers, ReadModes
    <2>3. Read(m, c).done = Append(m.done, Append(m.current, c))
      BY <2>1 DEF Readers
    <2>4. Read(m, c).current = <<>>
      BY <2>1 DEF Readers
    <2>5. Read(m, c).mode = "code"
      BY <2>1 DEF Readers
    <2> QED BY <1>5, <2>2, <2>3, <2>4, <2>5, SignsDiffer
  <1>6. CASE c # Semicolon
    <2>1. Read(m, c) = [m EXCEPT !.current = Append(@, c),
                                 !.mode = IF c = Quote THEN "string" ELSE IF c = Dash THEN "dash" ELSE "code"]
      BY <1>4, <1>6 DEF ReadCode
    <2>2. Read(m, c) \in Readers
      BY <1>1, <1>2, <2>1 DEF Readers, ReadModes
    <2>3. Read(m, c).done = m.done
      BY <2>1 DEF Readers
    <2>4. Read(m, c).current = Append(m.current, c)
      BY <2>1 DEF Readers
    <2>5. Read(m, c).mode = IF c = Quote THEN "string" ELSE IF c = Dash THEN "dash" ELSE "code"
      BY <2>1 DEF Readers
    <2> QED BY <1>6, <2>2, <2>3, <2>4, <2>5
  <1> QED BY <1>5, <1>6

LEMMA FrontIs ==
    ASSUME NEW s \in Seq(Characters)
    PROVE  Front(s) \in Seq(Characters) /\ \A c \in Characters : Front(Append(s, c)) = s
  <1>1. Front(s) \in Seq(Characters)
    <2>1. Len(s) \in Nat /\ \A i \in 1 .. Len(s) - 1 : s[i] \in Characters
      OBVIOUS
    <2>2. Len(s) - 1 \in Int
      BY <2>1
    <2> QED BY <2>1, <2>2, SubSeqProperties DEF Front
  <1>2. ASSUME NEW c \in Characters PROVE Front(Append(s, c)) = s
    <2> DEFINE t == Append(s, c)
    <2>1. t \in Seq(Characters) /\ Len(t) = Len(s) + 1 /\ Len(s) \in Nat /\ \A i \in 1 .. Len(s) : t[i] = s[i]
      OBVIOUS
    <2>2. Front(t) = SubSeq(t, 1, Len(s))
      BY <2>1 DEF Front
    <2> HIDE DEF t
    <2>3. \A i \in 1 .. Len(s) : t[i] \in Characters
      BY <2>1
    <2>4. /\ SubSeq(t, 1, Len(s)) \in Seq(Characters)
          /\ Len(SubSeq(t, 1, Len(s))) = IF 1 <= Len(s) THEN Len(s) - 1 + 1 ELSE 0
          /\ \A i \in 1 .. Len(s) - 1 + 1 : SubSeq(t, 1, Len(s))[i] = t[1 + i - 1]
      BY <2>1, <2>3, SubSeqProperties
    <2>5. Len(Front(t)) = Len(s) /\ \A i \in 1 .. Len(s) : Front(t)[i] = s[i]
      BY <2>1, <2>2, <2>4
    <2>6. Front(t) \in Seq(Characters)
      BY <2>2, <2>4
    <2>7. Front(t) = s
      BY <2>5, <2>6
    <2> QED BY <2>7 DEF t
  <1> QED BY <1>1, <1>2

\* The second dash begins a remark, which only a break ends.
LEMMA ReadRemarkGives ==
    ASSUME NEW m \in Readers
    PROVE  /\ m.mode = "dash" =>
                /\ Read(m, Dash) \in Readers /\ Read(m, Dash).done = m.done
                /\ Read(m, Dash).current = Front(m.current) /\ Read(m, Dash).mode = "remark"
           /\ m.mode = "remark" => \A c \in Characters : Read(m, c) = m
           /\ Read(m, Break) \in Readers /\ Read(m, Break).done = m.done
           /\ Read(m, Break).current = m.current
           /\ Read(m, Break).mode = IF m.mode = "string" THEN "string" ELSE "code"
  <1>1. m.done \in Seq(Seq(Characters)) /\ m.current \in Seq(Characters) /\ m.mode \in ReadModes
    BY DEF Readers
  <1>2. ASSUME m.mode = "dash"
        PROVE  /\ Read(m, Dash) \in Readers /\ Read(m, Dash).done = m.done
               /\ Read(m, Dash).current = Front(m.current) /\ Read(m, Dash).mode = "remark"
    <2>1. Read(m, Dash) = [m EXCEPT !.current = Front(@), !.mode = "remark"]
      BY <1>2, SignsDiffer DEF Read, ReadCode
    <2>2. Front(m.current) \in Seq(Characters)
      BY <1>1, FrontIs
    <2>3. Read(m, Dash) \in Readers
      BY <1>1, <2>1, <2>2 DEF Readers, ReadModes
    <2>4. Read(m, Dash).done = m.done
      BY <2>1 DEF Readers
    <2>5. Read(m, Dash).current = Front(m.current)
      BY <2>1 DEF Readers
    <2>6. Read(m, Dash).mode = "remark"
      BY <2>1 DEF Readers
    <2> QED BY <2>3, <2>4, <2>5, <2>6
  <1>3. ASSUME m.mode = "remark", NEW c \in Characters PROVE Read(m, c) = m
    BY <1>3, SignsDiffer DEF Read
  <1>4. Read(m, Break) = [m EXCEPT !.mode = IF @ = "string" THEN @ ELSE "code"]
    BY DEF Read
  <1>5. Read(m, Break) \in Readers
    BY <1>1, <1>4 DEF Readers, ReadModes
  <1>6. Read(m, Break).done = m.done
    BY <1>4 DEF Readers
  <1>7. Read(m, Break).current = m.current
    BY <1>4 DEF Readers
  <1>8. Read(m, Break).mode = IF m.mode = "string" THEN "string" ELSE "code"
    BY <1>4 DEF Readers
  <1> QED BY <1>2, <1>3, <1>5, <1>6, <1>7, <1>8

LEMMA TakeKeeps ==
    ASSUME NEW m \in Splitters, NEW c \in Characters
    PROVE  Take(m, c) \in Splitters
  BY TakeGives

LEMMA ReadKeeps ==
    ASSUME NEW m \in Readers, NEW c \in Signs
    PROVE  Read(m, c) \in Readers
  <1>1. m.mode \in {"code", "dash", "string", "remark"}
    BY DEF Readers, ReadModes
  <1>2. CASE c = Break
    BY <1>2, ReadRemarkGives
  <1>3. CASE c # Break
    <2>1. c \in Characters
      BY <1>3 DEF Signs
    <2>2. CASE m.mode = "string"
      BY <2>1, <2>2, ReadStringGives
    <2>3. CASE m.mode = "remark"
      BY <2>1, <2>3, ReadRemarkGives
    <2>4. CASE m.mode = "dash" /\ c = Dash
      BY <2>4, ReadRemarkGives
    <2>5. CASE m.mode \in {"code", "dash"} /\ ~(c = Dash /\ m.mode = "dash")
      BY <2>1, <2>5, ReadCodeGives
    <2> QED BY <1>1, <2>2, <2>3, <2>4, <2>5
  <1> QED BY <1>2, <1>3

\* What Take makes of the characters of a line, one at a time.
TakeRuns(m, cs) ==
    {f \in [0 .. Len(cs) -> Splitters] : f[0] = m /\ \A n \in 1 .. Len(cs) : f[n] = Take(f[n - 1], cs[n])}

LEMMA TakeOneByOne ==
    ASSUME NEW m \in Splitters, NEW cs \in Seq(Characters)
    PROVE  \E f \in TakeRuns(m, cs) : FoldLeft(Take, m, cs) = f[Len(cs)]
  <1> DEFINE it == CHOOSE iter : iter = [K \in SUBSET (DOMAIN cs) |->
                                           IF K = {} THEN m ELSE Take(iter[K \ {Max(K)}], cs[Max(K)])]
             G == [n \in 1 .. Len(cs) |-> [x \in Splitters |-> Take(x, cs[n])]]
  <1>1. FoldLeft(Take, m, cs) = it[DOMAIN cs]
    BY DEF FoldLeft, MapThenFoldSet
  <1>2. DOMAIN cs = 1 .. Len(cs) /\ Len(cs) \in Nat /\ \A n \in 1 .. Len(cs) : cs[n] \in Characters
    OBVIOUS
  <1>3. G \in [1 .. Len(cs) -> [Splitters -> Splitters]]
    BY <1>2, TakeKeeps
  <1>4. \A n \in 1 .. Len(cs) : \A x \in Splitters : G[n][x] = Take(x, cs[n])
    OBVIOUS
  <1> HIDE DEF G
  <1>5. FoldsOf(Splitters, m, Len(cs), G) # {}
    BY <1>2, <1>3, FoldExists
  <1>6. PICK h \in [SUBSET (1 .. Len(cs)) -> Splitters] :
          \A K \in SUBSET (1 .. Len(cs)) : h[K] = IF K = {} THEN m ELSE G[Max(K)][h[K \ {Max(K)}]]
    BY <1>5 DEF FoldsOf
  <1>7. ASSUME NEW K \in SUBSET (DOMAIN cs)
        PROVE h[K] = IF K = {} THEN m ELSE Take(h[K \ {Max(K)}], cs[Max(K)])
    <2>1. CASE K = {}
      BY <1>2, <1>6, <2>1
    <2>2. CASE K # {}
      <3>1. Max(K) \in 1 .. Len(cs)
        BY <1>2, <2>2, HasMax
      <3>2. K \ {Max(K)} \in SUBSET (1 .. Len(cs))
        BY <1>2
      <3>3. h[K \ {Max(K)}] \in Splitters
        BY <3>2
      <3>4. h[K] = G[Max(K)][h[K \ {Max(K)}]]
        BY <1>2, <1>6, <2>2
      <3> QED BY <2>2, <3>1, <3>3, <3>4, <1>4
    <2> QED BY <2>1, <2>2
  <1>8. h = [K \in SUBSET (DOMAIN cs) |-> IF K = {} THEN m ELSE Take(h[K \ {Max(K)}], cs[Max(K)])]
    BY <1>2, <1>7
  <1>9. it = [K \in SUBSET (DOMAIN cs) |-> IF K = {} THEN m ELSE Take(it[K \ {Max(K)}], cs[Max(K)])]
    BY <1>8
  <1> HIDE DEF it
  <1> DEFINE f == [n \in 0 .. Len(cs) |-> it[1 .. n]]
  <1>10. f[0] = m
    <2>1. 1 .. 0 = {} /\ {} \in SUBSET (DOMAIN cs)
      OBVIOUS
    <2>2. it[1 .. 0] = m
      BY <1>9, <2>1
    <2> QED BY <1>2, <2>2
  <1>11. ASSUME NEW n \in 1 .. Len(cs) PROVE f[n] = Take(f[n - 1], cs[n])
    <2>1. /\ 1 .. n \in SUBSET (1 .. Len(cs)) /\ 1 .. n # {}
          /\ Max(1 .. n) = n /\ (1 .. n) \ {Max(1 .. n)} = 1 .. n - 1
      BY <1>2, MaxOfFirst
    <2>2. it[1 .. n] = Take(it[(1 .. n) \ {Max(1 .. n)}], cs[Max(1 .. n)])
      BY <1>2, <1>9, <2>1
    <2>3. it[1 .. n] = Take(it[1 .. n - 1], cs[n])
      BY <2>1, <2>2
    <2>4. n \in 0 .. Len(cs) /\ n - 1 \in 0 .. Len(cs)
      BY <1>2
    <2> QED BY <2>3, <2>4
  <1>12. f[Len(cs)] = it[DOMAIN cs]
    BY <1>2
  <1>13. f = [n \in 0 .. Len(cs) |-> f[n]]
    OBVIOUS
  <1> HIDE DEF f
  <1>14. \A n \in Nat : n <= Len(cs) => f[n] \in Splitters
    <2> DEFINE S == {n \in Nat : n <= Len(cs) => f[n] \in Splitters}
    <2>1. 0 \in S
      BY <1>10
    <2>2. ASSUME NEW n \in Nat, n \in S PROVE n + 1 \in S
      <3> SUFFICES ASSUME n + 1 <= Len(cs) PROVE f[n + 1] \in Splitters
        OBVIOUS
      <3>1. n <= Len(cs) /\ n + 1 \in 1 .. Len(cs) /\ (n + 1) - 1 = n
        BY <1>2
      <3>2. f[n] \in Splitters /\ cs[n + 1] \in Characters
        BY <2>2, <3>1, <1>2
      <3>3. f[n + 1] = Take(f[n], cs[n + 1])
        BY <3>1, <1>11
      <3> QED BY <3>2, <3>3, TakeKeeps
    <2> HIDE DEF S
    <2>3. \A n \in Nat : n \in S
      BY <2>1, <2>2, Climbing
    <2> QED BY <2>3 DEF S
  <1>15. f \in [0 .. Len(cs) -> Splitters]
    BY <1>2, <1>13, <1>14
  <1>16. f \in TakeRuns(m, cs)
    BY <1>10, <1>11, <1>15 DEF TakeRuns
  <1> QED BY <1>1, <1>12, <1>16

\* What Read makes of the characters of a line, one at a time.
ReadRuns(m, cs) ==
    {f \in [0 .. Len(cs) -> Readers] : f[0] = m /\ \A n \in 1 .. Len(cs) : f[n] = Read(f[n - 1], cs[n])}

LEMMA ReadOneByOne ==
    ASSUME NEW m \in Readers, NEW cs \in Seq(Signs)
    PROVE  \E f \in ReadRuns(m, cs) : FoldLeft(Read, m, cs) = f[Len(cs)]
  <1> DEFINE it == CHOOSE iter : iter = [K \in SUBSET (DOMAIN cs) |->
                                           IF K = {} THEN m ELSE Read(iter[K \ {Max(K)}], cs[Max(K)])]
             G == [n \in 1 .. Len(cs) |-> [x \in Readers |-> Read(x, cs[n])]]
  <1>1. FoldLeft(Read, m, cs) = it[DOMAIN cs]
    BY DEF FoldLeft, MapThenFoldSet
  <1>2. DOMAIN cs = 1 .. Len(cs) /\ Len(cs) \in Nat /\ \A n \in 1 .. Len(cs) : cs[n] \in Signs
    OBVIOUS
  <1>3. G \in [1 .. Len(cs) -> [Readers -> Readers]]
    BY <1>2, ReadKeeps
  <1>4. \A n \in 1 .. Len(cs) : \A x \in Readers : G[n][x] = Read(x, cs[n])
    OBVIOUS
  <1> HIDE DEF G
  <1>5. FoldsOf(Readers, m, Len(cs), G) # {}
    BY <1>2, <1>3, FoldExists
  <1>6. PICK h \in [SUBSET (1 .. Len(cs)) -> Readers] :
          \A K \in SUBSET (1 .. Len(cs)) : h[K] = IF K = {} THEN m ELSE G[Max(K)][h[K \ {Max(K)}]]
    BY <1>5 DEF FoldsOf
  <1>7. ASSUME NEW K \in SUBSET (DOMAIN cs)
        PROVE h[K] = IF K = {} THEN m ELSE Read(h[K \ {Max(K)}], cs[Max(K)])
    <2>1. CASE K = {}
      BY <1>2, <1>6, <2>1
    <2>2. CASE K # {}
      <3>1. Max(K) \in 1 .. Len(cs)
        BY <1>2, <2>2, HasMax
      <3>2. K \ {Max(K)} \in SUBSET (1 .. Len(cs))
        BY <1>2
      <3>3. h[K \ {Max(K)}] \in Readers
        BY <3>2
      <3>4. h[K] = G[Max(K)][h[K \ {Max(K)}]]
        BY <1>2, <1>6, <2>2
      <3> QED BY <2>2, <3>1, <3>3, <3>4, <1>4
    <2> QED BY <2>1, <2>2
  <1>8. h = [K \in SUBSET (DOMAIN cs) |-> IF K = {} THEN m ELSE Read(h[K \ {Max(K)}], cs[Max(K)])]
    BY <1>2, <1>7
  <1>9. it = [K \in SUBSET (DOMAIN cs) |-> IF K = {} THEN m ELSE Read(it[K \ {Max(K)}], cs[Max(K)])]
    BY <1>8
  <1> HIDE DEF it
  <1> DEFINE f == [n \in 0 .. Len(cs) |-> it[1 .. n]]
  <1>10. f[0] = m
    <2>1. 1 .. 0 = {} /\ {} \in SUBSET (DOMAIN cs)
      OBVIOUS
    <2>2. it[1 .. 0] = m
      BY <1>9, <2>1
    <2> QED BY <1>2, <2>2
  <1>11. ASSUME NEW n \in 1 .. Len(cs) PROVE f[n] = Read(f[n - 1], cs[n])
    <2>1. /\ 1 .. n \in SUBSET (1 .. Len(cs)) /\ 1 .. n # {}
          /\ Max(1 .. n) = n /\ (1 .. n) \ {Max(1 .. n)} = 1 .. n - 1
      BY <1>2, MaxOfFirst
    <2>2. it[1 .. n] = Read(it[(1 .. n) \ {Max(1 .. n)}], cs[Max(1 .. n)])
      BY <1>2, <1>9, <2>1
    <2>3. it[1 .. n] = Read(it[1 .. n - 1], cs[n])
      BY <2>1, <2>2
    <2>4. n \in 0 .. Len(cs) /\ n - 1 \in 0 .. Len(cs)
      BY <1>2
    <2> QED BY <2>3, <2>4
  <1>12. f[Len(cs)] = it[DOMAIN cs]
    BY <1>2
  <1>13. f = [n \in 0 .. Len(cs) |-> f[n]]
    OBVIOUS
  <1> HIDE DEF f
  <1>14. \A n \in Nat : n <= Len(cs) => f[n] \in Readers
    <2> DEFINE S == {n \in Nat : n <= Len(cs) => f[n] \in Readers}
    <2>1. 0 \in S
      BY <1>10
    <2>2. ASSUME NEW n \in Nat, n \in S PROVE n + 1 \in S
      <3> SUFFICES ASSUME n + 1 <= Len(cs) PROVE f[n + 1] \in Readers
        OBVIOUS
      <3>1. n <= Len(cs) /\ n + 1 \in 1 .. Len(cs) /\ (n + 1) - 1 = n
        BY <1>2
      <3>2. f[n] \in Readers /\ cs[n + 1] \in Signs
        BY <2>2, <3>1, <1>2
      <3>3. f[n + 1] = Read(f[n], cs[n + 1])
        BY <3>1, <1>11
      <3> QED BY <3>2, <3>3, ReadKeeps
    <2> HIDE DEF S
    <2>3. \A n \in Nat : n \in S
      BY <2>1, <2>2, Climbing
    <2> QED BY <2>3 DEF S
  <1>15. f \in [0 .. Len(cs) -> Readers]
    BY <1>2, <1>13, <1>14
  <1>16. f \in ReadRuns(m, cs)
    BY <1>10, <1>11, <1>15 DEF ReadRuns
  <1> QED BY <1>1, <1>12, <1>16

LEMMA QuotesNext ==
    ASSUME NEW line, NEW n \in Nat
    PROVE  /\ Quotes(line, 0) = 0 /\ Quotes(line, n) \in Nat
           /\ Quotes(line, n + 1) = Quotes(line, n) + (IF line[n + 1] = Quote THEN 1 ELSE 0)
  <1> DEFINE Q(i) == {j \in 1 .. i : line[j] = Quote}
  <1>1. Q(0) = {}
    OBVIOUS
  <1>2. IsFiniteSet(Q(n)) /\ Cardinality(Q(n)) \in Nat
    <2>1. IsFiniteSet(1 .. n)
      BY FS_Interval
    <2>2. Q(n) \in SUBSET (1 .. n)
      OBVIOUS
    <2>3. IsFiniteSet(Q(n))
      BY <2>1, <2>2, FS_Subset
    <2> QED BY <2>3, FS_CardinalityType
  <1>3. CASE line[n + 1] = Quote
    <2>1. Q(n + 1) = Q(n) \cup {n + 1}
      BY <1>3
    <2>2. n + 1 \notin Q(n)
      OBVIOUS
    <2> HIDE DEF Q
    <2>3. Cardinality(Q(n) \cup {n + 1}) = Cardinality(Q(n)) + 1
      BY <1>2, <2>2, FS_AddElement
    <2>4. Cardinality(Q(n + 1)) = Cardinality(Q(n)) + 1
      BY <2>1, <2>3
    <2>5. Quotes(line, n + 1) = Cardinality(Q(n + 1)) /\ Quotes(line, n) = Cardinality(Q(n))
          /\ Quotes(line, 0) = Cardinality(Q(0))
      BY DEF Quotes, Q
    <2> QED BY <1>1, <1>2, <1>3, <2>4, <2>5, FS_EmptySet
  <1>4. CASE line[n + 1] # Quote
    <2>1. Q(n + 1) = Q(n)
      BY <1>4
    <2>2. Quotes(line, n + 1) = Cardinality(Q(n + 1)) /\ Quotes(line, n) = Cardinality(Q(n))
          /\ Quotes(line, 0) = Cardinality(Q(0))
      BY DEF Quotes
    <2> HIDE DEF Q
    <2> QED BY <1>1, <1>2, <1>4, <2>1, <2>2, FS_EmptySet
  <1> QED BY <1>3, <1>4

\* The positions that begin two dashes outside of the strings of the line.
Starts(line) ==
    {i \in 1 .. Len(line) - 1 :
        /\ line[i] = Dash /\ line[i + 1] = Dash
        /\ Quotes(line, i - 1) % 2 = 0}

LEMMA CodeOfIs ==
    ASSUME NEW m \in Splitters, NEW line \in Seq(Characters)
    PROVE  /\ CodeOf(m, line) \in Seq(Characters) /\ Len(CodeOf(m, line)) <= Len(line)
           /\ \A i \in 1 .. Len(CodeOf(m, line)) : CodeOf(m, line)[i] = line[i]
           /\ m.inString \/ Starts(line) = {} => CodeOf(m, line) = line
           /\ ~m.inString /\ Starts(line) # {} =>
                /\ Len(CodeOf(m, line)) + 1 \in Starts(line)
                /\ \A i \in Starts(line) : Len(CodeOf(m, line)) + 1 <= i
  <1>1. CommentStart(line) = IF Starts(line) = {} THEN 0 ELSE Min(Starts(line))
    BY DEF CommentStart, Starts
  <1>2. Len(line) \in Nat /\ \A i \in 1 .. Len(line) : line[i] \in Characters
    OBVIOUS
  <1>3. m.inString \/ Starts(line) = {} => CodeOf(m, line) = line
    BY <1>1 DEF CodeOf
  <1>4. CASE m.inString \/ Starts(line) = {}
    BY <1>2, <1>3, <1>4
  <1>5. CASE ~m.inString /\ Starts(line) # {}
    <2>1. Starts(line) \in SUBSET (1 .. Len(line))
      BY <1>2 DEF Starts
    <2> DEFINE p == Min(Starts(line))
    <2>2. p \in Starts(line) /\ \A i \in Starts(line) : p <= i
      BY <1>2, <1>5, <2>1, HasMin
    <2>3. p \in 1 .. Len(line)
      BY <2>1, <2>2
    <2>4. CodeOf(m, line) = SubSeq(line, 1, p - 1)
      BY <1>1, <1>5, <2>3 DEF CodeOf
    <2> HIDE DEF p
    <2>5. p - 1 \in Int /\ \A i \in 1 .. p - 1 : line[i] \in Characters
      BY <1>2, <2>3
    <2>6. /\ SubSeq(line, 1, p - 1) \in Seq(Characters)
          /\ Len(SubSeq(line, 1, p - 1)) = IF 1 <= p - 1 THEN (p - 1) - 1 + 1 ELSE 0
          /\ \A i \in 1 .. (p - 1) - 1 + 1 : SubSeq(line, 1, p - 1)[i] = line[1 + i - 1]
      BY <2>5, SubSeqProperties
    <2>7. Len(CodeOf(m, line)) = p - 1
      BY <2>3, <2>4, <2>6
    <2>8. \A i \in 1 .. p - 1 : CodeOf(m, line)[i] = line[i]
      BY <2>3, <2>4, <2>6
    <2>9. Len(CodeOf(m, line)) + 1 = p /\ Len(CodeOf(m, line)) <= Len(line)
      BY <1>2, <2>3, <2>7
    <2> QED BY <1>5, <2>2, <2>4, <2>6, <2>7, <2>8, <2>9
  <1> QED BY <1>4, <1>5

\* The two sides agree, except for a dash that may begin a remark.
Same(m, r) ==
    /\ m.done = r.done /\ m.current = r.current
    /\ m.inString <=> r.mode = "string"
    /\ r.mode # "remark"

LEMMA StepSame ==
    ASSUME NEW m \in Splitters, NEW r \in Readers, NEW c \in Characters,
           Same(m, r), ~(c = Dash /\ r.mode = "dash")
    PROVE  Same(Take(m, c), Read(r, c)) /\ (Read(r, c).mode = "dash" => c = Dash)
  <1>1. r.mode \in {"code", "dash", "string"} /\ m.inString \in BOOLEAN
    BY DEF Readers, ReadModes, Splitters, Same
  <1>2. LET t == Take(m, c)
            in == IF c = Quote THEN ~m.inString ELSE m.inString
            ends == c = Semicolon /\ ~in
        IN  /\ t.inString = in
            /\ t.done = IF ends THEN Append(m.done, Append(m.current, c)) ELSE m.done
            /\ t.current = IF ends THEN <<>> ELSE Append(m.current, c)
    BY TakeGives
  <1>3. CASE r.mode = "string"
    <2>1. LET t == Read(r, c)
          IN  /\ t.done = r.done /\ t.current = Append(r.current, c)
              /\ t.mode = IF c = Quote THEN "code" ELSE "string"
      BY <1>3, ReadStringGives
    <2>2. m.inString = TRUE /\ m.done = r.done /\ m.current = r.current
      BY <1>1, <1>3 DEF Same
    <2> QED BY <1>2, <2>1, <2>2, SignsDiffer DEF Same
  <1>4. CASE r.mode # "string"
    <2>1. LET t == Read(r, c)
          IN  /\ t.done = IF c = Semicolon THEN Append(r.done, Append(r.current, c)) ELSE r.done
              /\ t.current = IF c = Semicolon THEN <<>> ELSE Append(r.current, c)
              /\ t.mode = IF c = Quote THEN "string" ELSE IF c = Dash THEN "dash" ELSE "code"
      BY <1>1, <1>4, ReadCodeGives
    <2>2. m.inString = FALSE /\ m.done = r.done /\ m.current = r.current
      BY <1>1, <1>4 DEF Same
    <2> QED BY <1>2, <2>1, <2>2, SignsDiffer DEF Same
  <1> QED BY <1>3, <1>4

\* Where the splitter is after n characters of a line, and the reader beside it.
Beside(m, line, f, g, n) ==
    /\ Same(f[n], g[n])
    /\ g[n].mode = "dash" => n >= 1 /\ line[n] = Dash
    /\ ~m.inString => (f[n].inString <=> Quotes(line, n) % 2 = 1)

LEMMA CodeSame ==
    ASSUME NEW m \in Splitters, NEW r \in Readers, NEW line \in Seq(Characters),
           Same(m, r), r.mode \in {"code", "string"}, ~(m.inString /\ TwoDashes(line)),
           NEW f \in TakeRuns(m, CodeOf(m, line)), NEW g \in ReadRuns(r, Append(line, Break))
    PROVE  \A n \in Nat : n <= Len(CodeOf(m, line)) => Beside(m, line, f, g, n)
  <1> DEFINE code == CodeOf(m, line)
  <1>1. /\ code \in Seq(Characters) /\ Len(code) <= Len(line)
        /\ \A i \in 1 .. Len(code) : code[i] = line[i]
        /\ m.inString \/ Starts(line) = {} => code = line
        /\ ~m.inString /\ Starts(line) # {} => \A i \in Starts(line) : Len(code) + 1 <= i
    BY CodeOfIs
  <1> HIDE DEF code
  <1>2. /\ f \in [0 .. Len(code) -> Splitters] /\ f[0] = m
        /\ \A n \in 1 .. Len(code) : f[n] = Take(f[n - 1], code[n])
    BY DEF TakeRuns, code
  <1>3. Len(code) \in Nat /\ Len(line) \in Nat /\ \A i \in 1 .. Len(line) : line[i] \in Characters
    BY <1>1
  <1>4. Len(Append(line, Break)) = Len(line) + 1 /\ \A i \in 1 .. Len(line) : Append(line, Break)[i] = line[i]
    OBVIOUS
  <1>5. /\ g \in [0 .. Len(line) + 1 -> Readers] /\ g[0] = r
        /\ \A n \in 1 .. Len(line) : g[n] = Read(g[n - 1], line[n])
    <2>1. /\ g \in [0 .. Len(Append(line, Break)) -> Readers] /\ g[0] = r
          /\ \A n \in 1 .. Len(Append(line, Break)) : g[n] = Read(g[n - 1], Append(line, Break)[n])
      BY DEF ReadRuns
    <2> QED BY <1>3, <1>4, <2>1
  <1> DEFINE S == {n \in Nat : n <= Len(code) => Beside(m, line, f, g, n)}
  <1>6. 0 \in S
    <2>1. Quotes(line, 0) = 0
      BY QuotesNext
    <2>2. Beside(m, line, f, g, 0)
      BY <1>2, <1>5, <2>1 DEF Beside
    <2> QED BY <2>2
  <1>7. ASSUME NEW n \in Nat, n \in S PROVE n + 1 \in S
    <2> SUFFICES ASSUME n + 1 <= Len(code) PROVE Beside(m, line, f, g, n + 1)
      OBVIOUS
    <2> DEFINE c == line[n + 1]
    <2>1. /\ n <= Len(code) /\ n + 1 \in 1 .. Len(code) /\ (n + 1) - 1 = n
          /\ n \in 0 .. Len(code) /\ n \in 0 .. Len(line) + 1 /\ n + 1 \in 1 .. Len(line)
      BY <1>1, <1>3
    <2>2. c \in Characters /\ f[n + 1] = Take(f[n], c) /\ g[n + 1] = Read(g[n], c)
      BY <1>1, <1>2, <1>3, <1>5, <2>1
    <2>3. f[n] \in Splitters /\ g[n] \in Readers
      BY <1>2, <1>5, <2>1
    <2>4. Beside(m, line, f, g, n)
      BY <1>7, <2>1
    <2>5. ~(c = Dash /\ g[n].mode = "dash")
      <3> SUFFICES ASSUME c = Dash, g[n].mode = "dash" PROVE FALSE
        OBVIOUS
      <3>1. n >= 1 /\ line[n] = Dash /\ line[n + 1] = Dash
        BY <2>4 DEF Beside
      <3>2. n \in 1 .. Len(line) - 1
        BY <1>3, <2>1, <3>1
      <3>3. TwoDashes(line)
        BY <3>1, <3>2 DEF TwoDashes
      <3>4. ~m.inString
        BY <3>3
      <3>5. ~f[n].inString
        BY <2>4 DEF Beside, Same
      <3>6. Quotes(line, n) % 2 # 1
        BY <2>4, <3>4, <3>5 DEF Beside
      <3>7. PICK k \in Nat : k = n - 1 /\ k + 1 = n
        BY <3>1
      <3>8. Quotes(line, k + 1) = Quotes(line, k) + (IF line[k + 1] = Quote THEN 1 ELSE 0) /\ Quotes(line, k) \in Nat
        BY QuotesNext
      <3>9. Quotes(line, n - 1) = Quotes(line, n) /\ Quotes(line, n) \in Nat
        BY <3>1, <3>7, <3>8, SignsDiffer
      <3>10. Quotes(line, n - 1) % 2 = 0
        BY <3>6, <3>9
      <3>11. n \in Starts(line)
        BY <3>1, <3>2, <3>10 DEF Starts
      <3>12. Len(code) + 1 <= n
        BY <1>1, <3>4, <3>11
      <3> QED BY <1>3, <2>1, <3>12
    <2>6. Same(f[n], g[n])
      BY <2>4 DEF Beside
    <2>7. Same(f[n + 1], g[n + 1]) /\ (g[n + 1].mode = "dash" => c = Dash)
      BY <2>2, <2>3, <2>5, <2>6, StepSame
    <2>8. ASSUME ~m.inString PROVE f[n + 1].inString <=> Quotes(line, n + 1) % 2 = 1
      <3>1. f[n].inString <=> Quotes(line, n) % 2 = 1
        BY <2>4, <2>8 DEF Beside
      <3>2. f[n + 1].inString = IF c = Quote THEN ~f[n].inString ELSE f[n].inString
        BY <2>2, <2>3, TakeGives
      <3>3. Quotes(line, n) \in Nat /\ Quotes(line, n + 1) = Quotes(line, n) + (IF c = Quote THEN 1 ELSE 0)
        BY QuotesNext
      <3>4. PICK q \in Nat : q = Quotes(line, n)
        BY <3>3
      <3>5. (q + 1) % 2 = 1 <=> ~(q % 2 = 1)
        OBVIOUS
      <3>6. f[n].inString \in BOOLEAN
        BY <2>3 DEF Splitters
      <3>7. CASE c = Quote
        <4>1. Quotes(line, n + 1) = q + 1 /\ f[n + 1].inString = ~f[n].inString
          BY <3>2, <3>3, <3>4, <3>7
        <4> QED BY <3>1, <3>4, <3>5, <3>6, <4>1
      <3>8. CASE c # Quote
        <4>1. Quotes(line, n + 1) = q /\ f[n + 1].inString = f[n].inString
          BY <3>2, <3>3, <3>4, <3>8
        <4> QED BY <3>1, <3>4, <4>1
      <3> QED BY <3>7, <3>8
    <2>9. n + 1 >= 1
      OBVIOUS
    <2> QED BY <2>7, <2>8, <2>9 DEF Beside
  <1> HIDE DEF S
  <1>8. \A n \in Nat : n \in S
    BY <1>6, <1>7, Climbing
  <1> QED BY <1>8 DEF S, code

LEMMA TakeLineKeeps ==
    ASSUME NEW m \in Splitters, NEW c \in Seq(Characters)
    PROVE  TakeLine(m, c) \in Splitters
  <1> DEFINE s == CodeOf(m, c)
  <1>1. s \in Seq(Characters)
    BY CodeOfIs
  <1> HIDE DEF s
  <1>2. PICK f \in TakeRuns(m, s) : FoldLeft(Take, m, s) = f[Len(s)]
    BY <1>1, TakeOneByOne
  <1>3. f \in [0 .. Len(s) -> Splitters]
    BY DEF TakeRuns
  <1>4. Len(s) \in 0 .. Len(s)
    BY <1>1
  <1>5. FoldLeft(Take, m, s) \in Splitters
    BY <1>2, <1>3, <1>4
  <1> QED BY <1>5 DEF TakeLine, s

LEMMA BreakEnds ==
    ASSUME NEW line \in Seq(Characters)
    PROVE  Append(line, Break) \in Seq(Signs) /\ Len(Append(line, Break)) = Len(line) + 1
  <1>1. line \in Seq(Signs) /\ Break \in Signs
    BY DEF Signs
  <1> QED BY <1>1

LEMMA ReadLineKeeps ==
    ASSUME NEW m \in Readers, NEW c \in Seq(Characters)
    PROVE  ReadLine(m, c) \in Readers
  <1> DEFINE s == Append(c, Break)
  <1>1. s \in Seq(Signs)
    BY BreakEnds
  <1> HIDE DEF s
  <1>2. PICK f \in ReadRuns(m, s) : FoldLeft(Read, m, s) = f[Len(s)]
    BY <1>1, ReadOneByOne
  <1>3. f \in [0 .. Len(s) -> Readers]
    BY DEF ReadRuns
  <1>4. Len(s) \in 0 .. Len(s)
    BY <1>1
  <1>5. FoldLeft(Read, m, s) \in Readers
    BY <1>2, <1>3, <1>4
  <1> QED BY <1>5 DEF ReadLine, s

\* A line leaves both sides alike, unless it has two dashes and began in a string.
LEMMA LineSame ==
    ASSUME NEW m \in Splitters, NEW r \in Readers, NEW line \in Seq(Characters),
           Same(m, r), r.mode \in {"code", "string"}, ~(m.inString /\ TwoDashes(line))
    PROVE  Same(TakeLine(m, line), ReadLine(r, line)) /\ ReadLine(r, line).mode \in {"code", "string"}
  <1> DEFINE code == CodeOf(m, line)
             s == Append(line, Break)
             K == Len(CodeOf(m, line))
  <1>1. /\ code \in Seq(Characters) /\ K <= Len(line)
        /\ m.inString \/ Starts(line) = {} => code = line
        /\ ~m.inString /\ Starts(line) # {} => K + 1 \in Starts(line) /\ \A i \in Starts(line) : K + 1 <= i
    BY CodeOfIs
  <1>2. K \in Nat /\ Len(line) \in Nat
    BY <1>1
  <1>3. PICK f \in TakeRuns(m, CodeOf(m, line)) : FoldLeft(Take, m, CodeOf(m, line)) = f[Len(CodeOf(m, line))]
    BY <1>1, TakeOneByOne
  <1>4. s \in Seq(Signs) /\ Len(s) = Len(line) + 1 /\ s[Len(line) + 1] = Break /\ \A i \in 1 .. Len(line) : s[i] = line[i]
    BY BreakEnds
  <1>5. PICK g \in ReadRuns(r, Append(line, Break)) :
           FoldLeft(Read, r, Append(line, Break)) = g[Len(Append(line, Break))]
    BY <1>4, ReadOneByOne
  <1>6. \A n \in Nat : n <= Len(CodeOf(m, line)) => Beside(m, line, f, g, n)
    BY CodeSame
  <1>7. TakeLine(m, line) = f[K] /\ ReadLine(r, line) = g[Len(line) + 1]
    BY <1>3, <1>4, <1>5 DEF TakeLine, ReadLine
  <1>8. f[K] \in Splitters
    BY <1>2 DEF TakeRuns
  <1>9. /\ g \in [0 .. Len(line) + 1 -> Readers]
        /\ \A n \in 1 .. Len(line) : g[n] = Read(g[n - 1], line[n])
        /\ g[Len(line) + 1] = Read(g[Len(line)], Break)
    <2>1. /\ g \in [0 .. Len(s) -> Readers]
          /\ \A n \in 1 .. Len(s) : g[n] = Read(g[n - 1], s[n])
      BY DEF ReadRuns
    <2>2. Len(line) + 1 \in 1 .. Len(s) /\ (Len(line) + 1) - 1 = Len(line)
      BY <1>2, <1>4
    <2>3. g[Len(line) + 1] = Read(g[(Len(line) + 1) - 1], s[Len(line) + 1])
      BY <2>1, <2>2
    <2> HIDE DEF s
    <2> QED BY <1>2, <1>4, <2>1, <2>2, <2>3
  <1>10. Beside(m, line, f, g, K)
    BY <1>2, <1>6
  <1> HIDE DEF code, s, K
  <1>11. g[Len(line)] \in Readers /\ g[K] \in Readers
    BY <1>1, <1>2, <1>9
  <1>12. ASSUME NEW x \in Readers
         PROVE  /\ Read(x, Break).done = x.done /\ Read(x, Break).current = x.current
                /\ Read(x, Break).mode = IF x.mode = "string" THEN "string" ELSE "code"
    BY ReadRemarkGives
  <1>13. Same(f[K], g[K])
    BY <1>10 DEF Beside
  <1>14. CASE m.inString \/ Starts(line) = {}
    <2>1. K = Len(line)
      BY <1>1, <1>14 DEF K, code
    <2>2. /\ g[Len(line) + 1].done = g[K].done /\ g[Len(line) + 1].current = g[K].current
          /\ g[Len(line) + 1].mode = IF g[K].mode = "string" THEN "string" ELSE "code"
      BY <1>9, <1>11, <1>12, <2>1
    <2> QED BY <1>7, <1>13, <2>2 DEF Same
  <1>15. CASE ~m.inString /\ Starts(line) # {}
    <2>1. K + 1 \in Starts(line) /\ \A i \in Starts(line) : K + 1 <= i
      BY <1>1, <1>15
    <2>2. /\ K + 1 \in 1 .. Len(line) - 1 /\ line[K + 1] = Dash /\ line[(K + 1) + 1] = Dash
          /\ Quotes(line, (K + 1) - 1) % 2 = 0
      BY <2>1 DEF Starts
    <2>3. (K + 1) - 1 = K /\ (K + 1) + 1 = K + 2 /\ K + 2 \in 1 .. Len(line) /\ K + 1 \in 1 .. Len(line)
          /\ (K + 2) - 1 = K + 1
      BY <1>2, <2>2
    <2>4. f[K].inString <=> Quotes(line, K) % 2 = 1
      BY <1>10, <1>15 DEF Beside
    <2>5. ~f[K].inString
      BY <2>2, <2>3, <2>4
    <2>6. g[K].mode \in {"code", "dash"}
      BY <1>11, <1>13, <2>5 DEF Same, Readers, ReadModes
    <2>7. g[K].mode = "code"
      <3> SUFFICES ASSUME g[K].mode = "dash" PROVE FALSE
        BY <2>6
      <3>1. K >= 1 /\ line[K] = Dash
        BY <1>10 DEF Beside
      <3>2. K \in 1 .. Len(line) - 1
        BY <1>2, <2>2, <3>1
      <3>3. PICK k \in Nat : k = K - 1 /\ k + 1 = K
        BY <1>2, <3>1
      <3>4. Quotes(line, k + 1) = Quotes(line, k) + (IF line[k + 1] = Quote THEN 1 ELSE 0) /\ Quotes(line, k) \in Nat
        BY QuotesNext
      <3>5. Quotes(line, K - 1) = Quotes(line, K)
        BY <3>1, <3>3, <3>4, SignsDiffer
      <3>6. K \in Starts(line)
        BY <2>2, <2>3, <3>1, <3>2, <3>5 DEF Starts
      <3> QED BY <1>2, <2>1, <3>6
    <2>8. g[K + 1] = Read(g[K], Dash) /\ g[K + 2] = Read(g[K + 1], Dash)
      BY <1>9, <2>2, <2>3
    <2>9. ASSUME NEW x \in Readers, x.mode = "code"
          PROVE  /\ Read(x, Dash) \in Readers /\ Read(x, Dash).done = x.done
                 /\ Read(x, Dash).current = Append(x.current, Dash) /\ Read(x, Dash).mode = "dash"
                 /\ Read(Read(x, Dash), Dash) \in Readers /\ Read(Read(x, Dash), Dash).done = x.done
                 /\ Read(Read(x, Dash), Dash).current = Front(Append(x.current, Dash))
                 /\ Read(Read(x, Dash), Dash).mode = "remark"
      <3>1. /\ Read(x, Dash) \in Readers /\ Read(x, Dash).done = x.done
            /\ Read(x, Dash).current = Append(x.current, Dash) /\ Read(x, Dash).mode = "dash"
        BY <2>9, ReadCodeGives, SignsDiffer
      <3>2. PICK y \in Readers : y = Read(x, Dash)
        BY <3>1
      <3>3. /\ Read(y, Dash) \in Readers /\ Read(y, Dash).done = y.done
            /\ Read(y, Dash).current = Front(y.current) /\ Read(y, Dash).mode = "remark"
        BY <3>1, <3>2, ReadRemarkGives
      <3> QED BY <3>1, <3>2, <3>3
    <2>10. /\ g[K + 2] \in Readers /\ g[K + 2].done = g[K].done
           /\ g[K + 2].current = Front(Append(g[K].current, Dash)) /\ g[K + 2].mode = "remark"
      BY <1>11, <2>7, <2>8, <2>9
    <2>11. g[K].current \in Seq(Characters)
      BY <1>11 DEF Readers
    <2>12. g[K + 2].current = g[K].current
      BY <2>10, <2>11, FrontIs, SignsDiffer
    <2> DEFINE S == {n \in Nat : K + 2 <= n /\ n <= Len(line) => g[n] = g[K + 2]}
    <2>13. 0 \in S
      BY <1>2
    <2>14. ASSUME NEW n \in Nat, n \in S PROVE n + 1 \in S
      <3> SUFFICES ASSUME K + 2 <= n + 1, n + 1 <= Len(line) PROVE g[n + 1] = g[K + 2]
        OBVIOUS
      <3>1. CASE K + 2 = n + 1
        BY <3>1
      <3>2. CASE K + 2 # n + 1
        <4>1. K + 2 <= n /\ n <= Len(line) /\ n + 1 \in 1 .. Len(line) /\ (n + 1) - 1 = n
          BY <1>2, <3>2
        <4>2. g[n] = g[K + 2] /\ g[n + 1] = Read(g[n], line[n + 1])
          BY <1>9, <2>14, <4>1
        <4>3. line[n + 1] \in Characters
          BY <4>1
        <4>4. Read(g[K + 2], line[n + 1]) = g[K + 2]
          BY <2>10, <4>3, ReadRemarkGives
        <4> QED BY <4>2, <4>4
      <3> QED BY <3>1, <3>2
    <2> HIDE DEF S
    <2>15. Len(line) \in S
      BY <1>2, <2>13, <2>14, Climbing
    <2>16. g[Len(line)] = g[K + 2]
      BY <1>2, <2>3, <2>15 DEF S
    <2>17. /\ g[Len(line) + 1].done = g[K].done /\ g[Len(line) + 1].current = g[K].current
           /\ g[Len(line) + 1].mode = "code"
      BY <1>9, <1>12, <2>10, <2>12, <2>16
    <2> QED BY <1>7, <1>13, <2>5, <2>17 DEF Same
  <1>16. m.inString \in BOOLEAN
    BY DEF Splitters
  <1> QED BY <1>14, <1>15, <1>16

\* What TakeLine makes of the lines of a file, one at a time.
TakeLineRuns(m, cs) ==
    {f \in [0 .. Len(cs) -> Splitters] : f[0] = m /\ \A n \in 1 .. Len(cs) : f[n] = TakeLine(f[n - 1], cs[n])}

LEMMA TakeLineOneByOne ==
    ASSUME NEW m \in Splitters, NEW cs \in Seq(Seq(Characters))
    PROVE  \E f \in TakeLineRuns(m, cs) : FoldLeft(TakeLine, m, cs) = f[Len(cs)]
  <1> DEFINE it == CHOOSE iter : iter = [K \in SUBSET (DOMAIN cs) |->
                                           IF K = {} THEN m ELSE TakeLine(iter[K \ {Max(K)}], cs[Max(K)])]
             G == [n \in 1 .. Len(cs) |-> [x \in Splitters |-> TakeLine(x, cs[n])]]
  <1>1. FoldLeft(TakeLine, m, cs) = it[DOMAIN cs]
    BY DEF FoldLeft, MapThenFoldSet
  <1>2. DOMAIN cs = 1 .. Len(cs) /\ Len(cs) \in Nat /\ \A n \in 1 .. Len(cs) : cs[n] \in Seq(Characters)
    OBVIOUS
  <1>3. G \in [1 .. Len(cs) -> [Splitters -> Splitters]]
    BY <1>2, TakeLineKeeps
  <1>4. \A n \in 1 .. Len(cs) : \A x \in Splitters : G[n][x] = TakeLine(x, cs[n])
    OBVIOUS
  <1> HIDE DEF G
  <1>5. FoldsOf(Splitters, m, Len(cs), G) # {}
    BY <1>2, <1>3, FoldExists
  <1>6. PICK h \in [SUBSET (1 .. Len(cs)) -> Splitters] :
          \A K \in SUBSET (1 .. Len(cs)) : h[K] = IF K = {} THEN m ELSE G[Max(K)][h[K \ {Max(K)}]]
    BY <1>5 DEF FoldsOf
  <1>7. ASSUME NEW K \in SUBSET (DOMAIN cs)
        PROVE h[K] = IF K = {} THEN m ELSE TakeLine(h[K \ {Max(K)}], cs[Max(K)])
    <2>1. CASE K = {}
      BY <1>2, <1>6, <2>1
    <2>2. CASE K # {}
      <3>1. Max(K) \in 1 .. Len(cs)
        BY <1>2, <2>2, HasMax
      <3>2. K \ {Max(K)} \in SUBSET (1 .. Len(cs))
        BY <1>2
      <3>3. h[K \ {Max(K)}] \in Splitters
        BY <3>2
      <3>4. h[K] = G[Max(K)][h[K \ {Max(K)}]]
        BY <1>2, <1>6, <2>2
      <3> QED BY <2>2, <3>1, <3>3, <3>4, <1>4
    <2> QED BY <2>1, <2>2
  <1>8. h = [K \in SUBSET (DOMAIN cs) |-> IF K = {} THEN m ELSE TakeLine(h[K \ {Max(K)}], cs[Max(K)])]
    BY <1>2, <1>7
  <1>9. it = [K \in SUBSET (DOMAIN cs) |-> IF K = {} THEN m ELSE TakeLine(it[K \ {Max(K)}], cs[Max(K)])]
    BY <1>8
  <1> HIDE DEF it
  <1> DEFINE f == [n \in 0 .. Len(cs) |-> it[1 .. n]]
  <1>10. f[0] = m
    <2>1. 1 .. 0 = {} /\ {} \in SUBSET (DOMAIN cs)
      OBVIOUS
    <2>2. it[1 .. 0] = m
      BY <1>9, <2>1
    <2> QED BY <1>2, <2>2
  <1>11. ASSUME NEW n \in 1 .. Len(cs) PROVE f[n] = TakeLine(f[n - 1], cs[n])
    <2>1. /\ 1 .. n \in SUBSET (1 .. Len(cs)) /\ 1 .. n # {}
          /\ Max(1 .. n) = n /\ (1 .. n) \ {Max(1 .. n)} = 1 .. n - 1
      BY <1>2, MaxOfFirst
    <2>2. it[1 .. n] = TakeLine(it[(1 .. n) \ {Max(1 .. n)}], cs[Max(1 .. n)])
      BY <1>2, <1>9, <2>1
    <2>3. it[1 .. n] = TakeLine(it[1 .. n - 1], cs[n])
      BY <2>1, <2>2
    <2>4. n \in 0 .. Len(cs) /\ n - 1 \in 0 .. Len(cs)
      BY <1>2
    <2> QED BY <2>3, <2>4
  <1>12. f[Len(cs)] = it[DOMAIN cs]
    BY <1>2
  <1>13. f = [n \in 0 .. Len(cs) |-> f[n]]
    OBVIOUS
  <1> HIDE DEF f
  <1>14. \A n \in Nat : n <= Len(cs) => f[n] \in Splitters
    <2> DEFINE S == {n \in Nat : n <= Len(cs) => f[n] \in Splitters}
    <2>1. 0 \in S
      BY <1>10
    <2>2. ASSUME NEW n \in Nat, n \in S PROVE n + 1 \in S
      <3> SUFFICES ASSUME n + 1 <= Len(cs) PROVE f[n + 1] \in Splitters
        OBVIOUS
      <3>1. n <= Len(cs) /\ n + 1 \in 1 .. Len(cs) /\ (n + 1) - 1 = n
        BY <1>2
      <3>2. f[n] \in Splitters /\ cs[n + 1] \in Seq(Characters)
        BY <2>2, <3>1, <1>2
      <3>3. f[n + 1] = TakeLine(f[n], cs[n + 1])
        BY <3>1, <1>11
      <3> QED BY <3>2, <3>3, TakeLineKeeps
    <2> HIDE DEF S
    <2>3. \A n \in Nat : n \in S
      BY <2>1, <2>2, Climbing
    <2> QED BY <2>3 DEF S
  <1>15. f \in [0 .. Len(cs) -> Splitters]
    BY <1>2, <1>13, <1>14
  <1>16. f \in TakeLineRuns(m, cs)
    BY <1>10, <1>11, <1>15 DEF TakeLineRuns
  <1> QED BY <1>1, <1>12, <1>16

\* What ReadLine makes of the lines of a file, one at a time.
ReadLineRuns(m, cs) ==
    {f \in [0 .. Len(cs) -> Readers] : f[0] = m /\ \A n \in 1 .. Len(cs) : f[n] = ReadLine(f[n - 1], cs[n])}

LEMMA ReadLineOneByOne ==
    ASSUME NEW m \in Readers, NEW cs \in Seq(Seq(Characters))
    PROVE  \E f \in ReadLineRuns(m, cs) : FoldLeft(ReadLine, m, cs) = f[Len(cs)]
  <1> DEFINE it == CHOOSE iter : iter = [K \in SUBSET (DOMAIN cs) |->
                                           IF K = {} THEN m ELSE ReadLine(iter[K \ {Max(K)}], cs[Max(K)])]
             G == [n \in 1 .. Len(cs) |-> [x \in Readers |-> ReadLine(x, cs[n])]]
  <1>1. FoldLeft(ReadLine, m, cs) = it[DOMAIN cs]
    BY DEF FoldLeft, MapThenFoldSet
  <1>2. DOMAIN cs = 1 .. Len(cs) /\ Len(cs) \in Nat /\ \A n \in 1 .. Len(cs) : cs[n] \in Seq(Characters)
    OBVIOUS
  <1>3. G \in [1 .. Len(cs) -> [Readers -> Readers]]
    BY <1>2, ReadLineKeeps
  <1>4. \A n \in 1 .. Len(cs) : \A x \in Readers : G[n][x] = ReadLine(x, cs[n])
    OBVIOUS
  <1> HIDE DEF G
  <1>5. FoldsOf(Readers, m, Len(cs), G) # {}
    BY <1>2, <1>3, FoldExists
  <1>6. PICK h \in [SUBSET (1 .. Len(cs)) -> Readers] :
          \A K \in SUBSET (1 .. Len(cs)) : h[K] = IF K = {} THEN m ELSE G[Max(K)][h[K \ {Max(K)}]]
    BY <1>5 DEF FoldsOf
  <1>7. ASSUME NEW K \in SUBSET (DOMAIN cs)
        PROVE h[K] = IF K = {} THEN m ELSE ReadLine(h[K \ {Max(K)}], cs[Max(K)])
    <2>1. CASE K = {}
      BY <1>2, <1>6, <2>1
    <2>2. CASE K # {}
      <3>1. Max(K) \in 1 .. Len(cs)
        BY <1>2, <2>2, HasMax
      <3>2. K \ {Max(K)} \in SUBSET (1 .. Len(cs))
        BY <1>2
      <3>3. h[K \ {Max(K)}] \in Readers
        BY <3>2
      <3>4. h[K] = G[Max(K)][h[K \ {Max(K)}]]
        BY <1>2, <1>6, <2>2
      <3> QED BY <2>2, <3>1, <3>3, <3>4, <1>4
    <2> QED BY <2>1, <2>2
  <1>8. h = [K \in SUBSET (DOMAIN cs) |-> IF K = {} THEN m ELSE ReadLine(h[K \ {Max(K)}], cs[Max(K)])]
    BY <1>2, <1>7
  <1>9. it = [K \in SUBSET (DOMAIN cs) |-> IF K = {} THEN m ELSE ReadLine(it[K \ {Max(K)}], cs[Max(K)])]
    BY <1>8
  <1> HIDE DEF it
  <1> DEFINE f == [n \in 0 .. Len(cs) |-> it[1 .. n]]
  <1>10. f[0] = m
    <2>1. 1 .. 0 = {} /\ {} \in SUBSET (DOMAIN cs)
      OBVIOUS
    <2>2. it[1 .. 0] = m
      BY <1>9, <2>1
    <2> QED BY <1>2, <2>2
  <1>11. ASSUME NEW n \in 1 .. Len(cs) PROVE f[n] = ReadLine(f[n - 1], cs[n])
    <2>1. /\ 1 .. n \in SUBSET (1 .. Len(cs)) /\ 1 .. n # {}
          /\ Max(1 .. n) = n /\ (1 .. n) \ {Max(1 .. n)} = 1 .. n - 1
      BY <1>2, MaxOfFirst
    <2>2. it[1 .. n] = ReadLine(it[(1 .. n) \ {Max(1 .. n)}], cs[Max(1 .. n)])
      BY <1>2, <1>9, <2>1
    <2>3. it[1 .. n] = ReadLine(it[1 .. n - 1], cs[n])
      BY <2>1, <2>2
    <2>4. n \in 0 .. Len(cs) /\ n - 1 \in 0 .. Len(cs)
      BY <1>2
    <2> QED BY <2>3, <2>4
  <1>12. f[Len(cs)] = it[DOMAIN cs]
    BY <1>2
  <1>13. f = [n \in 0 .. Len(cs) |-> f[n]]
    OBVIOUS
  <1> HIDE DEF f
  <1>14. \A n \in Nat : n <= Len(cs) => f[n] \in Readers
    <2> DEFINE S == {n \in Nat : n <= Len(cs) => f[n] \in Readers}
    <2>1. 0 \in S
      BY <1>10
    <2>2. ASSUME NEW n \in Nat, n \in S PROVE n + 1 \in S
      <3> SUFFICES ASSUME n + 1 <= Len(cs) PROVE f[n + 1] \in Readers
        OBVIOUS
      <3>1. n <= Len(cs) /\ n + 1 \in 1 .. Len(cs) /\ (n + 1) - 1 = n
        BY <1>2
      <3>2. f[n] \in Readers /\ cs[n + 1] \in Seq(Characters)
        BY <2>2, <3>1, <1>2
      <3>3. f[n + 1] = ReadLine(f[n], cs[n + 1])
        BY <3>1, <1>11
      <3> QED BY <3>2, <3>3, ReadLineKeeps
    <2> HIDE DEF S
    <2>3. \A n \in Nat : n \in S
      BY <2>1, <2>2, Climbing
    <2> QED BY <2>3 DEF S
  <1>15. f \in [0 .. Len(cs) -> Readers]
    BY <1>2, <1>13, <1>14
  <1>16. f \in ReadLineRuns(m, cs)
    BY <1>10, <1>11, <1>15 DEF ReadLineRuns
  <1> QED BY <1>1, <1>12, <1>16

\* The first lines of a file leave the splitter where it was after them.
LEMMA FirstLines ==
    ASSUME NEW lines \in Seq(Seq(Characters)), NEW f \in TakeLineRuns(Fresh, lines),
           NEW i \in 0 .. Len(lines)
    PROVE  FoldLeft(TakeLine, Fresh, SubSeq(lines, 1, i)) = f[i]
  <1> DEFINE s == SubSeq(lines, 1, i)
  <1>1. Len(lines) \in Nat /\ \A n \in 1 .. Len(lines) : lines[n] \in Seq(Characters)
    OBVIOUS
  <1>2. i \in Nat /\ \A n \in 1 .. i : lines[n] \in Seq(Characters)
    BY <1>1
  <1>3. /\ s \in Seq(Seq(Characters))
        /\ Len(s) = IF 1 <= i THEN i - 1 + 1 ELSE 0
        /\ \A n \in 1 .. i - 1 + 1 : s[n] = lines[1 + n - 1]
    BY <1>2, SubSeqProperties
  <1> HIDE DEF s
  <1>4. Len(s) = i /\ \A n \in 1 .. i : s[n] = lines[n]
    BY <1>2, <1>3
  <1>5. Fresh \in Splitters
    BY DEF Fresh, Splitters
  <1>6. PICK h \in TakeLineRuns(Fresh, s) : FoldLeft(TakeLine, Fresh, s) = h[Len(s)]
    BY <1>3, <1>5, TakeLineOneByOne
  <1>7. h[0] = Fresh /\ \A n \in 1 .. i : h[n] = TakeLine(h[n - 1], lines[n])
    BY <1>4 DEF TakeLineRuns
  <1>8. f[0] = Fresh /\ \A n \in 1 .. Len(lines) : f[n] = TakeLine(f[n - 1], lines[n])
    BY DEF TakeLineRuns
  <1> DEFINE S == {n \in Nat : n <= i => h[n] = f[n]}
  <1>9. 0 \in S
    BY <1>7, <1>8
  <1>10. ASSUME NEW n \in Nat, n \in S PROVE n + 1 \in S
    <2> SUFFICES ASSUME n + 1 <= i PROVE h[n + 1] = f[n + 1]
      OBVIOUS
    <2>1. n <= i /\ n + 1 \in 1 .. i /\ n + 1 \in 1 .. Len(lines) /\ (n + 1) - 1 = n
      BY <1>1, <1>2
    <2>2. h[n] = f[n]
      BY <1>10, <2>1
    <2> QED BY <1>7, <1>8, <2>1, <2>2
  <1> HIDE DEF S
  <1>11. i \in S
    BY <1>2, <1>9, <1>10, Climbing
  <1>12. h[i] = f[i]
    BY <1>2, <1>11 DEF S
  <1> QED BY <1>4, <1>6, <1>12 DEF s

LEMMA FileSame ==
    ASSUME NEW lines \in Seq(Seq(Characters)), ~DashesAfterString(lines)
    PROVE  Split(lines) = Statements(lines)
  <1>1. Len(lines) \in Nat /\ \A n \in 1 .. Len(lines) : lines[n] \in Seq(Characters)
    OBVIOUS
  <1>2. Fresh \in Splitters /\ Fresh.inString = FALSE /\ Fresh.done = <<>> /\ Fresh.current = <<>>
    BY DEF Fresh, Splitters
  <1>3. FreshReader \in Readers /\ FreshReader.mode = "code" /\ FreshReader.done = <<>> /\ FreshReader.current = <<>>
    BY DEF FreshReader, Readers, ReadModes
  <1>4. PICK f \in TakeLineRuns(Fresh, lines) : FoldLeft(TakeLine, Fresh, lines) = f[Len(lines)]
    BY <1>2, TakeLineOneByOne
  <1>5. PICK g \in ReadLineRuns(FreshReader, lines) : FoldLeft(ReadLine, FreshReader, lines) = g[Len(lines)]
    BY <1>3, ReadLineOneByOne
  <1>6. /\ f \in [0 .. Len(lines) -> Splitters] /\ f[0] = Fresh
        /\ \A n \in 1 .. Len(lines) : f[n] = TakeLine(f[n - 1], lines[n])
    BY DEF TakeLineRuns
  <1>7. /\ g \in [0 .. Len(lines) -> Readers] /\ g[0] = FreshReader
        /\ \A n \in 1 .. Len(lines) : g[n] = ReadLine(g[n - 1], lines[n])
    BY DEF ReadLineRuns
  <1> DEFINE Alike(n) == Same(f[n], g[n]) /\ g[n].mode \in {"code", "string"}
             S == {n \in Nat : n <= Len(lines) => Alike(n)}
  <1>8. 0 \in S
    <2>1. Alike(0)
      BY <1>2, <1>3, <1>6, <1>7 DEF Same
    <2> QED BY <2>1
  <1>9. ASSUME NEW n \in Nat, n \in S PROVE n + 1 \in S
    <2> SUFFICES ASSUME n + 1 <= Len(lines) PROVE Alike(n + 1)
      OBVIOUS
    <2>1. n <= Len(lines) /\ n + 1 \in 1 .. Len(lines) /\ (n + 1) - 1 = n /\ n \in 0 .. Len(lines)
      BY <1>1
    <2>2. Same(f[n], g[n]) /\ g[n].mode \in {"code", "string"}
      BY <1>9, <2>1
    <2>3. f[n] \in Splitters /\ g[n] \in Readers /\ lines[n + 1] \in Seq(Characters)
      BY <1>1, <1>6, <1>7, <2>1
    <2>4. FoldLeft(TakeLine, Fresh, SubSeq(lines, 1, n)) = f[n]
      BY <2>1, FirstLines
    <2>5. ~(f[n].inString /\ TwoDashes(lines[n + 1]))
      <3>1. n + 1 \in DOMAIN lines
        BY <2>1
      <3>2. ~(TwoDashes(lines[n + 1]) /\ FoldLeft(TakeLine, Fresh, SubSeq(lines, 1, (n + 1) - 1)).inString)
        BY <3>1 DEF DashesAfterString
      <3>3. FoldLeft(TakeLine, Fresh, SubSeq(lines, 1, (n + 1) - 1)) = f[n]
        BY <2>1, <2>4
      <3> QED BY <3>2, <3>3
    <2>6. /\ Same(TakeLine(f[n], lines[n + 1]), ReadLine(g[n], lines[n + 1]))
          /\ ReadLine(g[n], lines[n + 1]).mode \in {"code", "string"}
      BY <2>2, <2>3, <2>5, LineSame
    <2>7. f[n + 1] = TakeLine(f[n], lines[n + 1]) /\ g[n + 1] = ReadLine(g[n], lines[n + 1])
      BY <1>6, <1>7, <2>1
    <2> QED BY <2>6, <2>7
  <1> HIDE DEF S
  <1>10. Len(lines) \in S
    BY <1>1, <1>8, <1>9, Climbing
  <1>11. Same(f[Len(lines)], g[Len(lines)])
    BY <1>1, <1>10 DEF S
  <1>12. f[Len(lines)] \in Splitters
    BY <1>1, <1>6
  <1>13. EndStatement(f[Len(lines)]).done = IF f[Len(lines)].current = <<>> THEN f[Len(lines)].done
                                            ELSE Append(f[Len(lines)].done, f[Len(lines)].current)
    BY <1>12, EndKeepsSplitters
  <1>14. Split(lines) = EndStatement(f[Len(lines)]).done
    BY <1>4 DEF Split
  <1>15. Statements(lines) = IF g[Len(lines)].current = <<>> THEN g[Len(lines)].done
                             ELSE Append(g[Len(lines)].done, g[Len(lines)].current)
    BY <1>5 DEF Statements
  <1> QED BY <1>11, <1>13, <1>14, <1>15 DEF Same

\* Whatever is in a migration file, it is taken apart into its statements, without
\* its comments, unless two dashes are on a line that began inside a string
\* (_split_sql_statements).
THEOREM FilesAreSplitRight ==
    ASSUME NEW lines \in Seq(Seq(Characters))
    PROVE  DashesAfterString(lines) \/ Split(lines) = Statements(lines)
  BY FileSame

=============================================================================
