----------------------- MODULE ReflectiveLearningProofs -----------------------
(***************************************************************************)
(* Proofs about ReflectiveLearning for every number of artifacts, workers, *)
(* observations and crashes, with leases that hold or are outlived.        *)
(***************************************************************************)
EXTENDS ReflectiveLearning, FiniteSetTheorems, SequenceTheorems, TLAPS

\* Where a worker has a proposal in hand.
Handling == {"insert", "artifact", "event", "decide", "apply", "mark", "verdict",
             "conclude", "close"}

HandIsRight(me) ==
    /\ me.at \in Handling => me.cur \in Proposals
    /\ me.at \in {"scan", "due"} => me.row = NoRow
    /\ me.at = "decide" => me.row.status = "candidate"
    /\ me.at \in {"apply", "mark"} => me.row.status = "approved"
    /\ me.at = "conclude" => me.row.status = "under_test"
    /\ me.at \in {"ready", "decide", "apply", "mark"} =>
         \A item \in me.listed : item[2].status \in {"candidate", "approved"}

HandsAreRight == \A w \in Workers : HandIsRight(work[w])

\* The rows that a worker has read.
Held(me) == me.listed \cup {<<me.cur, me.row>>}

\* A row that was read is the row of the table, or the table has gone on.
IsOld(p, r) ==
    /\ r.version = Version(r.status)
    /\ r = proposal[p] \/ r.version < proposal[p].version

RowsAreOld ==
    \A w \in Workers : \A item \in Held(work[w]) :
        item[2] # NoRow => item[1] \in Proposals /\ IsOld(item[1], item[2])

Approved(p) == decisions[p] # << >> /\ decisions[p][1] = "approve"

\* What passed the gates keeps passing them.
GatesWerePassed ==
    /\ \A p \in Proposals : Approved(p) => PassesGates(p)
    /\ \A w \in Workers :
         At(w, "decide") /\ work[w].passed => PassesGates(work[w].cur)

\* An effect needs an approval.
EffectsNeedApproval ==
    /\ \A p \in Proposals :
         /\ p \in memories \/ experiment[p].status # "absent" => Approved(p)
         /\ experiment[p].status # "absent" => p[2] = "policy"
         /\ proposal[p].status = "applied" => p[2] = "memory"
         /\ proposal[p].status = "under_test" => experiment[p].status # "absent"
    /\ \A w \in Workers :
         At(w, "mark") => work[w].cur[2] = "memory" \/ experiment[work[w].cur].status # "absent"

\* An outcome is about an event of its experiment, and a positive one about an
\* event that was.
WasSaid(p, o) ==
    /\ experiment[p].status # "absent"
    /\ o[1] <= Len(feedback)
    /\ \E i \in experiment[p].started + 1 .. o[1] : o[2] => feedback[i] = 1

\* What a worker evaluates: running experiments, and then a verdict that is on
\* record.
JudgesRight(me) ==
    /\ me.heard <= Len(feedback)
    /\ me.at \in Evaluating => \A item \in me.listed : experiment[item[1]].status # "absent"
    /\ me.at \in {"verdict", "conclude", "close"} => \E o \in outcomes[me.cur] : o[2] = me.passed
    /\ me.at = "conclude" => "outcome" \in evidence[me.cur]

VerdictIsOnRecord ==
    /\ \A p \in Proposals : \A o \in outcomes[p] : WasSaid(p, o)
    /\ \A w \in Workers : JudgesRight(work[w])
    /\ \A p \in Proposals :
         proposal[p].status \in {"confirmed", "rolled_back"} =>
            /\ "outcome" \in evidence[p]
            /\ \E o \in outcomes[p] : o[2] = (proposal[p].status = "confirmed")

\* Without a crash, an experiment whose policy is not under test yet is being
\* started: it is not due, nobody evaluates it, and it is not closed before its
\* policy has been judged.
Starting(p) ==
    /\ experiment[p].status = "running"
    /\ ~experiment[p].due
    /\ \E w \in Workers : At(w, "mark") /\ work[w].cur = p

TestsAreFinished ==
    crashes = 0 =>
        /\ \A p \in Proposals :
             /\ experiment[p].due => experiment[p].status = "running"
             /\ experiment[p].status # "absent" => proposal[p].version >= 3 \/ Starting(p)
             /\ experiment[p].status = "completed" => proposal[p].version = 4
        /\ \A w \in Workers :
             /\ work[w].at \in Evaluating =>
                  \A item \in work[w].listed : proposal[item[1]].version >= 3
             /\ work[w].at \in {"verdict", "conclude"} => proposal[work[w].cur].version >= 3
             /\ At(w, "close") => proposal[work[w].cur].version = 4

LearningInv ==
    /\ HandsAreRight
    /\ HistoryIsTold
    /\ RowsAreOld
    /\ GatesWerePassed
    /\ EffectsNeedApproval
    /\ VerdictIsOnRecord
    /\ TestsAreFinished
-----------------------------------------------------------------------------
\* The statuses and versions of the rows.
LEMMA Versions ==
    /\ Version("absent") = 0
    /\ Version("candidate") = 1
    /\ Version("approved") = 2 /\ Version("rejected") = 2
    /\ Version("applied") = 3 /\ Version("under_test") = 3
    /\ Version("confirmed") = 4 /\ Version("rolled_back") = 4
  BY DEF Version

LEMMA Histories ==
    /\ History("absent") = << >>
    /\ History("candidate") = << >>
    /\ History("rejected") = <<"reject">>
    /\ History("approved") = <<"approve">>
    /\ History("applied") = <<"approve">> /\ History("under_test") = <<"approve">>
    /\ History("confirmed") = <<"approve", "approve">>
    /\ History("rolled_back") = <<"approve", "rollback">>
  BY DEF History

\* What a worker has in hand where it writes.
LEMMA InHand ==
    ASSUME TypeOK, HandsAreRight, RowsAreOld, NEW w \in Workers
    PROVE  /\ work[w] \in Work
           /\ work[w].at \in Handling => work[w].cur \in Proposals
           /\ At(w, "decide") =>
                work[w].row = [status |-> "candidate", version |-> 1]
           /\ work[w].at \in {"apply", "mark"} =>
                work[w].row = [status |-> "approved", version |-> 2]
           /\ At(w, "conclude") =>
                work[w].row = [status |-> "under_test", version |-> 3]
           /\ work[w].at \in {"decide", "apply", "mark", "conclude"} =>
                IsOld(work[w].cur, work[w].row)
  <1>1. work[w] \in Work /\ work[w].row \in Rows
    BY DEF TypeOK, Work
  <1>2. work[w].at \in Handling => work[w].cur \in Proposals
    BY DEF HandsAreRight, HandIsRight, At
  <1>3. /\ At(w, "decide") => work[w].row.status = "candidate"
        /\ work[w].at \in {"apply", "mark"} => work[w].row.status = "approved"
        /\ At(w, "conclude") => work[w].row.status = "under_test"
    BY DEF HandsAreRight, HandIsRight, At
  <1>4. work[w].row # NoRow => IsOld(work[w].cur, work[w].row)
    <2> DEFINE item == <<work[w].cur, work[w].row>>
    <2>1. item \in Held(work[w]) /\ item[1] = work[w].cur /\ item[2] = work[w].row
      BY DEF Held
    <2> HIDE DEF item
    <2> QED BY <2>1 DEF RowsAreOld
  <1>5. ASSUME work[w].at \in {"decide", "apply", "mark", "conclude"}
        PROVE  IsOld(work[w].cur, work[w].row)
    BY <1>3, <1>4, <1>5 DEF At, NoRow
  <1>6. work[w].row = [status |-> work[w].row.status, version |-> work[w].row.version]
    BY <1>1 DEF Rows
  <1> QED BY <1>1, <1>2, <1>3, <1>5, <1>6, Versions DEF At, IsOld

-----------------------------------------------------------------------------
LEMMA AppendToOne ==
    ASSUME NEW S, NEW x \in S, NEW y \in S
    PROVE  Append(<<x>>, y) = <<x, y>>
  <1>1. /\ <<x>> \in Seq(S) /\ Len(<<x>>) = 1
        /\ <<x, y>> \in Seq(S) /\ Len(<<x, y>>) = 2
    OBVIOUS
  <1>2. /\ Append(<<x>>, y) \in Seq(S) /\ Len(Append(<<x>>, y)) = 2
        /\ Append(<<x>>, y)[1] = x /\ Append(<<x>>, y)[2] = y
    BY <1>1, AppendProperties
  <1>3. \A i \in 1 .. 2 : Append(<<x>>, y)[i] = <<x, y>>[i]
    <2>1. \A i \in 1 .. 2 : i = 1 \/ i = 2
      OBVIOUS
    <2> QED BY <1>2, <2>1
  <1> QED BY <1>1, <1>2, <1>3, SeqEqual

\* A proposal takes one of its legal steps, which the decisions tell.
Legal == {<<"absent", "candidate">>, <<"candidate", "approved">>, <<"candidate", "rejected">>,
          <<"approved", "applied">>, <<"approved", "under_test">>,
          <<"under_test", "confirmed">>, <<"under_test", "rolled_back">>}

Change(p, from, to) ==
    /\ proposal[p].status = from
    /\ proposal' = [proposal EXCEPT ![p] = [status |-> to, version |-> Version(to)]]
    /\ decisions' = [decisions EXCEPT ![p] = History(to)]

LEMMA InsertChanges ==
    ASSUME TypeOK, HandsAreRight, HistoryIsTold, NEW w \in Workers, InsertProposal(w)
    PROVE  /\ work[w].cur \in Proposals
           /\ Change(work[w].cur, "absent", "candidate")
  <1>1. work[w].cur \in Proposals
    BY DEF HandsAreRight, HandIsRight, InsertProposal, At, Handling
  <1>2. decisions[work[w].cur] = << >>
    BY <1>1, Histories DEF HistoryIsTold, InsertProposal, Missing
  <1>3. decisions' = [decisions EXCEPT ![work[w].cur] = << >>]
    BY <1>1, <1>2 DEF InsertProposal, TypeOK
  <1> QED BY <1>1, <1>3, Versions, Histories DEF Change, InsertProposal, Missing

\* Who takes which step.
Why(p, to) ==
    /\ to = "approved" => \E w \in Workers :
         At(w, "decide") /\ work[w].cur = p /\ work[w].passed
    /\ to = "applied" => p[2] = "memory"
    /\ to = "under_test" => \E w \in Workers :
         At(w, "mark") /\ work[w].cur = p /\ p[2] # "memory"
    /\ to \in {"confirmed", "rolled_back"} => \E w \in Workers :
         At(w, "conclude") /\ work[w].cur = p /\ work[w].passed = (to = "confirmed")

LEMMA MoveChanges ==
    ASSUME NEW w \in Workers, NEW from, NEW to,
           work[w].row.version + 1 = Version(to),
           proposal[work[w].cur].status = from,
           proposal' = [proposal EXCEPT ![work[w].cur] = Moved(w, to)],
           decisions' = [decisions EXCEPT ![work[w].cur] = History(to)]
    PROVE  Change(work[w].cur, from, to)
  <1>1. Moved(w, to) = [status |-> to, version |-> Version(to)]
    BY DEF Moved
  <1> QED BY <1>1 DEF Change

LEMMA AppendChanges ==
    ASSUME NEW w \in Workers, NEW from, NEW to, NEW d,
           work[w].row.version + 1 = Version(to),
           proposal[work[w].cur].status = from,
           Append(decisions[work[w].cur], d) = History(to),
           AppendDecision(w, d, to)
    PROVE  Change(work[w].cur, from, to)
  BY MoveChanges DEF AppendDecision

LEMMA DecideChanges ==
    ASSUME TypeOK, HandsAreRight, HistoryIsTold, RowsAreOld, NEW w \in Workers, Decide(w)
    PROVE  /\ work[w].cur \in Proposals
           /\ Change(work[w].cur, "candidate", IF work[w].passed THEN "approved" ELSE "rejected")
  <1>1. /\ work[w].cur \in Proposals
        /\ work[w].row = [status |-> "candidate", version |-> 1]
        /\ proposal[work[w].cur] = work[w].row
    BY InHand DEF Decide, At, Handling, Unchanged, IsOld
  <1>2. decisions[work[w].cur] = << >>
    BY <1>1, Histories DEF HistoryIsTold
  <1>3. Append(<< >>, "approve") = <<"approve">> /\ Append(<< >>, "reject") = <<"reject">>
    OBVIOUS
  <1>4. work[w].row.version + 1 = 2
    BY <1>1
  <1>5. CASE work[w].passed
    <2>1. AppendDecision(w, "approve", "approved")
      BY <1>5 DEF Decide
    <2>2. Change(work[w].cur, "candidate", "approved")
      <3>1. Append(decisions[work[w].cur], "approve") = History("approved")
        BY <1>2, <1>3, Histories
      <3>2. work[w].row.version + 1 = Version("approved")
        BY <1>4, Versions
      <3>3. proposal[work[w].cur].status = "candidate"
        BY <1>1
      <3> QED BY <2>1, <3>1, <3>2, <3>3, AppendChanges
    <2> QED BY <1>1, <1>5, <2>2
  <1>6. CASE ~work[w].passed
    <2>1. AppendDecision(w, "reject", "rejected")
      BY <1>6 DEF Decide
    <2>2. Change(work[w].cur, "candidate", "rejected")
      <3>1. Append(decisions[work[w].cur], "reject") = History("rejected")
        BY <1>2, <1>3, Histories
      <3>2. work[w].row.version + 1 = Version("rejected")
        BY <1>4, Versions
      <3>3. proposal[work[w].cur].status = "candidate"
        BY <1>1
      <3> QED BY <2>1, <3>1, <3>2, <3>3, AppendChanges
    <2> QED BY <1>1, <1>6, <2>2
  <1> QED BY <1>5, <1>6

LEMMA MarkChanges ==
    ASSUME TypeOK, HandsAreRight, HistoryIsTold, RowsAreOld, NEW w \in Workers, Mark(w)
    PROVE  /\ work[w].cur \in Proposals
           /\ Change(work[w].cur, "approved",
                     IF work[w].cur[2] = "memory" THEN "applied" ELSE "under_test")
  <1>1. /\ work[w].cur \in Proposals
        /\ work[w].row = [status |-> "approved", version |-> 2]
        /\ proposal[work[w].cur] = work[w].row
    BY InHand DEF Mark, At, Handling, Unchanged, IsOld
  <1>2. decisions[work[w].cur] = <<"approve">>
    BY <1>1, Histories DEF HistoryIsTold
  <1>3. decisions' = [decisions EXCEPT ![work[w].cur] = <<"approve">>]
    BY <1>1, <1>2 DEF Mark, TypeOK
  <1>4. work[w].row.version + 1 = 3
    BY <1>1
  <1>5. CASE work[w].cur[2] = "memory"
    <2>1. proposal' = [proposal EXCEPT ![work[w].cur] = Moved(w, "applied")]
      BY <1>5 DEF Mark
    <2>2. Change(work[w].cur, "approved", "applied")
      <3>1. decisions' = [decisions EXCEPT ![work[w].cur] = History("applied")]
        BY <1>3, Histories
      <3>2. work[w].row.version + 1 = Version("applied")
        BY <1>4, Versions
      <3>3. proposal[work[w].cur].status = "approved"
        BY <1>1
      <3> QED BY <2>1, <3>1, <3>2, <3>3, MoveChanges
    <2> QED BY <1>1, <1>5, <2>2
  <1>6. CASE work[w].cur[2] # "memory"
    <2>1. proposal' = [proposal EXCEPT ![work[w].cur] = Moved(w, "under_test")]
      BY <1>6 DEF Mark
    <2>2. Change(work[w].cur, "approved", "under_test")
      <3>1. decisions' = [decisions EXCEPT ![work[w].cur] = History("under_test")]
        BY <1>3, Histories
      <3>2. work[w].row.version + 1 = Version("under_test")
        BY <1>4, Versions
      <3>3. proposal[work[w].cur].status = "approved"
        BY <1>1
      <3> QED BY <2>1, <3>1, <3>2, <3>3, MoveChanges
    <2> QED BY <1>1, <1>6, <2>2
  <1> QED BY <1>5, <1>6

LEMMA ConcludeChanges ==
    ASSUME TypeOK, HandsAreRight, HistoryIsTold, RowsAreOld, NEW w \in Workers, Conclude(w)
    PROVE  /\ work[w].cur \in Proposals
           /\ Change(work[w].cur, "under_test",
                     IF work[w].passed THEN "confirmed" ELSE "rolled_back")
  <1>1. /\ work[w].cur \in Proposals
        /\ work[w].row = [status |-> "under_test", version |-> 3]
        /\ proposal[work[w].cur] = work[w].row
    BY InHand DEF Conclude, At, Handling, Unchanged, IsOld
  <1>2. decisions[work[w].cur] = <<"approve">>
    BY <1>1, Histories DEF HistoryIsTold
  <1>3. /\ Append(<<"approve">>, "approve") = <<"approve", "approve">>
        /\ Append(<<"approve">>, "rollback") = <<"approve", "rollback">>
    <2>1. "approve" \in {"approve", "rollback"} /\ "rollback" \in {"approve", "rollback"}
      OBVIOUS
    <2> QED BY <2>1, AppendToOne
  <1>4. work[w].row.version + 1 = 4
    BY <1>1
  <1>5. CASE work[w].passed
    <2>1. AppendDecision(w, "approve", "confirmed")
      BY <1>5 DEF Conclude
    <2>2. Change(work[w].cur, "under_test", "confirmed")
      <3>1. Append(decisions[work[w].cur], "approve") = History("confirmed")
        BY <1>2, <1>3, Histories
      <3>2. work[w].row.version + 1 = Version("confirmed")
        BY <1>4, Versions
      <3>3. proposal[work[w].cur].status = "under_test"
        BY <1>1
      <3> QED BY <2>1, <3>1, <3>2, <3>3, AppendChanges
    <2> QED BY <1>1, <1>5, <2>2
  <1>6. CASE ~work[w].passed
    <2>1. AppendDecision(w, "rollback", "rolled_back")
      BY <1>6 DEF Conclude
    <2>2. Change(work[w].cur, "under_test", "rolled_back")
      <3>1. Append(decisions[work[w].cur], "rollback") = History("rolled_back")
        BY <1>2, <1>3, Histories
      <3>2. work[w].row.version + 1 = Version("rolled_back")
        BY <1>4, Versions
      <3>3. proposal[work[w].cur].status = "under_test"
        BY <1>1
      <3> QED BY <2>1, <3>1, <3>2, <3>3, AppendChanges
    <2> QED BY <1>1, <1>6, <2>2
  <1> QED BY <1>5, <1>6

LEMMA TableStep ==
    ASSUME TypeOK, HandsAreRight, HistoryIsTold, RowsAreOld, [Next]_vars
    PROVE  \/ UNCHANGED <<proposal, decisions>>
           \/ \E p \in Proposals, c \in Legal : Change(p, c[1], c[2]) /\ Why(p, c[2])
  <1> DEFINE Goal == \/ UNCHANGED <<proposal, decisions>>
                     \/ \E p \in Proposals, c \in Legal : Change(p, c[1], c[2]) /\ Why(p, c[2])
  <1>1. ASSUME NEW p \in Proposals, NEW from, NEW to, <<from, to>> \in Legal,
               Change(p, from, to), Why(p, to)
        PROVE  Goal
    <2>1. <<from, to>>[1] = from /\ <<from, to>>[2] = to
      OBVIOUS
    <2> QED BY <1>1, <2>1
  <1>2. ASSUME NEW w \in Workers, InsertProposal(w) PROVE Goal
    <2>1. <<"absent", "candidate">> \in Legal
      BY DEF Legal
    <2>2. Why(work[w].cur, "candidate")
      BY DEF Why
    <2> QED BY <1>1, <1>2, <2>1, <2>2, InsertChanges
  <1>3. ASSUME NEW w \in Workers, Decide(w) PROVE Goal
    <2> DEFINE to == IF work[w].passed THEN "approved" ELSE "rejected"
    <2>1. <<"candidate", to>> \in Legal
      BY DEF Legal
    <2>2. Why(work[w].cur, to)
      BY <1>3 DEF Why, Decide
    <2> QED BY <1>1, <1>3, <2>1, <2>2, DecideChanges
  <1>4. ASSUME NEW w \in Workers, Mark(w) PROVE Goal
    <2> DEFINE to == IF work[w].cur[2] = "memory" THEN "applied" ELSE "under_test"
    <2>1. <<"approved", to>> \in Legal
      BY DEF Legal
    <2>2. Why(work[w].cur, to)
      BY <1>4 DEF Why, Mark
    <2> QED BY <1>1, <1>4, <2>1, <2>2, MarkChanges
  <1>5. ASSUME NEW w \in Workers, Conclude(w) PROVE Goal
    <2> DEFINE to == IF work[w].passed THEN "confirmed" ELSE "rolled_back"
    <2>1. <<"under_test", to>> \in Legal
      BY DEF Legal
    <2>2. Why(work[w].cur, to)
      <3>1. work[w].passed \in BOOLEAN
        BY DEF TypeOK, Work
      <3> QED BY <1>5, <3>1 DEF Why, Conclude
    <2> QED BY <1>1, <1>5, <2>1, <2>2, ConcludeChanges
  <1>6. ASSUME NEW w \in Workers,
               \/ BeginConsolidate(w) \/ BeginEvaluate(w) \/ InsertConflict(w)
               \/ AttachArtifact(w) \/ AttachEvent(w) \/ List(w) \/ Take(w) \/ ApplyMemory(w)
               \/ StartExperiment(w) \/ ConsolidateDone(w) \/ Conflict(w) \/ ReadProposal(w)
               \/ Close(w) \/ EvaluateDone(w) \/ Crash(w) \/ Overrun(w)
        PROVE  Goal
    BY <1>6 DEF BeginConsolidate, BeginEvaluate, InsertConflict, AttachArtifact, AttachEvent,
                List, Take, ApplyMemory, StartExperiment, ConsolidateDone, Conflict,
                ReadProposal, Close, EvaluateDone, Crash, Overrun
  <1>7. ASSUME NEW w \in Workers, NEW item \in work[w].listed,
               Propose(w, item) \/ Postpone(w, item) \/ InsertOutcome(w, item)
        PROVE  Goal
    BY <1>7 DEF Propose, Postpone, InsertOutcome
  <1>8. CASE \/ \E a \in Artifacts : Schedule(a)
             \/ \E p \in Proposals : BecomesDue(p)
             \/ \E signal \in Said : UserSays(signal)
             \/ UNCHANGED vars
    BY <1>8 DEF Schedule, BecomesDue, UserSays, vars
  <1> QED BY <1>2, <1>3, <1>4, <1>5, <1>6, <1>7, <1>8 DEF Next, Proceeds

\* So the decisions keep telling the history.
LEMMA HistoryStep ==
    ASSUME TypeOK, HandsAreRight, HistoryIsTold, RowsAreOld, [Next]_vars
    PROVE  HistoryIsTold'
  <1>1. CASE UNCHANGED <<proposal, decisions>>
    BY <1>1 DEF HistoryIsTold
  <1>2. ASSUME NEW p \in Proposals, NEW c \in Legal, Change(p, c[1], c[2])
        PROVE  HistoryIsTold'
    BY <1>2 DEF HistoryIsTold, Change, TypeOK
  <1> QED BY <1>1, <1>2, TableStep

\* A row that changes gets a higher version.
LEMMA VersionsGrow ==
    ASSUME TypeOK, HandsAreRight, HistoryIsTold, RowsAreOld, [Next]_vars, NEW p \in Proposals
    PROVE  /\ proposal[p].version \in Nat /\ proposal'[p].version \in Nat
           /\ proposal'[p] = proposal[p] \/ proposal'[p].version > proposal[p].version
  <1>1. proposal[p].version \in Nat /\ proposal[p].version = Version(proposal[p].status)
    <2>1. proposal[p] \in Rows
      BY DEF TypeOK
    <2> QED BY <2>1 DEF Rows, HistoryIsTold
  <1>2. CASE UNCHANGED <<proposal, decisions>>
    BY <1>1, <1>2
  <1>3. ASSUME NEW q \in Proposals, NEW c \in Legal, Change(q, c[1], c[2])
        PROVE  /\ proposal'[p].version \in Nat
               /\ proposal'[p] = proposal[p] \/ proposal'[p].version > proposal[p].version
    <2>1. Version(c[1]) \in Nat /\ Version(c[2]) \in Nat /\ Version(c[2]) > Version(c[1])
      BY Versions DEF Legal
    <2> QED BY <1>1, <1>3, <2>1 DEF Change, TypeOK
  <1> QED BY <1>1, <1>2, <1>3, TableStep

\* What was approved stays approved.
LEMMA ApprovedStays ==
    ASSUME TypeOK, HandsAreRight, HistoryIsTold, RowsAreOld, [Next]_vars, NEW p \in Proposals,
           Approved(p)
    PROVE  Approved(p)'
  <1>1. CASE UNCHANGED <<proposal, decisions>>
    BY <1>1 DEF Approved
  <1>2. ASSUME NEW q \in Proposals, NEW c \in Legal, Change(q, c[1], c[2])
        PROVE  Approved(p)'
    <2>1. p = q => c[1] \in {"approved", "under_test"}
      <3>1. decisions[p] = History(proposal[p].status) /\ proposal[q].status = c[1]
        BY <1>2 DEF HistoryIsTold, Change
      <3> QED BY <3>1, Histories DEF Approved, Legal
    <2>2. p = q => decisions'[p] = History(c[2]) /\ History(c[2]) # << >>
                     /\ History(c[2])[1] = "approve"
      BY <1>2, <2>1, Histories DEF Change, Legal, TypeOK
    <2> QED BY <1>2, <2>2 DEF Approved, Change, TypeOK
  <1> QED BY <1>1, <1>2, TableStep

-----------------------------------------------------------------------------
\* A worker turns to something else, and its entry stays what it is.
LEMMA GoType ==
    ASSUME TypeOK, NEW w \in Workers, NEW me \in Work, Go(w, me)
    PROVE  work' \in [Workers -> Work]
  BY DEF TypeOK, Go

LEMMA IdleType == Idle \in Work
  BY LearningAssumption DEF Idle, Work, Rows, NoRow, Statuses

LEMMA TurnType ==
    ASSUME TypeOK, NEW w \in Workers, NEW place \in Consolidating \cup Evaluating,
           Turn(w, place)
    PROVE  work' \in [Workers -> Work]
  <1>1. [work[w] EXCEPT !.at = place, !.cur = NoProposal, !.row = NoRow, !.passed = FALSE]
          \in Work
    <2>1. work[w] \in Work /\ NoRow \in Rows
      BY DEF TypeOK, Rows, NoRow, Statuses
    <2> QED BY <2>1 DEF Work
  <1> QED BY <1>1, GoType DEF Turn

LEMMA ItemTypes ==
    ASSUME TypeOK, NEW w \in Workers, NEW item \in work[w].listed
    PROVE  item[1] \in Proposals /\ item[2] \in Rows /\ item = <<item[1], item[2]>>
  BY DEF TypeOK, Work

Experiments ==
    [status : {"absent", "running", "completed"}, due : BOOLEAN,
     started : 0 .. MaxFeedback, conclusion : {"none", "positive", "other"}]

LEMMA TableTypes ==
    ASSUME TypeOK, HandsAreRight, HistoryIsTold, RowsAreOld, [Next]_vars
    PROVE  /\ proposal' \in [Proposals -> Rows]
           /\ decisions' \in [Proposals -> Seq({"approve", "reject", "rollback"})]
           /\ \A p \in Proposals : Len(decisions'[p]) <= 2
  <1>1. CASE UNCHANGED <<proposal, decisions>>
    BY <1>1 DEF TypeOK
  <1>2. ASSUME NEW p \in Proposals, NEW c \in Legal, Change(p, c[1], c[2])
        PROVE  /\ proposal' \in [Proposals -> Rows]
               /\ decisions' \in [Proposals -> Seq({"approve", "reject", "rollback"})]
               /\ \A q \in Proposals : Len(decisions'[q]) <= 2
    <2>1. [status |-> c[2], version |-> Version(c[2])] \in Rows
      BY Versions DEF Rows, Statuses, Legal
    <2>2. /\ History(c[2]) \in Seq({"approve", "reject", "rollback"})
          /\ Len(History(c[2])) <= 2
      <3>1. \A h \in {<< >>, <<"reject">>, <<"approve">>, <<"approve", "approve">>,
                      <<"approve", "rollback">>} :
              h \in Seq({"approve", "reject", "rollback"}) /\ Len(h) <= 2
        <4>1. /\ << >> \in Seq({"approve", "reject", "rollback"}) /\ Len(<< >>) <= 2
              /\ <<"reject">> \in Seq({"approve", "reject", "rollback"}) /\ Len(<<"reject">>) <= 2
              /\ <<"approve">> \in Seq({"approve", "reject", "rollback"})
              /\ Len(<<"approve">>) <= 2
          OBVIOUS
        <4>2. /\ <<"approve", "approve">> \in Seq({"approve", "reject", "rollback"})
              /\ Len(<<"approve", "approve">>) <= 2
              /\ <<"approve", "rollback">> \in Seq({"approve", "reject", "rollback"})
              /\ Len(<<"approve", "rollback">>) <= 2
          OBVIOUS
        <4> QED BY <4>1, <4>2
      <3>2. History(c[2]) \in {<< >>, <<"reject">>, <<"approve">>, <<"approve", "approve">>,
                               <<"approve", "rollback">>}
        BY Histories DEF Legal
      <3> QED BY <3>1, <3>2
    <2> QED BY <1>2, <2>1, <2>2 DEF Change, TypeOK
  <1> QED BY <1>1, <1>2, TableStep

\* Whoever counts enough observations has heard something.
LEMMA HeardSome ==
    ASSUME TypeOK, NEW w \in Workers, NEW p \in Proposals, Len(Signals(w, p)) >= MinObservations
    PROVE  /\ work[w].heard \in 1 .. MaxFeedback
           /\ experiment[p].started \in Nat
           /\ experiment[p].started + 1 <= work[w].heard
  <1>1. work[w].heard \in 0 .. MaxFeedback /\ experiment[p].started \in 0 .. MaxFeedback
    BY DEF TypeOK, Work
  <1>2. MinObservations \in Int /\ MinObservations >= 1 /\ MaxFeedback \in Nat
    BY LearningAssumption
  <1>3. CASE work[w].heard < experiment[p].started + 1
    <2>1. Signals(w, p) = << >>
      BY <1>1, <1>2, <1>3, SubSeqEmpty DEF Signals
    <2> QED BY <1>2, <2>1
  <1> QED BY <1>1, <1>2, <1>3

LEMMA TypeStep ==
    ASSUME TypeOK, HandsAreRight, HistoryIsTold, RowsAreOld, [Next]_vars
    PROVE  TypeOK'
  <1> USE DEF reflection, trial, faults
  <1>0. /\ \A w \in Workers : work[w] \in Work
        /\ Idle \in Work /\ NoRow \in Rows
    BY IdleType DEF TypeOK, Rows, NoRow, Statuses
  <1>x. experiment \in [Proposals -> Experiments]
    BY DEF TypeOK, Experiments
  <1>t. /\ proposal' \in [Proposals -> Rows]
        /\ decisions' \in [Proposals -> Seq({"approve", "reject", "rollback"})]
        /\ \A p \in Proposals : Len(decisions'[p]) <= 2
    BY TableTypes
  <1>1. ASSUME NEW a \in Artifacts, Schedule(a) PROVE TypeOK'
    <2>1. wanted' \in SUBSET Proposals /\ strong' \in SUBSET Proposals
      BY <1>1 DEF TypeOK, Schedule, Proposals
    <2>2. run' \in [Artifacts -> {"none", "completed", "skipped"}]
      BY <1>1 DEF TypeOK, Schedule
    <2> QED BY <1>1, <2>1, <2>2 DEF TypeOK, Schedule
  <1>2. ASSUME NEW w \in Workers, BeginConsolidate(w) PROVE TypeOK'
    <2>1. [Idle EXCEPT !.at = "scan", !.listed = {<<p, NoRow>> : p \in wanted}] \in Work
      <3>1. {<<p, NoRow>> : p \in wanted} \in SUBSET (Proposals \X Rows)
        BY <1>0 DEF TypeOK
      <3> QED BY <1>0, <3>1 DEF Work, Consolidating
    <2>2. work' \in [Workers -> Work]
      BY <1>2, <2>1, GoType DEF BeginConsolidate
    <2> QED BY <1>2, <2>2 DEF TypeOK, BeginConsolidate
  <1>3. ASSUME NEW w \in Workers, NEW item \in work[w].listed, Propose(w, item) PROVE TypeOK'
    <2>1. item[1] \in Proposals
      BY ItemTypes
    <2>2. /\ [work[w] EXCEPT !.at = "insert", !.cur = item[1], !.listed = @ \ {item}] \in Work
          /\ [work[w] EXCEPT !.listed = @ \ {item}] \in Work
      BY <1>0, <2>1 DEF Work, Consolidating
    <2>3. work' \in [Workers -> Work]
      BY <1>3, <2>2, GoType DEF Propose
    <2> QED BY <1>3, <2>3 DEF TypeOK, Propose
  <1>4. ASSUME NEW w \in Workers, InsertProposal(w) PROVE TypeOK'
    <2>1. [work[w] EXCEPT !.at = "artifact"] \in Work
      BY <1>0 DEF Work, Consolidating
    <2>2. work' \in [Workers -> Work]
      BY <1>4, <2>1, GoType DEF InsertProposal
    <2>3. proposal' \in [Proposals -> Rows]
      <3>1. [status |-> "candidate", version |-> 1] \in Rows
        BY DEF Rows, Statuses
      <3> QED BY <1>4, <3>1 DEF TypeOK, InsertProposal
    <2> QED BY <1>4, <2>2, <2>3 DEF TypeOK, InsertProposal
  <1>5. ASSUME NEW w \in Workers, InsertConflict(w) PROVE TypeOK'
    <2>1. [work[w] EXCEPT !.at = "artifact"] \in Work
      BY <1>0 DEF Work, Consolidating
    <2>2. work' \in [Workers -> Work]
      BY <1>5, <2>1, IdleType, GoType DEF InsertConflict, End
    <2> QED BY <1>5, <2>2 DEF TypeOK, InsertConflict
  <1>6. ASSUME NEW w \in Workers, AttachArtifact(w) PROVE TypeOK'
    <2>1. [work[w] EXCEPT !.at = "event"] \in Work
      BY <1>0 DEF Work, Consolidating
    <2>2. work' \in [Workers -> Work]
      BY <1>6, <2>1, GoType DEF AttachArtifact
    <2>3. evidence' \in [Proposals -> SUBSET {"artifact", "event", "outcome"}]
      BY <1>6 DEF TypeOK, AttachArtifact, Attach
    <2> QED BY <1>6, <2>2, <2>3 DEF TypeOK, AttachArtifact
  <1>7. ASSUME NEW w \in Workers, AttachEvent(w) PROVE TypeOK'
    <2>1. work' \in [Workers -> Work]
      BY <1>7, TurnType DEF AttachEvent, Consolidating
    <2>2. evidence' \in [Proposals -> SUBSET {"artifact", "event", "outcome"}]
      BY <1>7 DEF TypeOK, AttachEvent, Attach
    <2> QED BY <1>7, <2>1, <2>2 DEF TypeOK, AttachEvent
  <1>8. ASSUME NEW w \in Workers, List(w) PROVE TypeOK'
    <2>1. [work[w] EXCEPT !.at = "ready", !.listed = {<<p, proposal[p]>> : p \in Pending}] \in Work
      <3>1. {<<p, proposal[p]>> : p \in Pending} \in SUBSET (Proposals \X Rows)
        BY DEF TypeOK, Pending
      <3> QED BY <1>0, <3>1 DEF Work, Consolidating
    <2>2. work' \in [Workers -> Work]
      BY <1>8, <2>1, GoType DEF List
    <2> QED BY <1>8, <2>2 DEF TypeOK, List
  <1>9. ASSUME NEW w \in Workers, Take(w) PROVE TypeOK'
    <2>1. PICK item \in work[w].listed :
            Go(w, [work[w] EXCEPT !.at = NextStep(item[2]), !.cur = item[1], !.row = item[2],
                                  !.listed = @ \ {item}, !.passed = PassesGates(item[1])])
      BY <1>9 DEF Take
    <2>2. NextStep(item[2]) \in Consolidating /\ PassesGates(item[1]) \in BOOLEAN
      BY DEF NextStep, Consolidating, PassesGates
    <2>3. [work[w] EXCEPT !.at = NextStep(item[2]), !.cur = item[1], !.row = item[2],
                          !.listed = @ \ {item}, !.passed = PassesGates(item[1])] \in Work
      BY <1>0, <2>2, ItemTypes DEF Work
    <2>4. work' \in [Workers -> Work]
      BY <2>1, <2>3, GoType
    <2> QED BY <1>9, <2>4 DEF TypeOK, Take
  <1>10. ASSUME NEW w \in Workers, Decide(w) PROVE TypeOK'
    <2>1. work[w].row.version + 1 = 2 /\ work[w].row.version \in Nat
      <3>1. work[w].row = [status |-> "candidate", version |-> 1]
        BY <1>10, InHand DEF Decide
      <3> QED BY <3>1
    <2>2. work' \in [Workers -> Work]
      <3>1. CASE work[w].passed
        <4>1. Moved(w, "approved") \in Rows
          BY <2>1 DEF Moved, Rows, Statuses
        <4>2. [work[w] EXCEPT !.at = "apply", !.row = Moved(w, "approved"), !.passed = FALSE]
                \in Work
          BY <1>0, <4>1 DEF Work, Consolidating
        <4> QED BY <1>10, <3>1, <4>2, GoType DEF Decide
      <3>2. CASE ~work[w].passed
        BY <1>10, <3>2, TurnType DEF Decide, Consolidating
      <3> QED BY <3>1, <3>2
    <2>3. UNCHANGED <<reflection, evidence, memories, trial, faults>>
      BY <1>10 DEF Decide
    <2> QED BY <1>t, <2>2, <2>3 DEF TypeOK
  <1>11. ASSUME NEW w \in Workers, ApplyMemory(w) PROVE TypeOK'
    <2>1. work[w].cur \in Proposals
      BY <1>11 DEF ApplyMemory, HandsAreRight, HandIsRight, Handling, At
    <2>2. memories' \in SUBSET Proposals
      BY <1>11, <2>1 DEF TypeOK, ApplyMemory
    <2>3. [work[w] EXCEPT !.at = "mark"] \in Work
      BY <1>0 DEF Work, Consolidating
    <2>4. work' \in [Workers -> Work]
      BY <1>11, <2>3, GoType, TurnType DEF ApplyMemory, Consolidating
    <2> QED BY <1>11, <2>2, <2>4 DEF TypeOK, ApplyMemory
  <1>12. ASSUME NEW w \in Workers, StartExperiment(w) PROVE TypeOK'
    <2>1. [work[w] EXCEPT !.at = "mark"] \in Work
      BY <1>0 DEF Work, Consolidating
    <2>2. work' \in [Workers -> Work]
      BY <1>12, <2>1, GoType DEF StartExperiment
    <2>3. Len(feedback) \in 0 .. MaxFeedback
      BY DEF TypeOK
    <2>4. experiment' \in [Proposals -> Experiments]
      <3>1. \A x \in Experiments :
              [x EXCEPT !.status = "running", !.started = Len(feedback)] \in Experiments
        BY <2>3 DEF Experiments
      <3> QED BY <1>12, <1>x, <3>1 DEF StartExperiment
    <2> QED BY <1>12, <2>2, <2>4 DEF TypeOK, StartExperiment, Experiments
  <1>13. ASSUME NEW w \in Workers, Mark(w) PROVE TypeOK'
    <2>1. work' \in [Workers -> Work]
      BY <1>13, TurnType DEF Mark, Consolidating
    <2> QED BY <1>t, <1>13, <2>1 DEF TypeOK, Mark
  <1>14. ASSUME NEW w \in Workers,
                ConsolidateDone(w) \/ Conflict(w) \/ EvaluateDone(w) PROVE TypeOK'
    <2>1. work' \in [Workers -> Work]
      BY <1>0, <1>14, GoType DEF ConsolidateDone, Conflict, EvaluateDone, End
    <2> QED BY <1>14, <2>1 DEF TypeOK, ConsolidateDone, Conflict, EvaluateDone
  <1>15. ASSUME NEW w \in Workers, BeginEvaluate(w) PROVE TypeOK'
    <2>1. [Idle EXCEPT !.at = "due", !.listed = {<<p, NoRow>> : p \in Due},
                       !.heard = Len(feedback)] \in Work
      <3>1. {<<p, NoRow>> : p \in Due} \in SUBSET (Proposals \X Rows)
        BY <1>0 DEF Due
      <3>2. Len(feedback) \in 0 .. MaxFeedback
        BY DEF TypeOK
      <3> QED BY <1>0, <3>1, <3>2 DEF Work, Evaluating
    <2>2. work' \in [Workers -> Work]
      BY <1>15, <2>1, GoType DEF BeginEvaluate
    <2> QED BY <1>15, <2>2 DEF TypeOK, BeginEvaluate
  <1>16. ASSUME NEW w \in Workers, NEW item \in work[w].listed, Postpone(w, item) PROVE TypeOK'
    <2>1. [work[w] EXCEPT !.listed = @ \ {item}] \in Work
      BY <1>0 DEF Work
    <2>2. work' \in [Workers -> Work]
      BY <1>0, <1>16, <2>1, GoType DEF Postpone, End
    <2>3. experiment' \in [Proposals -> Experiments]
      <3>1. \A x \in Experiments : [x EXCEPT !.due = FALSE] \in Experiments
        BY DEF Experiments
      <3> QED BY <1>16, <1>x, <3>1, ItemTypes DEF Postpone
    <2> QED BY <1>16, <2>2, <2>3 DEF TypeOK, Postpone, Experiments
  <1>17. ASSUME NEW w \in Workers, NEW item \in work[w].listed, InsertOutcome(w, item)
         PROVE  TypeOK'
    <2> DEFINE positive == IsPositive(Signals(w, item[1]))
    <2>1. positive \in BOOLEAN
      BY DEF IsPositive
    <2> HIDE DEF positive
    <2>2. [work[w] EXCEPT !.at = "verdict", !.cur = item[1], !.listed = @ \ {item},
                          !.passed = positive] \in Work
      BY <1>0, <2>1, ItemTypes DEF Work, Evaluating
    <2>3. work' \in [Workers -> Work]
      BY <1>17, <2>2, GoType DEF InsertOutcome, positive
    <2>4. work[w].heard \in 1 .. MaxFeedback
      <3>1. Len(Signals(w, item[1])) >= MinObservations
        BY <1>17 DEF InsertOutcome
      <3> QED BY <3>1, ItemTypes, HeardSome
    <2>5. outcomes' = [outcomes EXCEPT ![item[1]] = @ \cup {<<work[w].heard, positive>>}]
      BY <1>17 DEF InsertOutcome, positive
    <2>6. outcomes' \in [Proposals -> SUBSET ((1 .. MaxFeedback) \X BOOLEAN)]
      BY <2>1, <2>4, <2>5, ItemTypes DEF TypeOK
    <2> QED BY <1>17, <2>3, <2>6 DEF TypeOK, InsertOutcome
  <1>18. ASSUME NEW w \in Workers, ReadProposal(w) PROVE TypeOK'
    <2>1. work[w].cur \in Proposals
      BY <1>18 DEF ReadProposal, HandsAreRight, HandIsRight, Handling, At
    <2>2. /\ [work[w] EXCEPT !.at = "conclude", !.row = proposal[work[w].cur]] \in Work
          /\ [work[w] EXCEPT !.at = "close"] \in Work
      <3>1. proposal[work[w].cur] \in Rows
        BY <2>1 DEF TypeOK
      <3> QED BY <1>0, <3>1 DEF Work, Evaluating
    <2>3. work' \in [Workers -> Work]
      BY <1>18, <2>2, GoType DEF ReadProposal
    <2>4. evidence' \in [Proposals -> SUBSET {"artifact", "event", "outcome"}]
      <3>1. CASE evidence' = evidence
        BY <3>1 DEF TypeOK
      <3>2. CASE evidence' = [evidence EXCEPT ![work[w].cur] = @ \cup {"outcome"}]
        BY <3>2 DEF TypeOK
      <3> QED BY <1>18, <3>1, <3>2 DEF ReadProposal, Attach
    <2> QED BY <1>18, <2>3, <2>4 DEF TypeOK, ReadProposal
  <1>19. ASSUME NEW w \in Workers, Conclude(w) PROVE TypeOK'
    <2>1. [work[w] EXCEPT !.at = "close", !.row = NoRow] \in Work
      BY <1>0 DEF Work, Evaluating
    <2>2. work' \in [Workers -> Work]
      BY <1>19, <2>1, GoType DEF Conclude
    <2> QED BY <1>t, <1>19, <2>2 DEF TypeOK, Conclude
  <1>20. ASSUME NEW w \in Workers, Close(w) PROVE TypeOK'
    <2>1. work' \in [Workers -> Work]
      BY <1>0, <1>20, GoType, TurnType DEF Close, End, Evaluating
    <2>2. experiment' \in [Proposals -> Experiments]
      <3>1. \A x \in Experiments, c \in {"positive", "other"} :
              [x EXCEPT !.status = "completed", !.due = FALSE, !.conclusion = c] \in Experiments
        BY DEF Experiments
      <3>2. \/ experiment' = experiment
            \/ \E c \in {"positive", "other"} :
                 experiment' = [experiment EXCEPT ![work[w].cur] =
                   [@ EXCEPT !.status = "completed", !.due = FALSE, !.conclusion = c]]
        BY <1>20 DEF Close
      <3>3. ASSUME NEW c \in {"positive", "other"},
                   experiment' = [experiment EXCEPT ![work[w].cur] =
                     [@ EXCEPT !.status = "completed", !.due = FALSE, !.conclusion = c]]
            PROVE  experiment' \in [Proposals -> Experiments]
        BY <1>x, <3>1, <3>3
      <3> QED BY <1>x, <3>2, <3>3
    <2> QED BY <1>20, <2>1, <2>2 DEF TypeOK, Close, Experiments
  <1>21. ASSUME NEW p \in Proposals, BecomesDue(p) PROVE TypeOK'
    <2>1. experiment' \in [Proposals -> Experiments]
      <3>1. \A x \in Experiments : [x EXCEPT !.due = TRUE] \in Experiments
        BY DEF Experiments
      <3> QED BY <1>21, <1>x, <3>1 DEF BecomesDue
    <2> QED BY <1>21, <2>1 DEF TypeOK, BecomesDue, Experiments
  <1>22. ASSUME NEW signal \in Said, UserSays(signal) PROVE TypeOK'
    <2>1. feedback' \in Seq(Said) /\ Len(feedback') = Len(feedback) + 1
      BY <1>22, AppendProperties DEF TypeOK, UserSays
    <2>2. Len(feedback') <= MaxFeedback
      BY <1>22, <2>1, LearningAssumption DEF TypeOK, UserSays
    <2> QED BY <1>22, <2>1, <2>2 DEF TypeOK, UserSays
  <1>23. ASSUME NEW w \in Workers, Crash(w) PROVE TypeOK'
    <2>1. work' \in [Workers -> Work]
      BY <1>0, <1>23, GoType DEF Crash, End
    <2>2. crashes' \in 0 .. MaxCrashes
      BY <1>23, LearningAssumption DEF TypeOK, Crash
    <2> QED BY <1>23, <2>1, <2>2 DEF TypeOK, Crash
  <1>24. ASSUME NEW w \in Workers, Overrun(w) PROVE TypeOK'
    BY <1>24 DEF TypeOK, Overrun
  <1>25. CASE UNCHANGED vars
    BY <1>25 DEF TypeOK, vars
  <1> QED
    BY <1>1, <1>2, <1>3, <1>4, <1>5, <1>6, <1>7, <1>8, <1>9, <1>10, <1>11, <1>12, <1>13,
       <1>14, <1>15, <1>16, <1>17, <1>18, <1>19, <1>20, <1>21, <1>22, <1>23, <1>24, <1>25
       DEF Next, Proceeds

-----------------------------------------------------------------------------
\* A worker that turns to something else leaves the other workers alone.
LEMMA GoMoves ==
    ASSUME TypeOK, NEW w \in Workers, NEW me, Go(w, me)
    PROVE  work'[w] = me /\ \A v \in Workers : v # w => work'[v] = work[v]
  BY DEF TypeOK, Go

LEMMA HandsStep ==
    ASSUME TypeOK, HandsAreRight, HistoryIsTold, RowsAreOld, [Next]_vars
    PROVE  HandsAreRight'
  <1> DEFINE Goal == HandsAreRight'
  <1> USE DEF reflection, trial, faults
  <1>0. /\ \A w \in Workers : work[w] \in Work /\ HandIsRight(work[w])
        /\ Idle \in Work
    BY IdleType DEF TypeOK, HandsAreRight
  <1>1. ASSUME NEW w \in Workers, NEW me, HandIsRight(me), Go(w, me) PROVE Goal
    BY <1>0, <1>1, GoMoves DEF HandsAreRight
  <1>2. HandIsRight(Idle)
    BY DEF HandIsRight, Idle, Handling
  <1>3. ASSUME NEW w \in Workers, NEW place \in {"scan", "due"}, Turn(w, place) PROVE Goal
    <2>1. HandIsRight([work[w] EXCEPT !.at = place, !.cur = NoProposal, !.row = NoRow,
                                      !.passed = FALSE])
      BY <1>0 DEF HandIsRight, Work, Handling
    <2> QED BY <1>1, <1>3, <2>1 DEF Turn
  <1>4. ASSUME NEW w \in Workers, Turn(w, "ready"),
               work[w].at \in {"decide", "apply", "mark"}
        PROVE  Goal
    <2>1. HandIsRight([work[w] EXCEPT !.at = "ready", !.cur = NoProposal, !.row = NoRow,
                                      !.passed = FALSE])
      BY <1>0, <1>4 DEF HandIsRight, Work, Handling
    <2> QED BY <1>1, <1>4, <2>1 DEF Turn
  <1>5. ASSUME NEW w \in Workers, BeginConsolidate(w) PROVE Goal
    <2>1. HandIsRight([Idle EXCEPT !.at = "scan", !.listed = {<<p, NoRow>> : p \in wanted}])
      BY <1>0 DEF HandIsRight, Work, Handling, Idle
    <2> QED BY <1>1, <1>5, <2>1 DEF BeginConsolidate
  <1>6. ASSUME NEW w \in Workers, NEW item \in work[w].listed, Propose(w, item) PROVE Goal
    <2>1. /\ HandIsRight([work[w] EXCEPT !.at = "insert", !.cur = item[1], !.listed = @ \ {item}])
          /\ HandIsRight([work[w] EXCEPT !.listed = @ \ {item}])
      BY <1>0, <1>6, ItemTypes DEF HandIsRight, Work, Handling, Propose, At
    <2> QED BY <1>1, <1>6, <2>1 DEF Propose
  <1>7. ASSUME NEW w \in Workers,
               InsertProposal(w) \/ InsertConflict(w) \/ AttachArtifact(w)
        PROVE  Goal
    <2>1. CASE InsertProposal(w) \/ InsertConflict(w)
      <3>1. HandIsRight([work[w] EXCEPT !.at = "artifact"])
        BY <1>0, <2>1 DEF HandIsRight, Work, Handling, InsertProposal, InsertConflict, At
      <3> QED BY <1>1, <1>2, <2>1, <3>1 DEF InsertProposal, InsertConflict, End
    <2>2. CASE AttachArtifact(w)
      <3>1. HandIsRight([work[w] EXCEPT !.at = "event"])
        BY <1>0, <2>2 DEF HandIsRight, Work, Handling, AttachArtifact, At
      <3> QED BY <1>1, <2>2, <3>1 DEF AttachArtifact
    <2> QED BY <1>7, <2>1, <2>2
  <1>8. ASSUME NEW w \in Workers, AttachEvent(w) PROVE Goal
    BY <1>3, <1>8 DEF AttachEvent
  <1>9. ASSUME NEW w \in Workers, List(w) PROVE Goal
    <2>1. HandIsRight([work[w] EXCEPT !.at = "ready", !.listed = {<<p, proposal[p]>> : p \in Pending}])
      BY <1>0 DEF HandIsRight, Work, Handling, Pending
    <2> QED BY <1>1, <1>9, <2>1 DEF List
  <1>10. ASSUME NEW w \in Workers, Take(w) PROVE Goal
    <2>1. PICK item \in work[w].listed :
            Go(w, [work[w] EXCEPT !.at = NextStep(item[2]), !.cur = item[1], !.row = item[2],
                                  !.listed = @ \ {item}, !.passed = PassesGates(item[1])])
      BY <1>10 DEF Take
    <2>2. item[2].status \in {"candidate", "approved"} /\ item[1] \in Proposals
      BY <1>0, <1>10, ItemTypes DEF HandIsRight, Take, At
    <2>3. HandIsRight([work[w] EXCEPT !.at = NextStep(item[2]), !.cur = item[1], !.row = item[2],
                                      !.listed = @ \ {item}, !.passed = PassesGates(item[1])])
      BY <1>0, <1>10, <2>2 DEF HandIsRight, Work, Handling, NextStep, Take, At
    <2> QED BY <1>1, <2>1, <2>3
  <1>11. ASSUME NEW w \in Workers, Decide(w) PROVE Goal
    <2>1. CASE work[w].passed
      <3>1. HandIsRight([work[w] EXCEPT !.at = "apply", !.row = Moved(w, "approved"),
                                        !.passed = FALSE])
        BY <1>0, <1>11 DEF HandIsRight, Work, Handling, Moved, Decide, At
      <3> QED BY <1>1, <1>11, <2>1, <3>1 DEF Decide
    <2>2. CASE ~work[w].passed
      BY <1>4, <1>11, <2>2 DEF Decide, At
    <2> QED BY <2>1, <2>2
  <1>12. ASSUME NEW w \in Workers, ApplyMemory(w) \/ StartExperiment(w) PROVE Goal
    <2>1. HandIsRight([work[w] EXCEPT !.at = "mark"])
      BY <1>0, <1>12 DEF HandIsRight, Work, Handling, ApplyMemory, StartExperiment, At
    <2> QED BY <1>1, <1>4, <1>12, <2>1 DEF ApplyMemory, StartExperiment, At
  <1>13. ASSUME NEW w \in Workers, Mark(w) PROVE Goal
    BY <1>4, <1>13 DEF Mark, At
  <1>14. ASSUME NEW w \in Workers,
                ConsolidateDone(w) \/ Conflict(w) \/ EvaluateDone(w) \/ Crash(w)
         PROVE  Goal
    BY <1>1, <1>2, <1>14 DEF ConsolidateDone, Conflict, EvaluateDone, Crash, End
  <1>15. ASSUME NEW w \in Workers, BeginEvaluate(w) PROVE Goal
    <2>1. HandIsRight([Idle EXCEPT !.at = "due", !.listed = {<<p, NoRow>> : p \in Due},
                                   !.heard = Len(feedback)])
      BY <1>0 DEF HandIsRight, Work, Handling, Idle
    <2> QED BY <1>1, <1>15, <2>1 DEF BeginEvaluate
  <1>16. ASSUME NEW w \in Workers, NEW item \in work[w].listed, Postpone(w, item) PROVE Goal
    <2>1. HandIsRight([work[w] EXCEPT !.listed = @ \ {item}])
      BY <1>0, <1>16 DEF HandIsRight, Work, Handling, Postpone, At
    <2> QED BY <1>1, <1>2, <1>16, <2>1 DEF Postpone, End
  <1>17. ASSUME NEW w \in Workers, NEW item \in work[w].listed, InsertOutcome(w, item)
         PROVE  Goal
    <2> DEFINE positive == IsPositive(Signals(w, item[1]))
    <2>1. HandIsRight([work[w] EXCEPT !.at = "verdict", !.cur = item[1], !.listed = @ \ {item},
                                      !.passed = positive])
      BY <1>0, ItemTypes DEF HandIsRight, Work, Handling
    <2> QED BY <1>1, <1>17, <2>1 DEF InsertOutcome
  <1>18. ASSUME NEW w \in Workers, ReadProposal(w) PROVE Goal
    <2>1. /\ UnderTest(work[w].cur) =>
               HandIsRight([work[w] EXCEPT !.at = "conclude", !.row = proposal[work[w].cur]])
          /\ HandIsRight([work[w] EXCEPT !.at = "close"])
      BY <1>0, <1>18 DEF HandIsRight, Work, Handling, UnderTest, ReadProposal, At
    <2> QED BY <1>1, <1>18, <2>1 DEF ReadProposal
  <1>19. ASSUME NEW w \in Workers, Conclude(w) PROVE Goal
    <2>1. HandIsRight([work[w] EXCEPT !.at = "close", !.row = NoRow])
      BY <1>0, <1>19 DEF HandIsRight, Work, Handling, Conclude, At
    <2> QED BY <1>1, <1>19, <2>1 DEF Conclude
  <1>20. ASSUME NEW w \in Workers, Close(w) PROVE Goal
    BY <1>1, <1>2, <1>3, <1>20 DEF Close, End
  <1>21. CASE \/ \E a \in Artifacts : Schedule(a)
              \/ \E p \in Proposals : BecomesDue(p)
              \/ \E signal \in Said : UserSays(signal)
              \/ \E w \in Workers : Overrun(w)
              \/ UNCHANGED vars
    BY <1>21 DEF HandsAreRight, Schedule, BecomesDue, UserSays, Overrun, vars
  <1> QED
    BY <1>5, <1>6, <1>7, <1>8, <1>9, <1>10, <1>11, <1>12, <1>13, <1>14, <1>15, <1>16, <1>17,
       <1>18, <1>19, <1>20, <1>21 DEF Next, Proceeds

-----------------------------------------------------------------------------
\* A row that a worker holds has been read from the table, or just written.
IsFresh(item) ==
    \/ item[2] = NoRow
    \/ item[1] \in Proposals /\ item[2] \in {proposal[item[1]], proposal'[item[1]]}

LEMMA HeldStep ==
    ASSUME TypeOK, HandsAreRight, HistoryIsTold, RowsAreOld, [Next]_vars, NEW v \in Workers,
           NEW thing \in Held(work'[v])
    PROVE  thing \in Held(work[v]) \/ IsFresh(thing)
  <1> DEFINE Goal == thing \in Held(work[v]) \/ IsFresh(thing)
  <1> USE DEF reflection, trial, faults
  <1>0. /\ \A w \in Workers : work[w] \in Work
        /\ Idle \in Work
    BY IdleType DEF TypeOK
  <1>1. ASSUME NEW w \in Workers, NEW me, Go(w, me),
               \A item \in Held(me) : item \in Held(work[w]) \/ IsFresh(item)
        PROVE  Goal
    BY <1>1, GoMoves
  <1>2. \A item \in Held(Idle) : IsFresh(item)
    BY DEF Held, Idle, IsFresh
  <1>3. ASSUME NEW w \in Workers, NEW place, Turn(w, place) PROVE Goal
    <2>1. \A item \in Held([work[w] EXCEPT !.at = place, !.cur = NoProposal, !.row = NoRow,
                                           !.passed = FALSE]) :
            item \in Held(work[w]) \/ IsFresh(item)
      BY <1>0 DEF Held, Work, IsFresh
    <2> QED BY <1>1, <1>3, <2>1 DEF Turn
  <1>4. ASSUME NEW w \in Workers, BeginConsolidate(w) PROVE Goal
    <2>1. \A item \in Held([Idle EXCEPT !.at = "scan",
                                        !.listed = {<<p, NoRow>> : p \in wanted}]) : IsFresh(item)
      BY DEF Held, Idle, IsFresh
    <2> QED BY <1>1, <1>4, <2>1 DEF BeginConsolidate
  <1>5. ASSUME NEW w \in Workers, NEW item \in work[w].listed, Propose(w, item) PROVE Goal
    <2>1. /\ Held([work[w] EXCEPT !.listed = @ \ {item}]) \subseteq Held(work[w])
          /\ \A x \in Held([work[w] EXCEPT !.at = "insert", !.cur = item[1],
                                           !.listed = @ \ {item}]) :
               x \in Held(work[w]) \/ x = <<item[1], work[w].row>>
      BY <1>0 DEF Held, Work
    <2>2. work[w].row = NoRow
      BY <1>5 DEF HandsAreRight, HandIsRight, Propose, At
    <2>3. IsFresh(<<item[1], NoRow>>)
      BY DEF IsFresh
    <2>4. CASE Go(w, [work[w] EXCEPT !.listed = @ \ {item}])
      BY <1>1, <2>1, <2>4
    <2>5. CASE Go(w, [work[w] EXCEPT !.at = "insert", !.cur = item[1], !.listed = @ \ {item}])
      BY <1>1, <2>1, <2>2, <2>3, <2>5
    <2> QED BY <1>5, <2>4, <2>5 DEF Propose
  <1>6. ASSUME NEW w \in Workers, NEW place, Go(w, [work[w] EXCEPT !.at = place]) PROVE Goal
    <2>1. Held([work[w] EXCEPT !.at = place]) = Held(work[w])
      BY <1>0 DEF Held, Work
    <2> QED BY <1>1, <1>6, <2>1
  <1>7. ASSUME NEW w \in Workers, End(w) PROVE Goal
    BY <1>1, <1>2, <1>7 DEF End
  <1>8. ASSUME NEW w \in Workers, List(w) PROVE Goal
    <2>1. \A x \in Held([work[w] EXCEPT !.at = "ready",
                                        !.listed = {<<p, proposal[p]>> : p \in Pending}]) :
            x \in Held(work[w]) \/ IsFresh(x)
      BY <1>0 DEF Held, Work, IsFresh, Pending
    <2> QED BY <1>1, <1>8, <2>1 DEF List
  <1>9. ASSUME NEW w \in Workers, Take(w) PROVE Goal
    <2>1. PICK item \in work[w].listed :
            Go(w, [work[w] EXCEPT !.at = NextStep(item[2]), !.cur = item[1], !.row = item[2],
                                  !.listed = @ \ {item}, !.passed = PassesGates(item[1])])
      BY <1>9 DEF Take
    <2>2. item = <<item[1], item[2]>>
      BY ItemTypes
    <2>3. \A x \in Held([work[w] EXCEPT !.at = NextStep(item[2]), !.cur = item[1],
                                        !.row = item[2], !.listed = @ \ {item},
                                        !.passed = PassesGates(item[1])]) :
            x \in Held(work[w])
      BY <1>0, <2>2 DEF Held, Work
    <2> QED BY <1>1, <2>1, <2>3
  <1>10. ASSUME NEW w \in Workers, Decide(w) PROVE Goal
    <2>1. CASE work[w].passed
      <3>1. /\ work[w].cur \in Proposals
            /\ proposal' = [proposal EXCEPT ![work[w].cur] = Moved(w, "approved")]
            /\ Go(w, [work[w] EXCEPT !.at = "apply", !.row = Moved(w, "approved"),
                                     !.passed = FALSE])
        BY <1>10, <2>1, DecideChanges DEF Decide, AppendDecision
      <3>2. proposal'[work[w].cur] = Moved(w, "approved")
        BY <3>1 DEF TypeOK
      <3>3. \A x \in Held([work[w] EXCEPT !.at = "apply", !.row = Moved(w, "approved"),
                                          !.passed = FALSE]) :
              x \in Held(work[w]) \/ IsFresh(x)
        BY <1>0, <3>1, <3>2 DEF Held, Work, IsFresh
      <3> QED BY <1>1, <3>1, <3>3
    <2>2. CASE ~work[w].passed
      BY <1>3, <1>10, <2>2 DEF Decide
    <2> QED BY <2>1, <2>2
  <1>11. ASSUME NEW w \in Workers, BeginEvaluate(w) PROVE Goal
    <2>1. \A x \in Held([Idle EXCEPT !.at = "due", !.listed = {<<p, NoRow>> : p \in Due},
                                     !.heard = Len(feedback)]) : IsFresh(x)
      BY DEF Held, Idle, IsFresh
    <2> QED BY <1>1, <1>11, <2>1 DEF BeginEvaluate
  <1>12. ASSUME NEW w \in Workers, NEW item \in work[w].listed, Postpone(w, item) PROVE Goal
    <2>1. Held([work[w] EXCEPT !.listed = @ \ {item}]) \subseteq Held(work[w])
      BY <1>0 DEF Held, Work
    <2> QED BY <1>1, <1>7, <1>12, <2>1 DEF Postpone
  <1>13. ASSUME NEW w \in Workers, NEW item \in work[w].listed, InsertOutcome(w, item)
         PROVE  Goal
    <2> DEFINE positive == IsPositive(Signals(w, item[1]))
               me == [work[w] EXCEPT !.at = "verdict", !.cur = item[1], !.listed = @ \ {item},
                                     !.passed = positive]
    <2>1. Go(w, me)
      BY <1>13 DEF InsertOutcome
    <2>2. work[w].row = NoRow
      BY <1>13 DEF HandsAreRight, HandIsRight, InsertOutcome, At
    <2> HIDE DEF positive
    <2>3. \A x \in Held(me) : x \in Held(work[w]) \/ IsFresh(x)
      BY <1>0, <2>2 DEF Held, Work, IsFresh
    <2> HIDE DEF me
    <2> QED BY <1>1, <2>1, <2>3
  <1>14. ASSUME NEW w \in Workers, ReadProposal(w) PROVE Goal
    <2>1. work[w].cur \in Proposals
      BY <1>14 DEF ReadProposal, HandsAreRight, HandIsRight, Handling, At
    <2>2. \A x \in Held([work[w] EXCEPT !.at = "conclude", !.row = proposal[work[w].cur]]) :
            x \in Held(work[w]) \/ IsFresh(x)
      BY <1>0, <2>1 DEF Held, Work, IsFresh
    <2> QED BY <1>1, <1>6, <1>14, <2>2 DEF ReadProposal
  <1>15. ASSUME NEW w \in Workers, Conclude(w) PROVE Goal
    <2>1. \A x \in Held([work[w] EXCEPT !.at = "close", !.row = NoRow]) :
            x \in Held(work[w]) \/ IsFresh(x)
      BY <1>0 DEF Held, Work, IsFresh
    <2> QED BY <1>1, <1>15, <2>1 DEF Conclude
  <1>16. ASSUME NEW w \in Workers,
                \/ InsertProposal(w) \/ InsertConflict(w) \/ AttachArtifact(w) \/ AttachEvent(w)
                \/ ApplyMemory(w) \/ StartExperiment(w) \/ Mark(w) \/ ConsolidateDone(w)
                \/ Conflict(w) \/ Close(w) \/ EvaluateDone(w) \/ Crash(w)
         PROVE  Goal
    BY <1>3, <1>6, <1>7, <1>16
       DEF InsertProposal, InsertConflict, AttachArtifact, AttachEvent, ApplyMemory,
           StartExperiment, Mark, ConsolidateDone, Conflict, Close, EvaluateDone, Crash
  <1>17. CASE \/ \E a \in Artifacts : Schedule(a)
              \/ \E p \in Proposals : BecomesDue(p)
              \/ \E signal \in Said : UserSays(signal)
              \/ \E w \in Workers : Overrun(w)
              \/ UNCHANGED vars
    BY <1>17 DEF Schedule, BecomesDue, UserSays, Overrun, vars
  <1> QED
    BY <1>4, <1>5, <1>8, <1>9, <1>10, <1>11, <1>12, <1>13, <1>14, <1>15, <1>16, <1>17
       DEF Next, Proceeds

\* So a row that was read stays old.
LEMMA RowsStep ==
    ASSUME TypeOK, HandsAreRight, HistoryIsTold, RowsAreOld, [Next]_vars
    PROVE  RowsAreOld'
  <1>1. ASSUME NEW w \in Workers, NEW item \in Held(work'[w]), item[2] # NoRow
        PROVE  item[1] \in Proposals /\ IsOld(item[1], item[2])'
    <2>1. CASE item \in Held(work[w])
      <3>1. item[1] \in Proposals /\ IsOld(item[1], item[2])
        BY <1>1, <2>1 DEF RowsAreOld
      <3>2. item[2].version \in Nat
        <4>1. item[2].version = Version(item[2].status)
          BY <3>1 DEF IsOld
        <4>2. item[2] \in Rows
          BY <2>1, <1>1 DEF Held, TypeOK, Work
        <4> QED BY <4>2 DEF Rows
      <3> QED BY <3>1, <3>2, VersionsGrow DEF IsOld
    <2>2. CASE IsFresh(item)
      <3>1. item[1] \in Proposals /\ item[2] \in {proposal[item[1]], proposal'[item[1]]}
        BY <1>1, <2>2 DEF IsFresh
      <3>2. HistoryIsTold'
        BY HistoryStep
      <3> QED BY <3>1, <3>2, VersionsGrow DEF IsOld, HistoryIsTold
    <2> QED BY <2>1, <2>2, HeldStep
  <1> QED BY <1>1 DEF RowsAreOld

-----------------------------------------------------------------------------
\* Evidence and strength are only added.
LEMMA EvidenceGrows ==
    ASSUME TypeOK, [Next]_vars, NEW p \in Proposals
    PROVE  evidence[p] \subseteq evidence'[p] /\ strong \subseteq strong'
  <1> DEFINE Goal == evidence[p] \subseteq evidence'[p] /\ strong \subseteq strong'
  <1> USE DEF reflection, trial, faults
  <1>1. ASSUME NEW w \in Workers, NEW kind, Attach(w, kind), UNCHANGED strong PROVE Goal
    BY <1>1 DEF TypeOK, Attach
  <1>2. ASSUME NEW w \in Workers, AttachArtifact(w) \/ AttachEvent(w) \/ ReadProposal(w)
        PROVE  Goal
    BY <1>1, <1>2 DEF AttachArtifact, AttachEvent, ReadProposal
  <1>3. ASSUME NEW w \in Workers,
               \/ BeginConsolidate(w) \/ BeginEvaluate(w) \/ InsertProposal(w)
               \/ InsertConflict(w) \/ List(w) \/ Take(w) \/ Decide(w) \/ ApplyMemory(w)
               \/ StartExperiment(w) \/ Mark(w) \/ ConsolidateDone(w) \/ Conflict(w)
               \/ Conclude(w) \/ Close(w) \/ EvaluateDone(w) \/ Crash(w) \/ Overrun(w)
        PROVE  Goal
    BY <1>3 DEF BeginConsolidate, BeginEvaluate, InsertProposal, InsertConflict, List, Take,
                Decide, ApplyMemory, StartExperiment, Mark, ConsolidateDone, Conflict, Conclude,
                Close, EvaluateDone, Crash, Overrun
  <1>4. ASSUME NEW w \in Workers, NEW item \in work[w].listed,
               Propose(w, item) \/ Postpone(w, item) \/ InsertOutcome(w, item)
        PROVE  Goal
    BY <1>4 DEF Propose, Postpone, InsertOutcome
  <1>5. CASE \/ \E a \in Artifacts : Schedule(a)
             \/ \E q \in Proposals : BecomesDue(q)
             \/ \E signal \in Said : UserSays(signal)
             \/ UNCHANGED vars
    BY <1>5 DEF Schedule, BecomesDue, UserSays, vars
  <1> QED BY <1>2, <1>3, <1>4, <1>5 DEF Next, Proceeds

LEMMA PassesStays ==
    ASSUME TypeOK, TypeOK', [Next]_vars, NEW p \in Proposals, PassesGates(p)
    PROVE  PassesGates(p)'
  <1> DEFINE before == evidence[p]
             after == evidence'[p]
  <1>1. before \subseteq after /\ strong \subseteq strong'
    BY EvidenceGrows
  <1>2. IsFiniteSet(after)
    <2>1. after \subseteq {"artifact", "event", "outcome"}
      BY DEF TypeOK
    <2>2. IsFiniteSet({"artifact", "event", "outcome"})
      <3>1. {"artifact", "event", "outcome"} = {"artifact"} \cup {"event"} \cup {"outcome"}
        OBVIOUS
      <3>2. IsFiniteSet({"artifact"})
        BY FS_Singleton
      <3>3. IsFiniteSet({"artifact"} \cup {"event"})
        BY <3>2, FS_AddElement
      <3>4. IsFiniteSet({"artifact"} \cup {"event"} \cup {"outcome"})
        BY <3>3, FS_AddElement
      <3> QED BY <3>1, <3>4
    <2> QED BY <2>1, <2>2, FS_Subset
  <1>3. IsFiniteSet(before) /\ Cardinality(before) <= Cardinality(after)
    BY <1>1, <1>2, FS_Subset
  <1>4. Cardinality(before) >= MinEvidence /\ p \in strong
    BY DEF PassesGates
  <1>5. Cardinality(before) \in Nat /\ Cardinality(after) \in Nat /\ MinEvidence \in Nat
    BY <1>2, <1>3, FS_CardinalityType, LearningAssumption
  <1>6. Cardinality(after) >= MinEvidence
    <2> HIDE DEF before, after
    <2> QED BY <1>3, <1>4, <1>5
  <1> QED BY <1>1, <1>4, <1>6 DEF PassesGates

\* A memory is written while its approved proposal is applied.
LEMMA MemorySteps ==
    ASSUME [Next]_vars
    PROVE  \A p \in memories' :
             p \in memories \/ \E w \in Workers : At(w, "apply") /\ work[w].cur = p
  <1> DEFINE Goal == \A p \in memories' :
               p \in memories \/ \E w \in Workers : At(w, "apply") /\ work[w].cur = p
  <1> USE DEF reflection, trial, faults
  <1>1. ASSUME NEW w \in Workers, ApplyMemory(w) PROVE Goal
    BY <1>1 DEF ApplyMemory
  <1>2. ASSUME NEW w \in Workers,
               \/ BeginConsolidate(w) \/ BeginEvaluate(w) \/ InsertProposal(w)
               \/ InsertConflict(w) \/ AttachArtifact(w) \/ AttachEvent(w) \/ List(w)
               \/ Take(w) \/ Decide(w) \/ StartExperiment(w) \/ Mark(w)
               \/ ConsolidateDone(w) \/ Conflict(w) \/ ReadProposal(w) \/ Conclude(w)
               \/ Close(w) \/ EvaluateDone(w) \/ Crash(w) \/ Overrun(w)
        PROVE  Goal
    BY <1>2 DEF BeginConsolidate, BeginEvaluate, InsertProposal, InsertConflict,
                AttachArtifact, AttachEvent, List, Take, Decide, StartExperiment, Mark,
                ConsolidateDone, Conflict, ReadProposal, Conclude, Close, EvaluateDone, Crash,
                Overrun
  <1>3. ASSUME NEW w \in Workers, NEW item \in work[w].listed,
               Propose(w, item) \/ Postpone(w, item) \/ InsertOutcome(w, item)
        PROVE  Goal
    BY <1>3 DEF Propose, Postpone, InsertOutcome
  <1>4. CASE \/ \E a \in Artifacts : Schedule(a)
             \/ \E q \in Proposals : BecomesDue(q)
             \/ \E signal \in Said : UserSays(signal)
             \/ UNCHANGED vars
    BY <1>4 DEF Schedule, BecomesDue, UserSays, vars
  <1> QED BY <1>1, <1>2, <1>3, <1>4 DEF Next, Proceeds

\* What may happen to an experiment.
ExperimentGoes(p) ==
    LET old == experiment[p]
        new == experiment'[p]
    IN /\ old.status = "absent" =>
            \/ new = old
            \/ /\ new.status = "running" /\ new.due = old.due
               /\ p[2] = "policy"
               /\ \E w \in Workers : /\ At(w, "apply") /\ work[w].cur = p
                                     /\ work'[w].at = "mark" /\ work'[w].cur = p
       /\ old.status # "absent" =>
            /\ new.status \in {old.status, "completed"} /\ new.started = old.started
            /\ new.status = old.status \/ \E w \in Workers : At(w, "close") /\ work[w].cur = p
       /\ new.due => new.status = "running" \/ new = old
       /\ new.due => old.due \/ \A w \in Workers : work[w].cur # p

LEMMA ExperimentSteps ==
    ASSUME TypeOK, HandsAreRight, [Next]_vars, NEW p \in Proposals
    PROVE  ExperimentGoes(p)
  <1> USE DEF reflection, trial, faults
  <1>0. experiment \in [Proposals -> Experiments] /\ experiment[p] \in Experiments
    BY DEF TypeOK, Experiments
  <1>1. ASSUME UNCHANGED experiment PROVE ExperimentGoes(p)
    BY <1>0, <1>1 DEF ExperimentGoes, Experiments
  <1>2. ASSUME NEW w \in Workers, StartExperiment(w) PROVE ExperimentGoes(p)
    <2>1. work'[w].at = "mark" /\ work'[w].cur = work[w].cur
      BY <1>2, GoMoves DEF StartExperiment, TypeOK, Work
    <2>2. CASE p = work[w].cur /\ experiment[p].status = "absent"
      <3>1. experiment'[p] = [experiment[p] EXCEPT !.status = "running",
                                                   !.started = Len(feedback)]
        BY <1>0, <1>2, <2>2 DEF StartExperiment
      <3>2. /\ experiment'[p].status = "running" /\ experiment'[p].due = experiment[p].due
            /\ p[2] = "policy" /\ At(w, "apply")
        BY <1>0, <1>2, <2>2, <3>1 DEF Experiments, StartExperiment
      <3> QED BY <2>1, <2>2, <3>2 DEF ExperimentGoes
    <2>3. CASE ~(p = work[w].cur /\ experiment[p].status = "absent")
      <3>1. experiment'[p] = experiment[p]
        BY <1>0, <1>2, <2>3 DEF StartExperiment
      <3> QED BY <3>1, <1>0 DEF ExperimentGoes, Experiments
    <2> QED BY <2>2, <2>3
  <1>3. ASSUME NEW w \in Workers, NEW item \in work[w].listed, Postpone(w, item)
        PROVE  ExperimentGoes(p)
    <2>1. CASE p = item[1] /\ experiment[p].status = "running"
      <3>1. experiment'[p] = [experiment[p] EXCEPT !.due = FALSE]
        BY <1>0, <1>3, <2>1 DEF Postpone
      <3> QED BY <1>0, <2>1, <3>1 DEF ExperimentGoes, Experiments
    <2>2. CASE ~(p = item[1] /\ experiment[p].status = "running")
      <3>1. experiment'[p] = experiment[p]
        BY <1>0, <1>3, <2>2 DEF Postpone
      <3> QED BY <3>1, <1>0 DEF ExperimentGoes, Experiments
    <2> QED BY <2>1, <2>2
  <1>4. ASSUME NEW w \in Workers, Close(w) PROVE ExperimentGoes(p)
    <2>1. CASE p = work[w].cur /\ experiment[p].status = "running"
      <3>1. PICK c \in {"positive", "other"} :
              experiment' = [experiment EXCEPT ![p].status = "completed", ![p].due = FALSE,
                                               ![p].conclusion = c]
        BY <1>4, <2>1 DEF Close
      <3>2. /\ experiment'[p].status = "completed" /\ experiment'[p].due = FALSE
            /\ experiment'[p].started = experiment[p].started
        BY <1>0, <3>1 DEF Experiments
      <3>3. At(w, "close") /\ work[w].cur = p
        BY <1>4, <2>1 DEF Close
      <3> QED BY <2>1, <3>2, <3>3 DEF ExperimentGoes
    <2>2. CASE ~(p = work[w].cur /\ experiment[p].status = "running")
      <3>1. experiment'[p] = experiment[p]
        BY <1>0, <1>4, <2>2 DEF Close
      <3> QED BY <3>1, <1>0 DEF ExperimentGoes, Experiments
    <2> QED BY <2>1, <2>2
  <1>5. ASSUME NEW q \in Proposals, BecomesDue(q) PROVE ExperimentGoes(p)
    <2>1. CASE p = q
      <3>1. experiment'[p] = [experiment[p] EXCEPT !.due = TRUE]
        BY <1>0, <1>5, <2>1 DEF BecomesDue
      <3> QED BY <1>0, <1>5, <2>1, <3>1 DEF ExperimentGoes, Experiments, BecomesDue
    <2>2. CASE p # q
      <3>1. experiment'[p] = experiment[p]
        BY <1>0, <1>5, <2>2 DEF BecomesDue
      <3> QED BY <3>1, <1>0 DEF ExperimentGoes, Experiments
    <2> QED BY <2>1, <2>2
  <1>6. ASSUME NEW w \in Workers,
               \/ BeginConsolidate(w) \/ BeginEvaluate(w) \/ InsertProposal(w)
               \/ InsertConflict(w) \/ AttachArtifact(w) \/ AttachEvent(w) \/ List(w)
               \/ Take(w) \/ Decide(w) \/ ApplyMemory(w) \/ Mark(w) \/ ConsolidateDone(w)
               \/ Conflict(w) \/ ReadProposal(w) \/ Conclude(w) \/ EvaluateDone(w)
               \/ Crash(w) \/ Overrun(w)
        PROVE  ExperimentGoes(p)
    BY <1>1, <1>6 DEF BeginConsolidate, BeginEvaluate, InsertProposal, InsertConflict,
                AttachArtifact, AttachEvent, List, Take, Decide, ApplyMemory, Mark,
                ConsolidateDone, Conflict, ReadProposal, Conclude, EvaluateDone, Crash, Overrun
  <1>7. ASSUME NEW w \in Workers, NEW item \in work[w].listed,
               Propose(w, item) \/ InsertOutcome(w, item)
        PROVE  ExperimentGoes(p)
    BY <1>1, <1>7 DEF Propose, InsertOutcome
  <1>8. CASE \/ \E a \in Artifacts : Schedule(a)
             \/ \E signal \in Said : UserSays(signal)
             \/ UNCHANGED vars
    BY <1>1, <1>8 DEF Schedule, UserSays, vars
  <1> QED
    BY <1>2, <1>3, <1>4, <1>5, <1>6, <1>7, <1>8 DEF Next, Proceeds

\* An outcome is put on record by a worker that has counted enough signals.
LEMMA OutcomeSteps ==
    ASSUME TypeOK, [Next]_vars, NEW p \in Proposals
    PROVE  /\ outcomes[p] \subseteq outcomes'[p]
           /\ \A o \in outcomes'[p] :
                \/ o \in outcomes[p]
                \/ \E w \in Workers :
                     /\ At(w, "due") /\ \E item \in work[w].listed : item[1] = p
                     /\ Len(Signals(w, p)) >= MinObservations
                     /\ o = <<work[w].heard, IsPositive(Signals(w, p))>>
                     /\ UNCHANGED <<experiment, feedback>>
  <1> DEFINE Goal == /\ outcomes[p] \subseteq outcomes'[p]
                     /\ \A o \in outcomes'[p] :
                          \/ o \in outcomes[p]
                          \/ \E w \in Workers :
                               /\ At(w, "due") /\ \E item \in work[w].listed : item[1] = p
                               /\ Len(Signals(w, p)) >= MinObservations
                               /\ o = <<work[w].heard, IsPositive(Signals(w, p))>>
                               /\ UNCHANGED <<experiment, feedback>>
  <1> USE DEF reflection, trial, faults
  <1>1. ASSUME NEW w \in Workers, NEW item \in work[w].listed, InsertOutcome(w, item)
        PROVE  Goal
    <2>1. /\ At(w, "due")
          /\ Len(Signals(w, item[1])) >= MinObservations
          /\ outcomes' = [outcomes EXCEPT ![item[1]] =
               @ \cup {<<work[w].heard, IsPositive(Signals(w, item[1]))>>}]
          /\ UNCHANGED <<experiment, feedback>>
      BY <1>1 DEF InsertOutcome
    <2>2. CASE item[1] = p
      <3>1. outcomes'[p] = outcomes[p] \cup {<<work[w].heard, IsPositive(Signals(w, p))>>}
        BY <2>1, <2>2 DEF TypeOK
      <3> QED BY <2>1, <2>2, <3>1
    <2>3. CASE item[1] # p
      <3>1. outcomes'[p] = outcomes[p]
        BY <2>1, <2>3 DEF TypeOK
      <3> QED BY <3>1
    <2> QED BY <2>2, <2>3
  <1>2. ASSUME NEW w \in Workers,
               \/ BeginConsolidate(w) \/ BeginEvaluate(w) \/ InsertProposal(w)
               \/ InsertConflict(w) \/ AttachArtifact(w) \/ AttachEvent(w) \/ List(w)
               \/ Take(w) \/ Decide(w) \/ ApplyMemory(w) \/ StartExperiment(w) \/ Mark(w)
               \/ ConsolidateDone(w) \/ Conflict(w) \/ ReadProposal(w) \/ Conclude(w)
               \/ Close(w) \/ EvaluateDone(w) \/ Crash(w) \/ Overrun(w)
        PROVE  UNCHANGED outcomes
    BY <1>2 DEF BeginConsolidate, BeginEvaluate, InsertProposal, InsertConflict,
                AttachArtifact, AttachEvent, List, Take, Decide, ApplyMemory, StartExperiment,
                Mark, ConsolidateDone, Conflict, ReadProposal, Conclude, Close, EvaluateDone,
                Crash, Overrun
  <1>3. ASSUME NEW w \in Workers, NEW item \in work[w].listed,
               Propose(w, item) \/ Postpone(w, item)
        PROVE  UNCHANGED outcomes
    BY <1>3 DEF Propose, Postpone
  <1>4. ASSUME \/ \E a \in Artifacts : Schedule(a)
               \/ \E q \in Proposals : BecomesDue(q)
               \/ \E signal \in Said : UserSays(signal)
               \/ UNCHANGED vars
        PROVE  UNCHANGED outcomes
    BY <1>4 DEF Schedule, BecomesDue, UserSays, vars
  <1>5. UNCHANGED outcomes => Goal
    OBVIOUS
  <1> HIDE DEF Goal
  <1>6. Goal
    BY <1>1, <1>2, <1>3, <1>4, <1>5 DEF Next, Proceeds
  <1> QED BY <1>6 DEF Goal

\* What the user has said stays said.
LEMMA FeedbackGrows ==
    ASSUME TypeOK, [Next]_vars
    PROVE  /\ Len(feedback) \in Nat /\ Len(feedback') \in Nat
           /\ Len(feedback) <= Len(feedback')
           /\ \A i \in 1 .. Len(feedback) : feedback'[i] = feedback[i]
  <1> DEFINE Goal == /\ Len(feedback) \in Nat /\ Len(feedback') \in Nat
                     /\ Len(feedback) <= Len(feedback')
                     /\ \A i \in 1 .. Len(feedback) : feedback'[i] = feedback[i]
  <1> USE DEF reflection, trial, faults
  <1>0. feedback \in Seq(Said) /\ Len(feedback) \in Nat
    BY DEF TypeOK
  <1>1. ASSUME NEW signal \in Said, UserSays(signal) PROVE Goal
    BY <1>0, <1>1, AppendProperties DEF UserSays
  <1>2. ASSUME NEW w \in Workers,
               \/ BeginConsolidate(w) \/ BeginEvaluate(w) \/ InsertProposal(w)
               \/ InsertConflict(w) \/ AttachArtifact(w) \/ AttachEvent(w) \/ List(w)
               \/ Take(w) \/ Decide(w) \/ ApplyMemory(w) \/ StartExperiment(w) \/ Mark(w)
               \/ ConsolidateDone(w) \/ Conflict(w) \/ ReadProposal(w) \/ Conclude(w)
               \/ Close(w) \/ EvaluateDone(w) \/ Crash(w) \/ Overrun(w)
        PROVE  UNCHANGED feedback
    BY <1>2 DEF BeginConsolidate, BeginEvaluate, InsertProposal, InsertConflict,
                AttachArtifact, AttachEvent, List, Take, Decide, ApplyMemory, StartExperiment,
                Mark, ConsolidateDone, Conflict, ReadProposal, Conclude, Close, EvaluateDone,
                Crash, Overrun
  <1>3. ASSUME NEW w \in Workers, NEW item \in work[w].listed,
               Propose(w, item) \/ Postpone(w, item) \/ InsertOutcome(w, item)
        PROVE  UNCHANGED feedback
    BY <1>3 DEF Propose, Postpone, InsertOutcome
  <1>4. ASSUME \/ \E a \in Artifacts : Schedule(a)
               \/ \E q \in Proposals : BecomesDue(q)
               \/ UNCHANGED vars
        PROVE  UNCHANGED feedback
    BY <1>4 DEF Schedule, BecomesDue, vars
  <1>5. UNCHANGED feedback => Goal
    BY <1>0
  <1> HIDE DEF Goal
  <1>6. Goal
    BY <1>1, <1>2, <1>3, <1>4, <1>5 DEF Next, Proceeds
  <1> QED BY <1>6 DEF Goal

\* Signals that are positive on the whole have a positive one among them.
LEMMA PositiveWasSaid ==
    ASSUME TypeOK, NEW w \in Workers, NEW p \in Proposals, work[w].heard <= Len(feedback),
           Len(Signals(w, p)) >= MinObservations
    PROVE  \E i \in experiment[p].started + 1 .. work[w].heard :
             IsPositive(Signals(w, p)) => feedback[i] = 1
  <1> DEFINE first == experiment[p].started + 1
             last == work[w].heard
             signals == Signals(w, p)
  <1>1. /\ last \in 1 .. Len(feedback) /\ experiment[p].started \in Nat
        /\ first \in Nat /\ first >= 1 /\ first <= last
    <2>1. Len(feedback) \in Nat /\ MaxFeedback \in Nat
      BY LearningAssumption DEF TypeOK
    <2> QED BY <2>1, HeardSome
  <1>2. /\ signals \in Seq(Said) /\ Len(signals) = last - first + 1
        /\ \A i \in 1 .. last - first + 1 : signals[i] = feedback[first + i - 1]
    <2>1. \A i \in first .. last : feedback[i] \in Said
      BY <1>1 DEF TypeOK
    <2>2. first \in Int /\ last \in Int /\ signals = SubSeq(feedback, first, last)
      BY <1>1 DEF Signals
    <2> HIDE DEF first, last, signals
    <2> QED BY <1>1, <2>1, <2>2, SubSeqProperties
  <1>3. CASE ~IsPositive(signals)
    BY <1>1, <1>3
  <1>4. CASE IsPositive(signals)
    <2> DEFINE ones == {i \in DOMAIN signals : signals[i] = 1}
               minus == {i \in DOMAIN signals : signals[i] = -1}
    <2>1. 5 * (Cardinality(ones) - Cardinality(minus)) >= Len(signals)
      BY <1>4 DEF IsPositive, Total, Times
    <2>2. DOMAIN signals = 1 .. Len(signals) /\ Len(signals) \in Nat /\ Len(signals) >= 1
      BY <1>1, <1>2
    <2>3. IsFiniteSet(minus) /\ Cardinality(minus) \in Nat
      <3>1. IsFiniteSet(1 .. Len(signals))
        BY <2>2, FS_Interval
      <3>2. minus \subseteq 1 .. Len(signals)
        BY <2>2
      <3> QED BY <3>1, <3>2, FS_Subset, FS_CardinalityType
    <2>4. ones # {}
      <3>1. SUFFICES ASSUME ones = {} PROVE FALSE
        OBVIOUS
      <3>2. Cardinality(ones) = 0
        BY <3>1, FS_EmptySet
      <3> HIDE DEF ones, minus, signals
      <3> QED BY <2>1, <2>2, <2>3, <3>2
    <2>5. PICK i \in 1 .. Len(signals) : signals[i] = 1
      BY <2>2, <2>4
    <2>6. /\ feedback[first + i - 1] = 1 /\ first + i - 1 \in first .. last
      <3> HIDE DEF signals, first, last
      <3> QED BY <1>1, <1>2, <2>5
    <2> QED BY <2>6
  <1> QED BY <1>3, <1>4

-----------------------------------------------------------------------------
\* How a worker gets where something rests on what it has done before.
Enters(me, you) ==
    /\ you.heard \in {0, me.heard, Len(feedback)}
    /\ you.at = "decide" /\ you.passed => PassesGates(you.cur)
    /\ you.at = "mark" =>
         /\ me.at = "apply" /\ you.cur = me.cur
         /\ me.cur[2] = "memory" \/ experiment'[me.cur].status # "absent"
    /\ you.at \in Evaluating =>
         \/ you.at = "due" /\ \A item \in you.listed : item[1] \in Due
         \/ me.at \in Evaluating /\ you.listed \subseteq me.listed
    /\ you.at = "verdict" =>
         /\ me.at = "due" /\ \E item \in me.listed : item[1] = you.cur
         /\ \E o \in outcomes'[you.cur] : o[2] = you.passed
    /\ you.at = "conclude" =>
         /\ me.at = "verdict" /\ you.cur = me.cur /\ you.passed = me.passed
         /\ "outcome" \in evidence'[me.cur]
    /\ you.at = "close" =>
         /\ you.cur = me.cur /\ you.passed = me.passed
         /\ \/ me.at = "verdict" /\ ~UnderTest(me.cur)
            \/ me.at = "conclude" /\ proposal'[me.cur].version = 4
    /\ me.at = "mark" => proposal'[me.cur].version >= 3 \/ crashes' # 0

LEMMA WorkerStep ==
    ASSUME TypeOK, HandsAreRight, HistoryIsTold, RowsAreOld, [Next]_vars, NEW v \in Workers
    PROVE  work'[v] = work[v] \/ Enters(work[v], work'[v])
  <1> DEFINE Goal == work'[v] = work[v] \/ Enters(work[v], work'[v])
  <1> USE DEF reflection, trial, faults
  <1>0. /\ \A w \in Workers : work[w] \in Work /\ HandIsRight(work[w])
        /\ Idle \in Work /\ Idle.at = "idle" /\ Idle.heard = 0
    BY IdleType DEF TypeOK, HandsAreRight, Idle
  <1>1. ASSUME NEW w \in Workers, NEW me, Go(w, me), Enters(work[w], me) PROVE Goal
    BY <1>1, GoMoves
  <1>3. ASSUME NEW w \in Workers, NEW place \in {"idle", "artifact", "event", "apply"},
               work[w].at # "mark", Go(w, [work[w] EXCEPT !.at = place])
        PROVE  Goal
    <2>1. Enters(work[w], [work[w] EXCEPT !.at = place])
      BY <1>0, <1>3 DEF Enters, Work, Evaluating
    <2> QED BY <1>1, <1>3, <2>1
  <1>4. ASSUME NEW w \in Workers, work[w].at # "mark", End(w) PROVE Goal
    <2>1. Enters(work[w], Idle)
      BY <1>0, <1>4 DEF Enters, Evaluating
    <2> QED BY <1>1, <1>4, <2>1 DEF End
  <1>5. ASSUME NEW w \in Workers, NEW place \in {"scan", "ready"}, work[w].at # "mark",
               Turn(w, place)
        PROVE  Goal
    <2>1. Enters(work[w], [work[w] EXCEPT !.at = place, !.cur = NoProposal, !.row = NoRow,
                                          !.passed = FALSE])
      BY <1>0, <1>5 DEF Enters, Work, Evaluating
    <2> QED BY <1>1, <1>5, <2>1 DEF Turn
  <1>6. ASSUME NEW w \in Workers, BeginConsolidate(w) PROVE Goal
    <2>1. Enters(work[w], [Idle EXCEPT !.at = "scan", !.listed = {<<p, NoRow>> : p \in wanted}])
      BY <1>0, <1>6 DEF Enters, Idle, Evaluating, BeginConsolidate, MayBegin, At
    <2> QED BY <1>1, <1>6, <2>1 DEF BeginConsolidate
  <1>7. ASSUME NEW w \in Workers, NEW item \in work[w].listed, Propose(w, item) PROVE Goal
    <2>1. /\ Enters(work[w], [work[w] EXCEPT !.at = "insert", !.cur = item[1],
                                             !.listed = @ \ {item}])
          /\ Enters(work[w], [work[w] EXCEPT !.listed = @ \ {item}])
      BY <1>0, <1>7 DEF Enters, Work, Evaluating, Propose, At
    <2> QED BY <1>1, <1>7, <2>1 DEF Propose
  <1>8. ASSUME NEW w \in Workers,
               \/ InsertProposal(w) \/ InsertConflict(w) \/ AttachArtifact(w) \/ AttachEvent(w)
               \/ ConsolidateDone(w) \/ EvaluateDone(w)
        PROVE  Goal
    BY <1>3, <1>4, <1>5, <1>8
       DEF InsertProposal, InsertConflict, AttachArtifact, AttachEvent, ConsolidateDone,
           EvaluateDone, At
  <1>9. ASSUME NEW w \in Workers, List(w) PROVE Goal
    <2>1. Enters(work[w], [work[w] EXCEPT !.at = "ready",
                                          !.listed = {<<p, proposal[p]>> : p \in Pending}])
      BY <1>0, <1>9 DEF Enters, Work, Evaluating, List, At
    <2> QED BY <1>1, <1>9, <2>1 DEF List
  <1>10. ASSUME NEW w \in Workers, Take(w) PROVE Goal
    <2>1. PICK item \in work[w].listed :
            Go(w, [work[w] EXCEPT !.at = NextStep(item[2]), !.cur = item[1], !.row = item[2],
                                  !.listed = @ \ {item}, !.passed = PassesGates(item[1])])
      BY <1>10 DEF Take
    <2>2. Enters(work[w], [work[w] EXCEPT !.at = NextStep(item[2]), !.cur = item[1],
                                          !.row = item[2], !.listed = @ \ {item},
                                          !.passed = PassesGates(item[1])])
      BY <1>0, <1>10 DEF Enters, Work, Evaluating, NextStep, Take, At
    <2> QED BY <1>1, <2>1, <2>2
  <1>11. ASSUME NEW w \in Workers, Decide(w) PROVE Goal
    <2>1. CASE work[w].passed
      <3>1. Enters(work[w], [work[w] EXCEPT !.at = "apply", !.row = Moved(w, "approved"),
                                            !.passed = FALSE])
        BY <1>0, <1>11 DEF Enters, Work, Evaluating, Decide, At
      <3> QED BY <1>1, <1>11, <2>1, <3>1 DEF Decide
    <2>2. CASE ~work[w].passed
      BY <1>5, <1>11, <2>2 DEF Decide, At
    <2> QED BY <2>1, <2>2
  <1>12. ASSUME NEW w \in Workers, ApplyMemory(w) PROVE Goal
    <2>1. Enters(work[w], [work[w] EXCEPT !.at = "mark"])
      BY <1>0, <1>12 DEF Enters, Work, Evaluating, ApplyMemory, At
    <2> QED BY <1>1, <1>5, <1>12, <2>1 DEF ApplyMemory, At
  <1>13. ASSUME NEW w \in Workers, StartExperiment(w) PROVE Goal
    <2>1. work[w].cur \in Proposals
      BY <1>0, <1>13 DEF HandIsRight, Handling, StartExperiment, At
    <2>2. experiment'[work[w].cur].status # "absent"
      <3>1. experiment \in [Proposals -> Experiments]
        BY DEF TypeOK, Experiments
      <3>2. CASE experiment[work[w].cur].status = "absent"
        <4>1. experiment'[work[w].cur] = [experiment[work[w].cur] EXCEPT !.status = "running",
                                                                     !.started = Len(feedback)]
          BY <1>13, <2>1, <3>1, <3>2 DEF StartExperiment
        <4> QED BY <2>1, <3>1, <4>1 DEF Experiments
      <3>3. CASE experiment[work[w].cur].status # "absent"
        BY <1>13, <2>1, <3>1, <3>3 DEF StartExperiment
      <3> QED BY <3>2, <3>3
    <2>3. Enters(work[w], [work[w] EXCEPT !.at = "mark"])
      BY <1>0, <1>13, <2>2 DEF Enters, Work, Evaluating, StartExperiment, At
    <2> QED BY <1>1, <1>13, <2>3 DEF StartExperiment
  <1>14. ASSUME NEW w \in Workers, Mark(w) PROVE Goal
    <2>1. proposal'[work[w].cur].version = 3
      <3>1. /\ work[w].cur \in Proposals
            /\ Change(work[w].cur, "approved",
                      IF work[w].cur[2] = "memory" THEN "applied" ELSE "under_test")
        BY <1>14, MarkChanges
      <3>2. PICK to \in {"applied", "under_test"} : Change(work[w].cur, "approved", to)
        BY <3>1
      <3> QED BY <3>1, <3>2, Versions DEF Change, TypeOK
    <2>2. Enters(work[w], [work[w] EXCEPT !.at = "ready", !.cur = NoProposal, !.row = NoRow,
                                          !.passed = FALSE])
      BY <1>0, <1>14, <2>1 DEF Enters, Work, Evaluating, Mark, At
    <2> QED BY <1>1, <1>14, <2>2 DEF Mark, Turn
  <1>15. ASSUME NEW w \in Workers, Conflict(w) PROVE Goal
    <2>1. CASE At(w, "mark")
      <3>1. /\ work[w].cur \in Proposals /\ work[w].row.version = 2
            /\ proposal[work[w].cur].version # 2
            /\ IsOld(work[w].cur, work[w].row)
        BY <1>15, <2>1, InHand DEF Conflict, Unchanged, At, Handling
      <3>2. proposal'[work[w].cur].version >= 3
        BY <3>1, VersionsGrow DEF IsOld
      <3>3. Enters(work[w], Idle)
        BY <1>0, <2>1, <3>2 DEF Enters, Evaluating, At
      <3> QED BY <1>1, <1>15, <3>3 DEF Conflict, End
    <2>2. CASE ~At(w, "mark")
      BY <1>4, <1>15, <2>2 DEF Conflict, At
    <2> QED BY <2>1, <2>2
  <1>16. ASSUME NEW w \in Workers, BeginEvaluate(w) PROVE Goal
    <2>1. Enters(work[w], [Idle EXCEPT !.at = "due", !.listed = {<<p, NoRow>> : p \in Due},
                                       !.heard = Len(feedback)])
      <3>1. \A item \in {<<p, NoRow>> : p \in Due} : item[1] \in Due
        OBVIOUS
      <3> QED BY <1>0, <1>16, <3>1 DEF Enters, Idle, Evaluating, BeginEvaluate, MayBegin, At
    <2> QED BY <1>1, <1>16, <2>1 DEF BeginEvaluate
  <1>17. ASSUME NEW w \in Workers, NEW item \in work[w].listed, Postpone(w, item) PROVE Goal
    <2>1. Enters(work[w], [work[w] EXCEPT !.listed = @ \ {item}])
      BY <1>0, <1>17 DEF Enters, Work, Evaluating, Postpone, At
    <2> QED BY <1>1, <1>4, <1>17, <2>1 DEF Postpone, At
  <1>18. ASSUME NEW w \in Workers, NEW item \in work[w].listed, InsertOutcome(w, item)
         PROVE  Goal
    <2> DEFINE positive == IsPositive(Signals(w, item[1]))
               you == [work[w] EXCEPT !.at = "verdict", !.cur = item[1], !.listed = @ \ {item},
                                      !.passed = positive]
    <2>1. /\ Go(w, you) /\ At(w, "due")
          /\ outcomes' = [outcomes EXCEPT ![item[1]] = @ \cup {<<work[w].heard, positive>>}]
      BY <1>18 DEF InsertOutcome
    <2>2. \E o \in outcomes'[item[1]] : o[2] = positive
      <3>1. <<work[w].heard, positive>> \in outcomes'[item[1]]
        BY <2>1, ItemTypes DEF TypeOK
      <3>2. <<work[w].heard, positive>>[2] = positive
        OBVIOUS
      <3> QED BY <3>1, <3>2
    <2> HIDE DEF positive
    <2>3. Enters(work[w], you)
      BY <1>0, <2>1, <2>2 DEF Enters, Work, Evaluating, At
    <2> QED BY <1>1, <2>1, <2>3
  <1>19. ASSUME NEW w \in Workers, ReadProposal(w) PROVE Goal
    <2>1. work[w].cur \in Proposals
      BY <1>0, <1>19 DEF HandIsRight, Handling, ReadProposal, At
    <2>2. CASE UnderTest(work[w].cur)
      <3>1. "outcome" \in evidence'[work[w].cur]
        BY <1>19, <2>1, <2>2 DEF ReadProposal, Attach, TypeOK
      <3>2. Enters(work[w], [work[w] EXCEPT !.at = "conclude", !.row = proposal[work[w].cur]])
        BY <1>0, <1>19, <3>1 DEF Enters, Work, Evaluating, ReadProposal, At
      <3> QED BY <1>1, <1>19, <2>2, <3>2 DEF ReadProposal
    <2>3. CASE ~UnderTest(work[w].cur)
      <3>1. Enters(work[w], [work[w] EXCEPT !.at = "close"])
        BY <1>0, <1>19, <2>3 DEF Enters, Work, Evaluating, ReadProposal, At
      <3> QED BY <1>1, <1>19, <2>3, <3>1 DEF ReadProposal
    <2> QED BY <2>2, <2>3
  <1>20. ASSUME NEW w \in Workers, Conclude(w) PROVE Goal
    <2>1. proposal'[work[w].cur].version = 4
      <3>1. /\ work[w].cur \in Proposals
            /\ Change(work[w].cur, "under_test",
                      IF work[w].passed THEN "confirmed" ELSE "rolled_back")
        BY <1>20, ConcludeChanges
      <3>2. PICK to \in {"confirmed", "rolled_back"} : Change(work[w].cur, "under_test", to)
        BY <3>1
      <3> QED BY <3>1, <3>2, Versions DEF Change, TypeOK
    <2>2. Enters(work[w], [work[w] EXCEPT !.at = "close", !.row = NoRow])
      BY <1>0, <1>20, <2>1 DEF Enters, Work, Evaluating, Conclude, At
    <2> QED BY <1>1, <1>20, <2>2 DEF Conclude
  <1>21. ASSUME NEW w \in Workers, Close(w) PROVE Goal
    <2>1. Enters(work[w], [work[w] EXCEPT !.at = "due", !.cur = NoProposal, !.row = NoRow,
                                          !.passed = FALSE])
      BY <1>0, <1>21 DEF Enters, Work, Evaluating, Close, At
    <2> QED BY <1>1, <1>4, <1>21, <2>1 DEF Close, Turn, At
  <1>22. ASSUME NEW w \in Workers, Crash(w) PROVE Goal
    <2>1. crashes' # 0
      BY <1>22 DEF Crash, TypeOK
    <2>2. Enters(work[w], Idle)
      BY <1>0, <2>1 DEF Enters, Evaluating
    <2> QED BY <1>1, <1>22, <2>2 DEF Crash, End
  <1>23. CASE \/ \E a \in Artifacts : Schedule(a)
              \/ \E p \in Proposals : BecomesDue(p)
              \/ \E signal \in Said : UserSays(signal)
              \/ \E w \in Workers : Overrun(w)
              \/ UNCHANGED vars
    BY <1>23 DEF Schedule, BecomesDue, UserSays, Overrun, vars
  <1> QED
    BY <1>6, <1>7, <1>8, <1>9, <1>10, <1>11, <1>12, <1>13, <1>14, <1>15, <1>16, <1>17,
       <1>18, <1>19, <1>20, <1>21, <1>22, <1>23 DEF Next, Proceeds

-----------------------------------------------------------------------------
\* The statuses that a version leaves possible.
LEMMA StatusOfVersion ==
    ASSUME TypeOK, HistoryIsTold, NEW p \in Proposals
    PROVE  /\ proposal[p].version \in 0 .. 4
           /\ proposal[p].version = Version(proposal[p].status)
           /\ proposal[p].version = 3 => proposal[p].status \in {"applied", "under_test"}
           /\ proposal[p].version = 4 => proposal[p].status \in {"confirmed", "rolled_back"}
           /\ proposal[p].version >= 3 \/ proposal[p].status = "approved" => Approved(p)
  <1>1. proposal[p] \in Rows
    BY DEF TypeOK
  <1>2. /\ proposal[p].version \in 0 .. 4 /\ proposal[p].status \in Statuses
        /\ proposal[p].version = Version(proposal[p].status)
    BY <1>1 DEF Rows, HistoryIsTold
  <1>3. /\ proposal[p].version = 3 => proposal[p].status \in {"applied", "under_test"}
        /\ proposal[p].version = 4 => proposal[p].status \in {"confirmed", "rolled_back"}
    BY <1>2, Versions DEF Statuses
  <1>4. ASSUME proposal[p].version >= 3 \/ proposal[p].status = "approved"
        PROVE  Approved(p)
    <2>1. proposal[p].version >= 3 => proposal[p].version = 3 \/ proposal[p].version = 4
      BY <1>2
    <2>2. proposal[p].status \in {"approved", "applied", "under_test", "confirmed", "rolled_back"}
      BY <1>3, <1>4, <2>1
    <2>3. decisions[p] \in {<<"approve">>, <<"approve", "approve">>, <<"approve", "rollback">>}
      BY <2>2, Histories DEF HistoryIsTold
    <2> QED BY <2>3 DEF Approved
  <1> QED BY <1>2, <1>3, <1>4

\* What is applied has been approved.
LEMMA ApplyApproved ==
    ASSUME TypeOK, HandsAreRight, HistoryIsTold, RowsAreOld, NEW w \in Workers,
           work[w].at \in {"apply", "mark"}
    PROVE  work[w].cur \in Proposals /\ Approved(work[w].cur)
  <1>1. /\ work[w].cur \in Proposals
        /\ work[w].row = [status |-> "approved", version |-> 2]
        /\ IsOld(work[w].cur, work[w].row)
    BY InHand DEF Handling
  <1>2. proposal[work[w].cur].status = "approved" \/ proposal[work[w].cur].version > 2
    BY <1>1 DEF IsOld
  <1>3. proposal[work[w].cur].version \in 0 .. 4
    BY <1>1, StatusOfVersion
  <1>4. proposal[work[w].cur].status = "approved" \/ proposal[work[w].cur].version >= 3
    BY <1>2, <1>3
  <1> QED BY <1>1, <1>4, StatusOfVersion

LEMMA GatesStep ==
    ASSUME TypeOK, TypeOK', HandsAreRight, HistoryIsTold, RowsAreOld, GatesWerePassed, [Next]_vars
    PROVE  GatesWerePassed'
  <1>1. ASSUME NEW p \in Proposals, Approved(p)' PROVE PassesGates(p)'
    <2>1. CASE Approved(p)
      BY <2>1, PassesStays DEF GatesWerePassed
    <2>2. CASE ~Approved(p)
      <3>1. PICK q \in Proposals, c \in Legal : Change(q, c[1], c[2]) /\ Why(q, c[2])
        BY <1>1, <2>2, TableStep DEF Approved
      <3>2. q = p
        BY <1>1, <2>2, <3>1 DEF Approved, Change, TypeOK
      <3>3. c[2] = "approved"
        <4>1. decisions[p] = History(c[1]) /\ decisions'[p] = History(c[2])
          BY <3>1, <3>2 DEF HistoryIsTold, Change, TypeOK
        <4> QED BY <1>1, <2>2, <4>1, Histories DEF Approved, Legal
      <3>4. PICK w \in Workers : At(w, "decide") /\ work[w].cur = p /\ work[w].passed
        BY <3>1, <3>2, <3>3 DEF Why
      <3>5. PassesGates(p)
        BY <3>4 DEF GatesWerePassed
      <3> QED BY <3>5, PassesStays
    <2> QED BY <2>1, <2>2
  <1>2. ASSUME NEW w \in Workers, (At(w, "decide") /\ work[w].passed)'
        PROVE  PassesGates(work[w].cur)'
    <2>1. PassesGates(work'[w].cur)
      <3>1. CASE work'[w] = work[w]
        BY <1>2, <3>1 DEF GatesWerePassed, At
      <3>2. CASE Enters(work[w], work'[w])
        BY <1>2, <3>2 DEF Enters, At
      <3> QED BY <3>1, <3>2, WorkerStep
    <2>2. work'[w].cur \in Proposals
      <3>1. HandsAreRight'
        BY HandsStep
      <3> QED BY <1>2, <3>1 DEF HandsAreRight, HandIsRight, Handling, At
    <2>3. ASSUME NEW p \in Proposals, PassesGates(p) PROVE PassesGates(p)'
      BY <2>3, PassesStays
    <2>4. PICK p \in Proposals : p = work'[w].cur
      BY <2>2
    <2> QED BY <2>1, <2>3, <2>4
  <1> QED BY <1>1, <1>2 DEF GatesWerePassed

\* An experiment that has started stays, with its start.
LEMMA StartedStays ==
    ASSUME TypeOK, HandsAreRight, [Next]_vars, NEW p \in Proposals,
           experiment[p].status # "absent"
    PROVE  /\ experiment'[p].status # "absent"
           /\ experiment'[p].started = experiment[p].started
  BY ExperimentSteps DEF ExperimentGoes

LEMMA EffectsStep ==
    ASSUME TypeOK, HandsAreRight, HistoryIsTold, RowsAreOld, EffectsNeedApproval, [Next]_vars
    PROVE  EffectsNeedApproval'
  <1>1. ASSUME NEW p \in Proposals, p \in memories' PROVE Approved(p)'
    <2>1. Approved(p)
      BY <1>1, MemorySteps, ApplyApproved DEF EffectsNeedApproval, At
    <2> QED BY <2>1, ApprovedStays
  <1>2. ASSUME NEW p \in Proposals, experiment'[p].status # "absent"
        PROVE  Approved(p)' /\ p[2] = "policy"
    <2>1. Approved(p) /\ p[2] = "policy"
      <3>1. CASE experiment[p].status # "absent"
        BY <3>1 DEF EffectsNeedApproval
      <3>2. CASE experiment[p].status = "absent"
        <4>1. p[2] = "policy" /\ \E w \in Workers : At(w, "apply") /\ work[w].cur = p
          BY <1>2, <3>2, ExperimentSteps DEF ExperimentGoes
        <4> QED BY <4>1, ApplyApproved DEF At
      <3> QED BY <3>1, <3>2
    <2> QED BY <2>1, ApprovedStays
  <1>3. ASSUME NEW p \in Proposals
        PROVE  /\ proposal'[p].status = "applied" => p[2] = "memory"
               /\ proposal'[p].status = "under_test" => experiment'[p].status # "absent"
    <2>1. CASE proposal'[p] = proposal[p]
      BY <2>1, StartedStays DEF EffectsNeedApproval
    <2>2. CASE proposal'[p] # proposal[p]
      <3>1. PICK q \in Proposals, c \in Legal : Change(q, c[1], c[2]) /\ Why(q, c[2])
        BY <2>2, TableStep
      <3>2. q = p /\ proposal'[p].status = c[2]
        BY <2>2, <3>1 DEF Change, TypeOK
      <3>3. c[2] = "under_test" => experiment[p].status # "absent"
        BY <3>1, <3>2 DEF Why, EffectsNeedApproval
      <3> QED BY <3>1, <3>2, <3>3, StartedStays DEF Why
    <2> QED BY <2>1, <2>2
  <1>4. ASSUME NEW w \in Workers, At(w, "mark")'
        PROVE  (work[w].cur[2] = "memory" \/ experiment[work[w].cur].status # "absent")'
    <2>1. CASE work'[w] = work[w]
      <3>1. At(w, "mark") /\ work[w].cur \in Proposals
        BY <1>4, <2>1 DEF At, HandsAreRight, HandIsRight, Handling
      <3>2. PICK p \in Proposals : p = work[w].cur
        BY <3>1
      <3>3. p[2] = "memory" \/ experiment'[p].status # "absent"
        BY <3>1, <3>2, StartedStays DEF EffectsNeedApproval
      <3> QED BY <2>1, <3>2, <3>3
    <2>2. CASE Enters(work[w], work'[w])
      BY <1>4, <2>2 DEF Enters, At
    <2> QED BY <2>1, <2>2, WorkerStep
  <1> QED BY <1>1, <1>2, <1>3, <1>4 DEF EffectsNeedApproval

-----------------------------------------------------------------------------
LEMMA WasSaidStays ==
    ASSUME TypeOK, HandsAreRight, [Next]_vars, NEW p \in Proposals, NEW o \in outcomes[p],
           WasSaid(p, o)
    PROVE  WasSaid(p, o)'
  <1>1. /\ experiment'[p].status # "absent"
        /\ experiment'[p].started = experiment[p].started
    BY StartedStays DEF WasSaid
  <1>2. PICK i \in experiment[p].started + 1 .. o[1] : o[2] => feedback[i] = 1
    BY DEF WasSaid
  <1>3. /\ experiment[p].started \in Nat /\ o[1] \in Nat /\ o[1] <= Len(feedback)
    <2>1. experiment[p].started \in 0 .. MaxFeedback /\ o[1] \in 1 .. MaxFeedback
      BY DEF TypeOK
    <2> QED BY <2>1, LearningAssumption DEF WasSaid
  <1>4. i \in 1 .. Len(feedback) /\ o[1] <= Len(feedback')
    BY <1>2, <1>3, FeedbackGrows
  <1>5. feedback'[i] = feedback[i]
    BY <1>4, FeedbackGrows
  <1> QED BY <1>1, <1>2, <1>4, <1>5 DEF WasSaid

LEMMA OutcomesWereSaid ==
    ASSUME TypeOK, HandsAreRight, VerdictIsOnRecord, [Next]_vars, NEW p \in Proposals,
           NEW o \in outcomes'[p]
    PROVE  WasSaid(p, o)'
  <1>1. CASE o \in outcomes[p]
    BY <1>1, WasSaidStays DEF VerdictIsOnRecord
  <1>2. ASSUME NEW w \in Workers, At(w, "due"), NEW item \in work[w].listed, item[1] = p,
               Len(Signals(w, p)) >= MinObservations,
               o = <<work[w].heard, IsPositive(Signals(w, p))>>,
               UNCHANGED <<experiment, feedback>>
        PROVE  WasSaid(p, o)'
    <2>1. experiment[p].status # "absent" /\ work[w].heard <= Len(feedback)
      BY <1>2 DEF VerdictIsOnRecord, JudgesRight, At, Evaluating
    <2>2. \E i \in experiment[p].started + 1 .. work[w].heard :
            IsPositive(Signals(w, p)) => feedback[i] = 1
      BY <1>2, <2>1, PositiveWasSaid
    <2>3. o[1] = work[w].heard /\ o[2] = IsPositive(Signals(w, p))
      BY <1>2
    <2>4. WasSaid(p, o)
      BY <2>1, <2>2, <2>3 DEF WasSaid
    <2> QED BY <1>2, <2>4 DEF WasSaid
  <1> QED BY <1>1, <1>2, OutcomeSteps

LEMMA JudgesStep ==
    ASSUME TypeOK, HandsAreRight, HistoryIsTold, RowsAreOld, VerdictIsOnRecord, [Next]_vars,
           NEW w \in Workers
    PROVE  JudgesRight(work[w])'
  <1> DEFINE me == work[w]
             you == work'[w]
  <1>0. JudgesRight(me) /\ HandIsRight(me) /\ me \in Work
    BY DEF VerdictIsOnRecord, HandsAreRight, TypeOK
  <1>h. HandIsRight(you)
    BY HandsStep DEF HandsAreRight
  <1>1. you = me \/ Enters(me, you)
    BY WorkerStep
  <1>2. you.heard <= Len(feedback')
    <2>1. you.heard \in {0, me.heard, Len(feedback)}
      BY <1>1 DEF Enters
    <2>2. me.heard <= Len(feedback) /\ me.heard \in Nat
      BY <1>0 DEF JudgesRight, Work
    <2> HIDE DEF me, you
    <2> QED BY <2>1, <2>2, FeedbackGrows
  <1>3. ASSUME you.at \in Evaluating, NEW item \in you.listed
        PROVE  experiment'[item[1]].status # "absent"
    <2>1. item[1] \in Proposals /\ experiment[item[1]].status # "absent"
      <3>1. CASE item \in me.listed /\ me.at \in Evaluating
        BY <1>0, <3>1, ItemTypes DEF JudgesRight
      <3>2. CASE item[1] \in Due
        BY <3>2 DEF Due
      <3> QED BY <1>1, <1>3, <3>1, <3>2 DEF Enters
    <2> QED BY <2>1, StartedStays
  <1>4. ASSUME you.at \in {"verdict", "conclude", "close"}
        PROVE  \E o \in outcomes'[you.cur] : o[2] = you.passed
    <2>1. you.cur \in Proposals
      BY <1>h, <1>4 DEF HandIsRight, Handling
    <2>2. \A p \in Proposals : outcomes[p] \subseteq outcomes'[p]
      BY OutcomeSteps
    <2>3. CASE /\ you.cur = me.cur /\ you.passed = me.passed
               /\ me.at \in {"verdict", "conclude", "close"}
      BY <1>0, <2>1, <2>2, <2>3 DEF JudgesRight
    <2>4. CASE you.at = "verdict" /\ Enters(me, you)
      BY <2>4 DEF Enters
    <2> QED BY <1>1, <1>4, <2>3, <2>4 DEF Enters
  <1>5. ASSUME you.at = "conclude" PROVE "outcome" \in evidence'[you.cur]
    <2>1. you.cur \in Proposals
      BY <1>h, <1>5 DEF HandIsRight, Handling
    <2>2. CASE you = me
      BY <1>0, <1>5, <2>1, <2>2, EvidenceGrows DEF JudgesRight
    <2>3. CASE Enters(me, you)
      BY <1>5, <2>3 DEF Enters
    <2> QED BY <1>1, <2>2, <2>3
  <1> QED BY <1>2, <1>3, <1>4, <1>5 DEF JudgesRight

LEMMA VerdictStep ==
    ASSUME TypeOK, HandsAreRight, HistoryIsTold, RowsAreOld, VerdictIsOnRecord, [Next]_vars
    PROVE  VerdictIsOnRecord'
  <1>1. ASSUME NEW p \in Proposals, proposal'[p].status \in {"confirmed", "rolled_back"}
        PROVE  /\ "outcome" \in evidence'[p]
               /\ \E o \in outcomes'[p] : o[2] = (proposal'[p].status = "confirmed")
    <2>1. /\ "outcome" \in evidence[p]
          /\ \E o \in outcomes[p] : o[2] = (proposal'[p].status = "confirmed")
      <3>1. CASE proposal'[p] = proposal[p]
        BY <1>1, <3>1 DEF VerdictIsOnRecord
      <3>2. CASE proposal'[p] # proposal[p]
        <4>1. PICK q \in Proposals, c \in Legal : Change(q, c[1], c[2]) /\ Why(q, c[2])
          BY <3>2, TableStep
        <4>2. q = p /\ proposal'[p].status = c[2]
          BY <3>2, <4>1 DEF Change, TypeOK
        <4>3. PICK w \in Workers : /\ At(w, "conclude") /\ work[w].cur = p
                                   /\ work[w].passed = (c[2] = "confirmed")
          BY <1>1, <4>1, <4>2 DEF Why
        <4>4. JudgesRight(work[w])
          BY DEF VerdictIsOnRecord
        <4> QED BY <4>2, <4>3, <4>4 DEF JudgesRight, At
      <3> QED BY <3>1, <3>2
    <2> QED BY <2>1, EvidenceGrows, OutcomeSteps
  <1> QED BY <1>1, OutcomesWereSaid, JudgesStep DEF VerdictIsOnRecord

-----------------------------------------------------------------------------
LEMMA StartingStays ==
    ASSUME TypeOK, HandsAreRight, HistoryIsTold, RowsAreOld, TestsAreFinished, [Next]_vars,
           crashes = 0, crashes' = 0, NEW p \in Proposals, Starting(p)
    PROVE  proposal'[p].version >= 3 \/ Starting(p)'
  <1>1. PICK w \in Workers : At(w, "mark") /\ work[w].cur = p
    BY DEF Starting
  <1>2. CASE work'[w] # work[w]
    BY <1>1, <1>2, WorkerStep DEF Enters, At
  <1>3. CASE work'[w] = work[w] /\ \E v \in Workers : At(v, "close") /\ work[v].cur = p
    <2>1. proposal[p].version = 4
      BY <1>3 DEF TestsAreFinished
    <2> QED BY <2>1, VersionsGrow
  <1>4. CASE work'[w] = work[w] /\ ~\E v \in Workers : At(v, "close") /\ work[v].cur = p
    <2>1. experiment[p].status = "running" /\ ~experiment[p].due
      BY DEF Starting
    <2>2. experiment'[p].status = "running" /\ ~experiment'[p].due
      BY <1>1, <1>4, <2>1, ExperimentSteps DEF ExperimentGoes
    <2> QED BY <1>1, <1>4, <2>2 DEF Starting, At
  <1> QED BY <1>2, <1>3, <1>4

\* What is evaluated is not being started.
LEMMA DueIsUnderTest ==
    ASSUME TypeOK, TestsAreFinished, crashes = 0, NEW p \in Due
    PROVE  p \in Proposals /\ proposal[p].version >= 3
  BY DEF Due, TestsAreFinished, Starting

\* A proposal with an experiment that has a version of 3 and is not under test
\* has been judged.
LEMMA JudgedIfNotUnderTest ==
    ASSUME TypeOK, HistoryIsTold, EffectsNeedApproval, NEW p \in Proposals,
           proposal[p].version >= 3, experiment[p].status # "absent", ~UnderTest(p)
    PROVE  proposal[p].version = 4
  <1>1. p[2] = "policy" /\ (proposal[p].status = "applied" => p[2] = "memory")
    BY DEF EffectsNeedApproval
  <1>2. proposal[p].version # 3
    BY <1>1, StatusOfVersion DEF UnderTest
  <1>3. proposal[p].version \in 0 .. 4
    BY StatusOfVersion
  <1> QED BY <1>2, <1>3

LEMMA CrashesGrow ==
    ASSUME TypeOK, [Next]_vars, crashes' = 0
    PROVE  crashes = 0
  <1> USE DEF faults, trial, reflection
  <1>1. ASSUME NEW w \in Workers, Crash(w) PROVE FALSE
    BY <1>1 DEF TypeOK, Crash
  <1>2. ASSUME NEW w \in Workers,
               \/ BeginConsolidate(w) \/ BeginEvaluate(w) \/ InsertProposal(w)
               \/ InsertConflict(w) \/ AttachArtifact(w) \/ AttachEvent(w) \/ List(w)
               \/ Take(w) \/ Decide(w) \/ ApplyMemory(w) \/ StartExperiment(w) \/ Mark(w)
               \/ ConsolidateDone(w) \/ Conflict(w) \/ ReadProposal(w) \/ Conclude(w)
               \/ Close(w) \/ EvaluateDone(w) \/ Overrun(w)
        PROVE  UNCHANGED crashes
    BY <1>2 DEF BeginConsolidate, BeginEvaluate, InsertProposal, InsertConflict,
                AttachArtifact, AttachEvent, List, Take, Decide, ApplyMemory, StartExperiment,
                Mark, ConsolidateDone, Conflict, ReadProposal, Conclude, Close, EvaluateDone,
                Overrun
  <1>3. ASSUME NEW w \in Workers, NEW item \in work[w].listed,
               Propose(w, item) \/ Postpone(w, item) \/ InsertOutcome(w, item)
        PROVE  UNCHANGED crashes
    BY <1>3 DEF Propose, Postpone, InsertOutcome
  <1>4. ASSUME \/ \E a \in Artifacts : Schedule(a)
               \/ \E q \in Proposals : BecomesDue(q)
               \/ \E signal \in Said : UserSays(signal)
               \/ UNCHANGED vars
        PROVE  UNCHANGED crashes
    BY <1>4 DEF Schedule, BecomesDue, UserSays, vars
  <1> QED BY <1>1, <1>2, <1>3, <1>4 DEF Next, Proceeds

LEMMA TestsStep ==
    ASSUME TypeOK, TypeOK', HandsAreRight, HistoryIsTold, RowsAreOld, EffectsNeedApproval,
           VerdictIsOnRecord, TestsAreFinished, [Next]_vars
    PROVE  TestsAreFinished'
  <1> SUFFICES ASSUME crashes' = 0 PROVE TestsAreFinished'
    BY DEF TestsAreFinished
  <1>1. crashes = 0
    BY CrashesGrow
  <1>2. /\ \A p \in Proposals : proposal[p].version >= 3 => proposal'[p].version >= 3
        /\ \A p \in Proposals : proposal[p].version = 4 => proposal'[p].version = 4
    <2>1. ASSUME NEW p \in Proposals, proposal[p].version >= 3 PROVE proposal'[p].version >= 3
      BY <2>1, VersionsGrow
    <2>2. ASSUME NEW p \in Proposals, proposal[p].version = 4 PROVE proposal'[p].version = 4
      <3>1. proposal'[p].version \in 0 .. 4
        <4>1. proposal'[p] \in Rows
          BY DEF TypeOK
        <4> QED BY <4>1 DEF Rows
      <3> QED BY <2>2, <3>1, VersionsGrow
    <2> QED BY <2>1, <2>2
  <1>3. ASSUME NEW p \in Proposals
        PROVE  /\ experiment'[p].due => experiment'[p].status = "running"
               /\ experiment'[p].status # "absent" => proposal'[p].version >= 3 \/ Starting(p)'
               /\ experiment'[p].status = "completed" => proposal'[p].version = 4
    <2>1. experiment'[p].due => experiment'[p].status = "running"
      BY <1>1, ExperimentSteps DEF ExperimentGoes, TestsAreFinished
    <2>2. ASSUME experiment'[p].status # "absent"
          PROVE  proposal'[p].version >= 3 \/ Starting(p)'
      <3>1. CASE experiment[p].status = "absent"
        <4>1. /\ experiment'[p].status = "running" /\ experiment'[p].due = experiment[p].due
              /\ \E w \in Workers : work'[w].at = "mark" /\ work'[w].cur = p
          BY <2>2, <3>1, ExperimentSteps DEF ExperimentGoes
        <4>2. ~experiment[p].due
          BY <1>1, <3>1 DEF TestsAreFinished
        <4> QED BY <4>1, <4>2 DEF Starting, At
      <3>2. CASE experiment[p].status # "absent"
        <4>1. proposal[p].version >= 3 \/ Starting(p)
          BY <1>1, <3>2 DEF TestsAreFinished
        <4> QED BY <1>1, <1>2, <4>1, StartingStays
      <3> QED BY <3>1, <3>2
    <2>3. ASSUME experiment'[p].status = "completed" PROVE proposal'[p].version = 4
      <3>1. proposal[p].version = 4
        <4>1. \/ experiment[p].status = "completed"
              \/ \E w \in Workers : At(w, "close") /\ work[w].cur = p
          BY <2>3, ExperimentSteps DEF ExperimentGoes
        <4> QED BY <1>1, <4>1 DEF TestsAreFinished
      <3> QED BY <1>2, <3>1
    <2> QED BY <2>1, <2>2, <2>3
  <1>4. ASSUME NEW w \in Workers, work'[w].at \in Evaluating, NEW item \in work'[w].listed
        PROVE  proposal'[item[1]].version >= 3
    <2>1. item[1] \in Proposals /\ proposal[item[1]].version >= 3
      <3>1. CASE item[1] \in Due
        BY <1>1, <3>1, DueIsUnderTest
      <3>2. CASE work[w].at \in Evaluating /\ item \in work[w].listed
        BY <1>1, <3>2, ItemTypes DEF TestsAreFinished
      <3> QED BY <1>4, <3>1, <3>2, WorkerStep DEF Enters
    <2> QED BY <1>2, <2>1
  <1>5. ASSUME NEW w \in Workers, work'[w].at \in {"verdict", "conclude"}
        PROVE  proposal'[work'[w].cur].version >= 3
    <2>1. \/ work[w].at \in {"verdict", "conclude"} /\ work'[w].cur = work[w].cur
          \/ work[w].at = "due" /\ \E item \in work[w].listed : item[1] = work'[w].cur
      BY <1>5, WorkerStep DEF Enters
    <2>2. proposal[work'[w].cur].version >= 3
      BY <1>1, <2>1 DEF TestsAreFinished, Evaluating
    <2>3. work'[w].cur \in Proposals
      BY <1>5, HandsStep DEF HandsAreRight, HandIsRight, Handling
    <2> QED BY <1>2, <2>2, <2>3
  <1>6. ASSUME NEW w \in Workers, At(w, "close")' PROVE proposal'[work'[w].cur].version = 4
    <2>1. work'[w].cur = work[w].cur /\ work[w].cur \in Proposals
      <3>1. work'[w].cur = work[w].cur /\ work[w].at \in {"verdict", "conclude", "close"}
        BY <1>6, WorkerStep DEF Enters, At
      <3> QED BY <3>1 DEF HandsAreRight, HandIsRight, Handling
    <2>2. CASE work'[w] = work[w]
      BY <1>1, <1>2, <1>6, <2>1, <2>2 DEF TestsAreFinished, At
    <2>3. CASE work[w].at = "verdict" /\ ~UnderTest(work[w].cur)
      <3>1. proposal[work[w].cur].version >= 3
        BY <1>1, <2>3 DEF TestsAreFinished
      <3>2. experiment[work[w].cur].status # "absent"
        BY <2>1, <2>3 DEF VerdictIsOnRecord, JudgesRight, WasSaid
      <3>3. proposal[work[w].cur].version = 4
        BY <2>1, <2>3, <3>1, <3>2, JudgedIfNotUnderTest
      <3> QED BY <1>2, <2>1, <3>3
    <2>4. CASE proposal'[work[w].cur].version = 4
      BY <2>1, <2>4
    <2> QED BY <1>6, <2>2, <2>3, <2>4, WorkerStep DEF Enters, At
  <1> QED BY <1>3, <1>4, <1>5, <1>6 DEF TestsAreFinished, At

-----------------------------------------------------------------------------
LEMMA InvInit == Init => TypeOK /\ LearningInv
  <1> SUFFICES ASSUME Init PROVE TypeOK /\ LearningInv
    OBVIOUS
  <1>1. Idle \in Work /\ NoRow \in Rows /\ NoExperiment \in Experiments
    BY IdleType, LearningAssumption DEF Rows, NoRow, Statuses, NoExperiment, Experiments
  <1>2. TypeOK
    <2>1. << >> \in Seq({"approve", "reject", "rollback"}) /\ << >> \in Seq(Said)
          /\ Len(<< >>) = 0
      OBVIOUS
    <2>2. /\ run \in [Artifacts -> {"none", "completed", "skipped"}]
          /\ wanted \in SUBSET Proposals /\ strong \in SUBSET Proposals
          /\ memories \in SUBSET Proposals
          /\ proposal \in [Proposals -> Rows]
          /\ work \in [Workers -> Work]
          /\ crashes \in 0 .. MaxCrashes
      BY <1>1, LearningAssumption DEF Init
    <2>5. overran \in BOOLEAN
      BY DEF Init
    <2>3. /\ evidence \in [Proposals -> SUBSET {"artifact", "event", "outcome"}]
          /\ outcomes \in [Proposals -> SUBSET ((1 .. MaxFeedback) \X BOOLEAN)]
          /\ experiment \in [Proposals -> Experiments]
      BY <1>1 DEF Init
    <2>4. /\ decisions \in [Proposals -> Seq({"approve", "reject", "rollback"})]
          /\ \A p \in Proposals : Len(decisions[p]) <= 2
          /\ feedback \in Seq(Said) /\ Len(feedback) <= MaxFeedback
      BY <2>1, LearningAssumption DEF Init
    <2> QED BY <2>2, <2>3, <2>4, <2>5 DEF TypeOK, Experiments
  <1>3. HandsAreRight
    BY DEF Init, HandsAreRight, HandIsRight, Idle, Handling
  <1>4. HistoryIsTold
    BY Versions, Histories DEF Init, HistoryIsTold, NoRow
  <1>5. RowsAreOld
    BY DEF Init, RowsAreOld, Held, Idle
  <1>6. GatesWerePassed
    BY DEF Init, GatesWerePassed, Approved, At, Idle
  <1>7. EffectsNeedApproval
    BY DEF Init, EffectsNeedApproval, NoExperiment, NoRow, At, Idle
  <1>8. VerdictIsOnRecord
    <2>1. \A w \in Workers : JudgesRight(work[w])
      BY DEF Init, JudgesRight, Idle, Evaluating
    <2> QED BY <2>1 DEF Init, VerdictIsOnRecord, NoRow
  <1>9. TestsAreFinished
    BY DEF Init, TestsAreFinished, NoExperiment, At, Idle, Evaluating
  <1> QED BY <1>2, <1>3, <1>4, <1>5, <1>6, <1>7, <1>8, <1>9 DEF LearningInv

LEMMA InvStep == TypeOK /\ LearningInv /\ [Next]_vars => (TypeOK /\ LearningInv)'
  <1> SUFFICES ASSUME TypeOK, LearningInv, [Next]_vars PROVE (TypeOK /\ LearningInv)'
    OBVIOUS
  <1>1. /\ HandsAreRight /\ HistoryIsTold /\ RowsAreOld /\ GatesWerePassed
        /\ EffectsNeedApproval /\ VerdictIsOnRecord /\ TestsAreFinished
    BY DEF LearningInv
  <1>2. TypeOK'
    BY <1>1, TypeStep
  <1>3. HandsAreRight' /\ HistoryIsTold' /\ RowsAreOld'
    BY <1>1, HandsStep, HistoryStep, RowsStep
  <1>4. GatesWerePassed' /\ EffectsNeedApproval'
    BY <1>1, <1>2, GatesStep, EffectsStep
  <1>5. VerdictIsOnRecord' /\ TestsAreFinished'
    BY <1>1, <1>2, VerdictStep, TestsStep
  <1> QED BY <1>2, <1>3, <1>4, <1>5 DEF LearningInv

\* The inductive invariant holds in every state.
LEMMA Invariance == Spec => [](TypeOK /\ LearningInv)
  BY InvInit, InvStep, PTL DEF Spec

LEMMA InvMeansApproved == TypeOK /\ LearningInv => EffectWasApproved
  BY DEF LearningInv, EffectWasApproved, EffectsNeedApproval, GatesWerePassed, Approved,
         PassesGates

LEMMA InvMeansTested == TypeOK /\ LearningInv => PolicyIsTested
  <1> SUFFICES ASSUME TypeOK, LearningInv PROVE PolicyIsTested
    OBVIOUS
  <1>1. HistoryIsTold /\ EffectsNeedApproval /\ VerdictIsOnRecord /\ TestsAreFinished
    BY DEF LearningInv
  <1>2. VerdictWasObserved
    BY <1>1 DEF VerdictWasObserved, VerdictIsOnRecord, WasSaid
  <1>3. ASSUME NEW p \in Proposals, proposal[p].status = "under_test", crashes = 0
        PROVE  experiment[p].status = "running"
    <2>1. proposal[p].version = 3
      BY <1>1, <1>3, Versions DEF HistoryIsTold
    <2>2. experiment[p].status # "absent" /\ experiment[p].status # "completed"
      BY <1>1, <1>3, <2>1 DEF EffectsNeedApproval, TestsAreFinished
    <2>3. experiment[p].status \in {"absent", "running", "completed"}
      BY DEF TypeOK
    <2> QED BY <2>2, <2>3
  <1> QED BY <1>2, <1>3 DEF PolicyIsTested, TestIsRunning

-----------------------------------------------------------------------------
\* The tables of learning and the hands of the workers keep their types: no
\* decision is appended to a proposal that has been judged.
THEOREM LearningTypeCorrect == Spec => []TypeOK
  BY Invariance, PTL

\* However many processes consolidate and evaluate at the same time, each on
\* rows it has read earlier, every proposal is decided and applied once, and its
\* decisions tell how (append_decision with its compare-and-swap).
THEOREM HistoryStaysTold == Spec => []HistoryIsTold
  <1>1. TypeOK /\ LearningInv => HistoryIsTold
    BY DEF LearningInv
  <1> QED BY Invariance, <1>1, PTL

\* Whatever crashes, a memory or an experiment has an approval, and what was
\* approved passes the gates (_apply_memory, _start_experiment).
THEOREM EffectsWereApproved == Spec => []EffectWasApproved
  BY Invariance, InvMeansApproved, PTL

\* A policy is judged by what the user said since its experiment started, and
\* none is left without a running experiment unless a process died
\* (evaluate_outcomes).
THEOREM PoliciesAreTested == Spec => []PolicyIsTested
  BY Invariance, InvMeansTested, PTL
=============================================================================
