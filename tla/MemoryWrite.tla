------------------------------ MODULE MemoryWrite ------------------------------
(***************************************************************************)
(* The long-term memories (services/memory_write_service.py with           *)
(* storage/memory_repository.py): what a learning task does with the       *)
(* candidates the model has extracted from a turn.                         *)
(*                                                                         *)
(* A candidate whose content an active memory already has is merged into   *)
(* it, one that contradicts a memory marks that memory conflicted, and     *)
(* every other one becomes a memory together with its evidence.  Each      *)
(* statement is a step of its own; the list of candidates is revealed one  *)
(* candidate at a time.  What memories are about, their embeddings and     *)
(* their links are left out: an embedding finds any active memory or none. *)
(***************************************************************************)
EXTENDS Integers, Sequences, FiniteSets

CONSTANTS
    Contents,      \* what a memory may say
    NoContent,     \* no candidate is in hand
    Writers,       \* the learning tasks, pairs of a process and a number
    MaxMemories    \* bound on the rows of the table memories

ASSUME MemoryAssumption ==
    /\ NoContent \notin Contents
    /\ MaxMemories \in Nat \ {0}

VARIABLES
    memories,      \* table memories with memory_evidence, in order of insertion
    memoryStep,    \* where write_candidates of a task is
    memoryHand,    \* the candidate it is busy with
    memoryRow      \* the memory it has found for it

memoryVars == <<memories, memoryStep, memoryHand, memoryRow>>
memoryLocals == <<memoryStep, memoryHand, memoryRow>>

Kinds == {"user_observed", "agent_output", "model_inference"}

\* An event of a turn: its actor, the process that holds the conversation, and
\* the number of the turn.
EventActor(e) == e[1]

NoCandidate == [content |-> NoContent, evidence |-> {}]

MemorySteps == {"idle", "pick", "similar", "support", "contradict", "oppose", "mark",
                "insert"}

Owner(w) == w[1]

MemoryTypeOK(Events) ==
    /\ memories \in Seq([content : Contents, kind : Kinds, by : {Owner(w) : w \in Writers},
                         status : {"active", "conflicted"},
                         supports : SUBSET Events, opposes : SUBSET Events])
    /\ memoryStep \in [Writers -> MemorySteps]
    /\ memoryHand \in [Writers -> [content : Contents \cup {NoContent},
                                   evidence : SUBSET Events]]
    /\ memoryRow \in [Writers -> 0 .. MaxMemories]

MemoryInit ==
    /\ memories = <<>>
    /\ memoryStep = [w \in Writers |-> "idle"]
    /\ memoryHand = [w \in Writers |-> NoCandidate]
    /\ memoryRow = [w \in Writers |-> 0]

Rows == DOMAIN memories

\* Mutant of SourceKind: a word that is not a SourceKind.
SourceKindMisspelt(evidence) ==
    IF \A e \in evidence : EventActor(e) = "user" THEN "user" ELSE "model_inference"

\* source_kind follows from the evidence, not from what the model says.
SourceKind(evidence) ==
    IF \A e \in evidence : EventActor(e) = "user" THEN "user_observed"
    ELSE IF \A e \in evidence : EventActor(e) = "agent" THEN "agent_output"
    ELSE "model_inference"

MemoryGoto(w, step) == memoryStep' = [memoryStep EXCEPT ![w] = step]

Writing(w) == memoryStep[w] # "idle"

-----------------------------------------------------------------------------
\* The model has answered: write_candidates begins.
BeginWrite(w) ==
    /\ MemoryGoto(w, "pick")
    /\ UNCHANGED <<memories, memoryHand, memoryRow>>

EndWrite(w) ==
    /\ memoryStep[w] = "pick"
    /\ MemoryGoto(w, "idle")
    /\ UNCHANGED <<memories, memoryHand, memoryRow>>

Active == {m \in Rows : memories[m].status = "active"}

SameContent(c) == {m \in Active : memories[m].content = c}

\* The next candidate and its find_by_content_hash.  extract_candidates drops
\* one that cites events of another turn; one that cites none cites the turn.
NextCandidate(w, turnEvents) ==
    /\ memoryStep[w] = "pick"
    /\ Len(memories) + Cardinality({x \in Writers \ {w} : Writing(x)}) < MaxMemories
    /\ \E c \in Contents, evidence \in (SUBSET turnEvents) \ {{}} :
         /\ memoryHand' = [memoryHand EXCEPT ![w] = [content |-> c, evidence |-> evidence]]
         /\ IF SameContent(c) # {}
              THEN /\ \E m \in SameContent(c) : memoryRow' = [memoryRow EXCEPT ![w] = m]
                   /\ MemoryGoto(w, "support")
              ELSE MemoryGoto(w, "similar") /\ UNCHANGED memoryRow
    /\ UNCHANGED memories

\* find_similar: an active memory above the threshold takes the evidence.
FindSimilar(w) ==
    /\ memoryStep[w] = "similar"
    /\ \/ \E m \in Active :
            /\ memoryRow' = [memoryRow EXCEPT ![w] = m]
            /\ MemoryGoto(w, "support")
       \/ /\ MemoryGoto(w, "contradict")
          /\ UNCHANGED memoryRow
    /\ UNCHANGED <<memories, memoryHand>>

DropCandidate(w) ==
    /\ MemoryGoto(w, "pick")
    /\ memoryHand' = [memoryHand EXCEPT ![w] = NoCandidate]
    /\ memoryRow' = [memoryRow EXCEPT ![w] = 0]

\* add_evidence, one event at a time.
AddSupport(w) ==
    /\ memoryStep[w] = "support"
    /\ \E e \in memoryHand[w].evidence :
         /\ memories' = [memories EXCEPT ![memoryRow[w]].supports = @ \cup {e}]
         /\ IF memoryHand[w].evidence = {e}
              THEN DropCandidate(w)
              ELSE /\ memoryHand' = [memoryHand EXCEPT ![w].evidence = @ \ {e}]
                   /\ UNCHANGED <<memoryStep, memoryRow>>

AfterContradiction == "oppose"

\* The memory nearest to contradiction_query, if there is such a query and one
\* is near enough.
FindContradicted(w) ==
    /\ memoryStep[w] = "contradict"
    /\ \/ \E m \in Active :
            /\ memoryRow' = [memoryRow EXCEPT ![w] = m]
            /\ MemoryGoto(w, AfterContradiction)
       \/ MemoryGoto(w, "insert") /\ UNCHANGED memoryRow
    /\ UNCHANGED <<memories, memoryHand>>

AddContradiction(w) ==
    /\ memoryStep[w] = "oppose"
    /\ \E e \in memoryHand[w].evidence :
         memories' = [memories EXCEPT ![memoryRow[w]].opposes = @ \cup {e}]
    /\ MemoryGoto(w, "mark")
    /\ UNCHANGED <<memoryHand, memoryRow>>

\* Mutant of AfterConflict: what contradicts a memory is not remembered itself.
AfterConflictPick == "pick"

AfterConflict == "insert"

MarkConflicted(w) ==
    /\ memoryStep[w] = "mark"
    /\ memories' = [memories EXCEPT ![memoryRow[w]].status = "conflicted"]
    /\ MemoryGoto(w, AfterConflict)
    /\ UNCHANGED <<memoryHand, memoryRow>>

\* insert_bundle: the memory and its evidence, in one savepoint.
InsertMemory(w) ==
    /\ memoryStep[w] = "insert"
    /\ memories' = Append(memories,
                     [content |-> memoryHand[w].content,
                      kind |-> SourceKind(memoryHand[w].evidence), by |-> Owner(w),
                      status |-> "active",
                      supports |-> memoryHand[w].evidence, opposes |-> {}])
    /\ DropCandidate(w)

WriteStep(w, turnEvents) ==
    \/ NextCandidate(w, turnEvents)
    \/ FindSimilar(w)
    \/ AddSupport(w)
    \/ FindContradicted(w) \/ AddContradiction(w) \/ MarkConflicted(w)
    \/ InsertMemory(w)

\* The process of the tasks ws dies.
LoseWrites(ws) ==
    /\ memoryStep' = [w \in Writers |-> IF w \in ws THEN "idle" ELSE memoryStep[w]]
    /\ memoryHand' = [w \in Writers |-> IF w \in ws THEN NoCandidate ELSE memoryHand[w]]
    /\ memoryRow' = [w \in Writers |-> IF w \in ws THEN 0 ELSE memoryRow[w]]
    /\ UNCHANGED memories
=============================================================================
