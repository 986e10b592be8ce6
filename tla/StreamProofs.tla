------------------------------ MODULE StreamProofs ------------------------------
(***************************************************************************)
(* Proofs about the parts MCStream checks scene by scene, for every value  *)
(* of the constants: the files of the coding workspace, the pieces of a    *)
(* streamed call, the route to the model, the shelf of skills, the tool    *)
(* loop of a turn, and the terminal's files and its view.  Each part has   *)
(* an invariant of its own; the last section puts them together for        *)
(* StreamSpec.                                                             *)
(***************************************************************************)
EXTENDS MCStream, FiniteSetTheorems, SequenceTheorems, TLAPS

-----------------------------------------------------------------------------
(***************************************************************************)
(* Workspace: what the editors know of the file.                           *)
(***************************************************************************)
Versions == 0 .. MaxWrites

Served ==
    {Idle} \cup [op : {"read"}, editor : Editors, time : Versions]
           \cup [op : {"save"}, editor : Editors, insist : BOOLEAN]
           \cup [op : {"stat"}, editor : Editors, text : Versions]

\* Editor e may lose version v without being told: it knows it, or a process
\* wrote it while the gateway served a save.
Excused(e, v) == v \in known[e] \cup raced

\* The time an editor has is that of a version it knows, or older than the file.
TimeIsTold(e) == open[e].time < disk.time \/ Excused(e, open[e].time) \/ open[e].text = -1

\* What the gateway has found out of the file while it serves a request.
HandlerIsRight ==
    /\ handler.op = "read" => handler.time <= disk.time
    /\ handler.op \in {"save", "stat"} => open[handler.editor].text # -1
    /\ handler.op = "save" => writes < MaxWrites
    /\ handler.op = "save" /\ ~handler.insist => Excused(handler.editor, disk.text)
    /\ handler.op = "stat" => Excused(handler.editor, disk.text)

WorkspaceInv ==
    /\ WorkspaceTypeOK
    /\ handler \in Served
    /\ disk = [text |-> writes, time |-> writes]
    /\ \A e \in Editors : TimeIsTold(e)
    /\ HandlerIsRight
    /\ EditsAreKept

WorkspaceSpec == WorkspaceInit /\ [][WorkspaceNext]_workspaceVars

LEMMA WorkspaceStarts == WorkspaceInit => WorkspaceInv
  <1> SUFFICES ASSUME WorkspaceInit PROVE WorkspaceInv
    OBVIOUS
  <1> USE DEF WorkspaceInit
  <1>1. WorkspaceTypeOK
    BY WorkspaceAssumption DEF WorkspaceTypeOK
  <1>2. handler \in Served
    BY DEF Served
  <1>3. HandlerIsRight /\ EditsAreKept /\ \A e \in Editors : TimeIsTold(e)
    BY DEF HandlerIsRight, EditsAreKept, TimeIsTold, Idle
  <1> QED BY <1>1, <1>2, <1>3 DEF WorkspaceInv

\* The fields of a request that is served.
LEMMA ServedFields ==
    ASSUME handler \in Served
    PROVE  /\ handler.op \in {"none", "read", "save", "stat"}
           /\ handler.op = "none" <=> handler = Idle
           /\ handler.op # "none" => handler.editor \in Editors
           /\ handler.op = "read" => handler.time \in Versions
           /\ handler.op = "save" => handler.insist \in BOOLEAN
           /\ handler.op = "stat" => handler.text \in Versions
  BY DEF Served, Idle

\* A step that writes, serves and opens nothing.
LEMMA WorkspaceRests ==
    ASSUME WorkspaceInv, UNCHANGED <<disk, writes, open, known, handler, lost, raced>>, shells' \subseteq Shells
    PROVE  WorkspaceInv'
  BY DEF WorkspaceInv, WorkspaceTypeOK, HandlerIsRight, EditsAreKept, TimeIsTold, Excused

LEMMA BeginReadKeeps ==
    ASSUME WorkspaceInv, NEW e \in Editors, BeginRead(e)
    PROVE  WorkspaceInv'
  <1> USE DEF BeginRead
  <1>1. disk.time = writes /\ writes \in Versions
    BY DEF WorkspaceInv, WorkspaceTypeOK, Versions
  <1>2. handler' = [op |-> "read", editor |-> e, time |-> writes]
    BY <1>1
  <1>3. handler' \in Served
    BY <1>1, <1>2 DEF Served
  <1>4. HandlerIsRight'
    BY <1>1, <1>2 DEF HandlerIsRight, Versions
  <1> QED BY <1>3, <1>4 DEF WorkspaceInv, WorkspaceTypeOK, EditsAreKept, TimeIsTold, Excused

LEMMA BeginSaveKeeps ==
    ASSUME WorkspaceInv, NEW e \in Editors, NEW insist \in BOOLEAN, BeginSave(e, insist)
    PROVE  WorkspaceInv'
  <1> USE DEF BeginSave
  <1>1. UNCHANGED <<disk, writes, open, known, shells, lost, raced>>
    OBVIOUS
  <1>2. CASE insist \/ disk.time = open[e].time
    <2>1. handler' = [op |-> "save", editor |-> e, insist |-> insist]
      BY <1>2
    <2>2. handler' \in Served
      BY <2>1 DEF Served
    <2>3. ~insist => Excused(e, disk.text)
      <3>1. TimeIsTold(e) /\ disk.time = writes /\ disk.text = writes /\ writes \in Nat
        BY DEF WorkspaceInv, WorkspaceTypeOK
      <3> QED BY <3>1, <1>2 DEF TimeIsTold
    <2>4. HandlerIsRight'
      BY <2>1, <2>3, <1>1 DEF HandlerIsRight, Excused
    <2> QED BY <2>2, <2>4, <1>1 DEF WorkspaceInv, WorkspaceTypeOK, EditsAreKept, TimeIsTold, Excused
  <1>3. CASE ~(insist \/ disk.time = open[e].time)
    <2>1. handler' = Idle
      BY <1>3
    <2>2. HandlerIsRight' /\ handler' \in Served
      BY <2>1 DEF HandlerIsRight, Idle, Served
    <2> QED BY <2>2, <1>1 DEF WorkspaceInv, WorkspaceTypeOK, EditsAreKept, TimeIsTold, Excused
  <1> QED BY <1>2, <1>3

LEMMA EndReadKeeps ==
    ASSUME WorkspaceInv, EndRead
    PROVE  WorkspaceInv'
  <1>0. handler.op # "none"
    BY DEF EndRead
  <1> PICK e \in Editors : e = handler.editor
    BY <1>0, ServedFields DEF WorkspaceInv
  <1>1. /\ handler.op = "read" /\ handler' = Idle
        /\ open' = [open EXCEPT ![e] = [text |-> disk.text, time |-> handler.time]]
        /\ known' = [known EXCEPT ![e] = @ \cup {disk.text}]
        /\ UNCHANGED <<disk, writes, shells, lost, raced>>
    BY DEF EndRead
  <1>2. e \in Editors /\ handler.time \in Versions /\ handler.time <= disk.time
    BY <1>1, ServedFields DEF WorkspaceInv, HandlerIsRight
  <1>3. disk.time = writes /\ disk.text = writes /\ writes \in Versions
    BY DEF WorkspaceInv, WorkspaceTypeOK, Versions
  <1>4. open' \in [Editors -> [text : -1 .. MaxWrites, time : -1 .. MaxWrites]]
    BY <1>1, <1>2, <1>3 DEF WorkspaceInv, WorkspaceTypeOK, Versions
  <1>5. known' \in [Editors -> SUBSET Versions]
    BY <1>1, <1>2, <1>3 DEF WorkspaceInv, WorkspaceTypeOK, Versions
  <1>6. \A x \in Editors : TimeIsTold(x)'
    <2>1. ASSUME NEW x \in Editors, x # e PROVE TimeIsTold(x)'
      <3>1. open'[x] = open[x] /\ known'[x] = known[x]
        BY <2>1, <1>1 DEF WorkspaceInv, WorkspaceTypeOK
      <3> QED BY <3>1, <1>1 DEF WorkspaceInv, TimeIsTold, Excused
    <2>2. TimeIsTold(e)'
      <3>1. open'[e].time = handler.time /\ writes \in known'[e]
        BY <1>1, <1>2, <1>3 DEF WorkspaceInv, WorkspaceTypeOK
      <3> QED BY <3>1, <1>1, <1>2, <1>3 DEF TimeIsTold, Excused, Versions
    <2> QED BY <2>1, <2>2
  <1>7. HandlerIsRight' /\ handler' \in Served
    BY <1>1 DEF HandlerIsRight, Idle, Served
  <1> QED BY <1>1, <1>4, <1>5, <1>6, <1>7 DEF WorkspaceInv, WorkspaceTypeOK, EditsAreKept, Versions

LEMMA ReplaceKeeps ==
    ASSUME WorkspaceInv, Replace
    PROVE  WorkspaceInv'
  <1>0. handler.op # "none"
    BY DEF Replace
  <1> PICK e \in Editors : e = handler.editor
    BY <1>0, ServedFields DEF WorkspaceInv
  <1>1. /\ handler.op = "save"
        /\ disk' = [text |-> writes + 1, time |-> writes + 1] /\ writes' = writes + 1
        /\ lost' = (IF handler.insist \/ disk.text \in known[e] THEN lost ELSE lost \cup {disk.text})
        /\ known' = [known EXCEPT ![e] = @ \cup {writes + 1}]
        /\ handler' = [op |-> "stat", editor |-> e, text |-> writes + 1]
        /\ UNCHANGED <<open, shells, raced>>
    BY DEF Replace, Write
  <1>2. e \in Editors /\ handler.insist \in BOOLEAN /\ writes < MaxWrites /\ open[e].text # -1
        /\ (~handler.insist => Excused(e, disk.text))
    BY <1>1, ServedFields DEF WorkspaceInv, HandlerIsRight
  <1>3. disk.time = writes /\ disk.text = writes /\ writes \in Versions /\ writes + 1 \in Versions
    BY <1>2, WorkspaceAssumption DEF WorkspaceInv, WorkspaceTypeOK, Versions
  <1>4. known' \in [Editors -> SUBSET Versions] /\ \A x \in Editors : known[x] \subseteq known'[x]
    BY <1>1, <1>2, <1>3 DEF WorkspaceInv, WorkspaceTypeOK, Versions
  <1>5. lost' \subseteq raced' /\ lost' \subseteq Versions
    BY <1>1, <1>2, <1>3 DEF WorkspaceInv, WorkspaceTypeOK, EditsAreKept, Excused, Versions
  <1>6. \A x \in Editors : TimeIsTold(x)'
    <2>1. ASSUME NEW x \in Editors PROVE TimeIsTold(x)'
      <3>1. TimeIsTold(x) /\ open[x].time \in -1 .. MaxWrites /\ disk'.time = disk.time + 1
        BY <1>1, <1>3 DEF WorkspaceInv, WorkspaceTypeOK
      <3> QED BY <3>1, <1>1, <1>3, <1>4 DEF TimeIsTold, Excused, Versions
    <2> QED BY <2>1
  <1>7. handler' \in Served
    BY <1>1, <1>2, <1>3 DEF Served
  <1>8. HandlerIsRight'
    <2>1. writes + 1 \in known'[e]
      BY <1>1, <1>2 DEF WorkspaceInv, WorkspaceTypeOK
    <2> QED BY <2>1, <1>1, <1>2 DEF HandlerIsRight, Excused
  <1>9. disk' \in [text : 0 .. MaxWrites, time : 0 .. MaxWrites] /\ writes' \in 0 .. MaxWrites
    BY <1>1, <1>3 DEF Versions
  <1> QED BY <1>1, <1>4, <1>5, <1>6, <1>7, <1>8, <1>9 DEF WorkspaceInv, WorkspaceTypeOK, EditsAreKept, Versions

LEMMA EndSaveKeeps ==
    ASSUME WorkspaceInv, EndSave
    PROVE  WorkspaceInv'
  <1>0. handler.op # "none"
    BY DEF EndSave
  <1> PICK e \in Editors : e = handler.editor
    BY <1>0, ServedFields DEF WorkspaceInv
  <1>1. /\ handler.op = "stat" /\ handler' = Idle
        /\ open' = [open EXCEPT ![e] = [text |-> handler.text, time |-> disk.time]]
        /\ UNCHANGED <<disk, writes, known, shells, lost, raced>>
    BY DEF EndSave
  <1>2. e \in Editors /\ handler.text \in Versions /\ Excused(e, disk.text)
    BY <1>1, ServedFields DEF WorkspaceInv, HandlerIsRight
  <1>3. disk.time = writes /\ disk.text = writes /\ writes \in Versions
    BY DEF WorkspaceInv, WorkspaceTypeOK, Versions
  <1>4. open' \in [Editors -> [text : -1 .. MaxWrites, time : -1 .. MaxWrites]]
    BY <1>1, <1>2, <1>3 DEF WorkspaceInv, WorkspaceTypeOK, Versions
  <1>5. \A x \in Editors : TimeIsTold(x)'
    <2>1. ASSUME NEW x \in Editors, x # e PROVE TimeIsTold(x)'
      <3>1. open'[x] = open[x]
        BY <2>1, <1>1 DEF WorkspaceInv, WorkspaceTypeOK
      <3> QED BY <3>1, <1>1 DEF WorkspaceInv, TimeIsTold, Excused
    <2>2. TimeIsTold(e)'
      <3>1. open'[e].time = writes
        BY <1>1, <1>2, <1>3 DEF WorkspaceInv, WorkspaceTypeOK
      <3> QED BY <3>1, <1>1, <1>2, <1>3 DEF TimeIsTold, Excused
    <2> QED BY <2>1, <2>2
  <1>6. HandlerIsRight' /\ handler' \in Served
    BY <1>1 DEF HandlerIsRight, Idle, Served
  <1> QED BY <1>1, <1>4, <1>5, <1>6 DEF WorkspaceInv, WorkspaceTypeOK, EditsAreKept

\* A command writes, or a tool while the gateway serves nothing else.
LEMMA WritingKeeps ==
    ASSUME WorkspaceInv, disk' = [text |-> writes + 1, time |-> writes + 1], writes' = writes + 1,
           writes < MaxWrites, handler.op \in {"save", "stat"} => writes < MaxWrites - 1,
           raced' = IF handler.op \in {"save", "stat"} THEN raced \cup {writes + 1} ELSE raced,
           UNCHANGED <<open, known, handler, shells, lost>>
    PROVE  WorkspaceInv'
  <1>1. disk.time = writes /\ disk.text = writes /\ writes \in Versions /\ writes + 1 \in Versions
        /\ MaxWrites \in Nat
    BY WorkspaceAssumption DEF WorkspaceInv, WorkspaceTypeOK, Versions
  <1>2. raced \subseteq raced' /\ raced' \subseteq Versions
    BY <1>1 DEF WorkspaceInv, WorkspaceTypeOK, Versions
  <1>3. \A x \in Editors : TimeIsTold(x)'
    <2>1. ASSUME NEW x \in Editors PROVE TimeIsTold(x)'
      <3>1. TimeIsTold(x) /\ open[x].time \in -1 .. MaxWrites /\ disk'.time = disk.time + 1
        BY <1>1 DEF WorkspaceInv, WorkspaceTypeOK
      <3> QED BY <3>1, <1>1, <1>2 DEF TimeIsTold, Excused, Versions
    <2> QED BY <2>1
  <1>4. HandlerIsRight'
    <2>1. handler.op = "read" => handler.time \in Versions /\ handler.time <= disk.time
      BY ServedFields DEF WorkspaceInv, HandlerIsRight
    <2>2. handler.op \in {"save", "stat"} => disk'.text \in raced'
      OBVIOUS
    <2>3. handler.op = "save" => writes' < MaxWrites
      BY <1>1 DEF Versions
    <2>4. handler.op = "read" => handler'.time <= disk'.time
      BY <2>1, <1>1 DEF Versions
    <2>5. handler.op \in {"save", "stat"} => open[handler.editor].text # -1
      BY DEF WorkspaceInv, HandlerIsRight
    <2> QED BY <2>2, <2>3, <2>4, <2>5 DEF HandlerIsRight, Excused
  <1>5. disk' \in [text : 0 .. MaxWrites, time : 0 .. MaxWrites] /\ writes' \in 0 .. MaxWrites
    BY <1>1 DEF Versions
  <1> QED BY <1>2, <1>3, <1>4, <1>5 DEF WorkspaceInv, WorkspaceTypeOK, EditsAreKept, Versions

LEMMA WorkspaceSteps == WorkspaceInv /\ [WorkspaceNext]_workspaceVars => WorkspaceInv'
  <1> SUFFICES ASSUME WorkspaceInv, [WorkspaceNext]_workspaceVars PROVE WorkspaceInv'
    OBVIOUS
  <1>0. writes \in 0 .. MaxWrites /\ shells \subseteq Shells /\ MaxWrites \in Nat
    BY WorkspaceAssumption DEF WorkspaceInv, WorkspaceTypeOK
  <1>1. CASE UNCHANGED workspaceVars
    BY <1>0, <1>1, WorkspaceRests DEF workspaceVars
  <1>2. ASSUME NEW e \in Editors, BeginRead(e) \/ \E insist \in BOOLEAN : BeginSave(e, insist)
        PROVE  WorkspaceInv'
    BY <1>2, BeginReadKeeps, BeginSaveKeeps
  <1>3. ASSUME NEW s \in Shells, RunCommand(s) \/ CommandReturns(s) PROVE WorkspaceInv'
    BY <1>0, <1>3, WorkspaceRests DEF RunCommand, CommandReturns
  <1>4. CASE CommandWrites
    BY <1>0, <1>4, WritingKeeps DEF CommandWrites, Write
  <1>5. CASE ToolWrites
    <2>1. handler.op = "none"
      BY <1>5 DEF ToolWrites, Idle
    <2> QED BY <1>5, <2>1, WritingKeeps DEF ToolWrites, Write
  <1> QED BY <1>1, <1>2, <1>3, <1>4, <1>5, EndReadKeeps, ReplaceKeeps, EndSaveKeeps DEF WorkspaceNext

\* A save never replaces text its editor has not seen, but for what a process
\* wrote while it was served, for any editors, commands and number of writes
\* (read_workspace_file, write_workspace_file).
THEOREM EditsStayKept == WorkspaceSpec => [](WorkspaceTypeOK /\ EditsAreKept)
  <1>1. WorkspaceInv => WorkspaceTypeOK /\ EditsAreKept
    BY DEF WorkspaceInv
  <1> QED BY <1>1, WorkspaceStarts, WorkspaceSteps, PTL DEF WorkspaceSpec

-----------------------------------------------------------------------------
(***************************************************************************)
(* ToolChunks: the calls of a streamed response.                           *)
(***************************************************************************)
\* What has been put together of a call when n of its pieces have arrived.
Assembled(i, n) ==
    LET id == sent[i].id.pieces
        name == sent[i].name.pieces
    IN  CASE n = 0 -> NoFragment
          [] n = 1 -> [id |-> id[1], name |-> name[1], arguments |-> <<<<i, 1>>>>]
          [] n = 2 -> [id |-> Merged(id[1], id[2]), name |-> Merged(name[1], name[2]),
                       arguments |-> <<<<i, 1>>, <<i, 2>>>>]

ChunksInv ==
    /\ sent \in [1 .. CallCount -> [id : Sendings \cup {Missing}, name : Sendings]]
    /\ ChunksTypeOK
    /\ fragments = [i \in 1 .. CallCount |-> Assembled(i, arrived[i])]
    /\ streamed = "parsed" => \A i \in 1 .. CallCount : arrived[i] = 2

ChunksSpec == ChunksInit /\ [][ChunksNext]_chunkVars

\* The first piece is taken as it is.
LEMMA MergedFirst == ASSUME NEW piece PROVE Merged(<<>>, piece) = piece
  BY DEF Merged

LEMMA SuffixOfItself == ASSUME NEW S, NEW s \in Seq(S) PROVE IsSuffix(s, s)
  <1>1. Len(Reverse(s)) = Len(s) /\ Len(s) \in Nat
    BY DEF Reverse
  <1> QED BY <1>1 DEF IsSuffix, IsPrefix

\* _merge_stream_identifier puts an identifier together, however it was sent,
\* unless it was cut where its rest repeats the end of its beginning.
LEMMA MergedIsWhole ==
    ASSUME NEW s \in Sendings \cup {Missing}
    PROVE  Merged(s.pieces[1], s.pieces[2]) = s.whole \/ Ambiguous(s)
  <1>1. CASE s = Missing
    BY <1>1 DEF Missing, Merged
  <1>2. CASE s \in Sendings
    <2>1. PICK w \in Identifiers : s.whole = w /\ s.pieces \in Ways(w)
      BY <1>2 DEF Sendings
    <2>2. w \in Seq(ToSet(w)) /\ w # <<>> /\ Len(w) \in Nat
      BY <2>1, ChunksAssumption
    <2>3. CASE s.pieces = <<w, <<>>>>
      BY <2>1, <2>3 DEF Merged
    <2>4. CASE s.pieces = <<w, w>>
      BY <2>1, <2>2, <2>4, SuffixOfItself DEF Merged
    <2>5. ASSUME NEW k \in 1 .. Len(w) - 1, s.pieces = <<SubSeq(w, 1, k), SubSeq(w, k + 1, Len(w))>>
          PROVE  Merged(s.pieces[1], s.pieces[2]) = s.whole \/ Ambiguous(s)
      <3> DEFINE a == SubSeq(w, 1, k)
                 b == SubSeq(w, k + 1, Len(w))
      <3>1. Len(a) = k /\ Len(b) = Len(w) - k
        BY <2>2
      <3>2. a \o b = w
        <4>1. a \o b = SubSeq(w, 1, Len(w))
          BY <2>2, ConcatAdjacentSubSeq
        <4> QED BY <4>1, <2>2, SubSeqFull
      <3>3. s.pieces[1] = a /\ s.pieces[2] = b
        BY <2>5
      <3> HIDE DEF a, b
      <3>4. Len(a) # 0 /\ Len(b) # 0 /\ Len(a) # Len(w)
        BY <2>2, <3>1
      <3>5. a # <<>> /\ b # <<>> /\ a # w
        BY <3>4
      <3> QED BY <2>1, <3>2, <3>3, <3>5 DEF Merged, Ambiguous
    <2> QED BY <2>1, <2>3, <2>4, <2>5 DEF Ways
  <1> QED BY <1>1, <1>2

LEMMA ChunksStart == ChunksInit => ChunksInv
  BY ChunksAssumption DEF ChunksInit, ChunksInv, ChunksTypeOK, Assembled

LEMMA ChunkKeeps ==
    ASSUME ChunksInv, NEW i \in 1 .. CallCount, Chunk(i)
    PROVE  ChunksInv'
  <1> DEFINE n == arrived[i] + 1
  <1>1. arrived[i] \in {0, 1} /\ n \in {1, 2}
    BY DEF ChunksInv, ChunksTypeOK, Chunk
  <1>2. /\ arrived' = [arrived EXCEPT ![i] = n]
        /\ fragments' = [fragments EXCEPT ![i] =
               [id |-> Merged(fragments[i].id, sent[i].id.pieces[n]),
                name |-> Merged(fragments[i].name, sent[i].name.pieces[n]),
                arguments |-> Append(fragments[i].arguments, <<i, n>>)]]
        /\ UNCHANGED <<sent, streamed>> /\ streamed = "open"
    BY DEF Chunk, ChunksInv
  <1>3. fragments[i] = Assembled(i, arrived[i])
    BY DEF ChunksInv
  <1>4. fragments'[i] = Assembled(i, n)
    <2>0. fragments'[i] = [id |-> Merged(fragments[i].id, sent[i].id.pieces[n]),
                           name |-> Merged(fragments[i].name, sent[i].name.pieces[n]),
                           arguments |-> Append(fragments[i].arguments, <<i, n>>)]
      BY <1>2 DEF ChunksInv
    <2>1. CASE arrived[i] = 0
      <3>1. fragments[i].id = <<>> /\ fragments[i].name = <<>> /\ fragments[i].arguments = <<>> /\ n = 1
        BY <1>3, <2>1 DEF Assembled, NoFragment
      <3>2. fragments'[i] = [id |-> sent[i].id.pieces[1], name |-> sent[i].name.pieces[1],
                             arguments |-> <<<<i, 1>>>>]
        BY <2>0, <3>1, MergedFirst
      <3> QED BY <3>1, <3>2 DEF Assembled
    <2>2. CASE arrived[i] = 1
      <3>1. /\ fragments[i].id = sent[i].id.pieces[1] /\ fragments[i].name = sent[i].name.pieces[1]
            /\ fragments[i].arguments = <<<<i, 1>>>> /\ n = 2
        BY <1>3, <2>2 DEF Assembled
      <3>2. fragments'[i] = [id |-> Merged(sent[i].id.pieces[1], sent[i].id.pieces[2]),
                             name |-> Merged(sent[i].name.pieces[1], sent[i].name.pieces[2]),
                             arguments |-> <<<<i, 1>>, <<i, 2>>>>]
        BY <2>0, <3>1
      <3> QED BY <3>1, <3>2 DEF Assembled
    <2> QED BY <1>1, <2>1, <2>2
  <1>6. fragments' = [j \in 1 .. CallCount |-> Assembled(j, arrived'[j])]
    BY <1>1, <1>2, <1>4 DEF ChunksInv, ChunksTypeOK
  <1>7. \A j \in 1 .. CallCount : \A m \in 0 .. 2 : Assembled(j, m)' = Assembled(j, m)
    BY <1>2 DEF Assembled
  <1>8. ChunksTypeOK'
    BY <1>1, <1>2 DEF ChunksInv, ChunksTypeOK
  <1>9. fragments' = [j \in 1 .. CallCount |-> Assembled(j, arrived[j])]'
    BY <1>2, <1>6 DEF Assembled
  <1> QED BY <1>2, <1>8, <1>9 DEF ChunksInv

LEMMA ChunksStep == ChunksInv /\ [ChunksNext]_chunkVars => ChunksInv'
  <1> SUFFICES ASSUME ChunksInv, [ChunksNext]_chunkVars PROVE ChunksInv'
    OBVIOUS
  <1>1. CASE StreamEnds
    <2>1. UNCHANGED <<sent, arrived, fragments>> /\ streamed' \in {"parsed", "broken"}
          /\ (streamed' = "parsed" => \A i \in 1 .. CallCount : arrived[i] = 2)
      BY <1>1 DEF StreamEnds
    <2> QED BY <2>1 DEF ChunksInv, ChunksTypeOK, Assembled
  <1>2. CASE UNCHANGED chunkVars
    BY <1>2 DEF ChunksInv, ChunksTypeOK, Assembled, chunkVars
  <1> QED BY <1>1, <1>2, ChunkKeeps DEF ChunksNext

LEMMA ChunksAreWhole == ChunksInv => CallsAreWhole
  <1> SUFFICES ASSUME ChunksInv, streamed = "parsed", NEW i \in 1 .. CallCount
               PROVE  /\ fragments[i].id = sent[i].id.whole \/ Ambiguous(sent[i].id)
                      /\ fragments[i].name = sent[i].name.whole \/ Ambiguous(sent[i].name)
                      /\ fragments[i].arguments = <<<<i, 1>>, <<i, 2>>>>
    BY DEF CallsAreWhole
  <1>1. fragments[i] = Assembled(i, 2)
    BY DEF ChunksInv
  <1>2. sent[i].id \in Sendings \cup {Missing} /\ sent[i].name \in Sendings \cup {Missing}
    BY DEF ChunksInv
  <1> QED BY <1>1, <1>2, MergedIsWhole DEF Assembled

\* A response that is parsed has the calls the provider sent, whatever their
\* number and their identifiers, and however their pieces were mixed
\* (_invoke_stream, _merge_stream_identifier).
THEOREM CallsStayWhole == ChunksSpec => [](ChunksTypeOK /\ CallsAreWhole)
  <1>1. ChunksInv => ChunksTypeOK
    BY DEF ChunksInv
  <1> QED BY <1>1, ChunksStart, ChunksStep, ChunksAreWhole, PTL DEF ChunksSpec
-----------------------------------------------------------------------------
(***************************************************************************)
(* ModelRoute: what the model is asked, and how often.                     *)
(***************************************************************************)
Adapters == [protocol : Protocols, model : Models, fallback : BOOLEAN]

Requests ==
    [phase : {"out", "answered"}, adapter : Nat, model : Models, json : BOOLEAN,
     endpoint : {"main", "chat"}, posts : Nat, invalid : Nat, exhausted : Nat,
     got : Outcomes \cup {"none"}]

\* A request that is out, or has an answer, is counted by the budgets of the
\* adapter it went to.
Proper(r) ==
    LET a == adapters[r.adapter] IN
    /\ r \in Requests
    /\ r.adapter \in 1 .. Len(adapters)
    /\ r.model = a.model
    /\ a.protocol = "deepseek" =>
          /\ r.posts = 1 + r.invalid + r.exhausted
          /\ r.invalid <= JsonRetries /\ r.exhausted <= ResourceRetries
    /\ a.protocol = "responses" => r.posts <= (IF r.endpoint = "main" THEN 1 ELSE 2)
    /\ a.protocol \in {"lite", "none"} => r.posts = 1
    /\ r.phase = "answered" /\ a.protocol = "deepseek" => r.got = "good" \/ (r.got = "empty" /\ ~r.json)

RouteInv ==
    /\ adapters \in Seq(Adapters)
    /\ router.delegate \in 1 .. Len(adapters)
    /\ router.model = adapters[router.delegate].model
    /\ DOMAIN request = Requesters
    /\ \A c \in Requesters : request[c] \in {NoRequest, [phase |-> "failed"]} \/ Proper(request[c])
    /\ learnt \subseteq 1 .. Len(adapters)
    /\ \A i \in 1 .. Len(adapters) : adapters[i].fallback => i \in learnt

RouteSpec == RouteInit /\ [][RouteNext]_routeVars

LEMMA RouteStarts == RouteInit => RouteInv
  <1> SUFFICES ASSUME NEW p \in {"none", "deepseek"}, NEW m \in Models,
                      adapters = <<Adapter(p, m)>>, router = [delegate |-> 1, model |-> m],
                      request = [c \in Requesters |-> NoRequest], learnt = {}
               PROVE  RouteInv
    BY DEF RouteInit
  <1>1. Adapter(p, m) \in Adapters /\ Adapter(p, m).model = m /\ ~Adapter(p, m).fallback
    BY DEF Adapter, Adapters, Protocols
  <1> HIDE DEF Adapter
  <1>2. adapters \in Seq(Adapters) /\ Len(adapters) = 1 /\ adapters[1] = Adapter(p, m)
    BY <1>1
  <1> QED BY <1>1, <1>2 DEF RouteInv

\* The adapters keep their protocol and their model.
SameRoutes ==
    /\ adapters' \in Seq(Adapters)
    /\ Len(adapters) <= Len(adapters')
    /\ \A i \in 1 .. Len(adapters) :
          adapters'[i].protocol = adapters[i].protocol /\ adapters'[i].model = adapters[i].model

LEMMA ProperStays ==
    ASSUME adapters \in Seq(Adapters), SameRoutes, NEW r, Proper(r)
    PROVE  Proper(r)'
  <1> DEFINE n == Len(adapters)
             k == Len(adapters')
  <1>1. n \in Nat /\ k \in Nat /\ n <= k /\ r.adapter \in 1 .. n
    BY DEF SameRoutes, Proper
  <1> HIDE DEF n, k
  <1>2. r.adapter \in 1 .. k
    BY <1>1
  <1>3. adapters'[r.adapter].protocol = adapters[r.adapter].protocol
        /\ adapters'[r.adapter].model = adapters[r.adapter].model
    BY DEF SameRoutes, Proper
  <1> QED BY <1>2, <1>3 DEF Proper, k

LEMMA ConfigureKeeps ==
    ASSUME RouteInv, NEW p \in FrontendProtocols, NEW m \in Models, Configure(p, m)
    PROVE  RouteInv'
  <1> DEFINE n == Len(adapters)
  <1>1. adapters' = Append(adapters, Adapter(p, m)) /\ router' = [delegate |-> n + 1, model |-> m]
        /\ UNCHANGED <<request, learnt>> /\ adapters \in Seq(Adapters) /\ n \in Nat
    BY DEF Configure, RouteInv
  <1>2. Adapter(p, m) \in Adapters /\ Adapter(p, m).model = m /\ ~Adapter(p, m).fallback
    BY DEF Adapter, Adapters, Protocols
  <1>3. /\ adapters' \in Seq(Adapters) /\ Len(adapters') = n + 1
        /\ \A i \in 1 .. n : adapters'[i] = adapters[i]
        /\ adapters'[n + 1] = Adapter(p, m)
    BY <1>1, <1>2, AppendProperties
  <1>4. SameRoutes
    BY <1>1, <1>3 DEF SameRoutes
  <1>5. \A i \in 1 .. Len(adapters') : i \in 1 .. n \/ i = n + 1
    BY <1>1, <1>3
  <1>6. \A c \in Requesters : request'[c] \in {NoRequest, [phase |-> "failed"]} \/ Proper(request[c])'
    BY <1>1, <1>4, ProperStays DEF RouteInv
  <1>7. \A i \in 1 .. Len(adapters') : adapters'[i].fallback => i \in learnt'
    BY <1>1, <1>2, <1>3, <1>5 DEF RouteInv
  <1>8. learnt' \subseteq 1 .. Len(adapters')
    BY <1>1, <1>3 DEF RouteInv
  <1>9. router'.delegate \in 1 .. Len(adapters') /\ router'.model = adapters'[router'.delegate].model
    BY <1>1, <1>2, <1>3
  <1>10. DOMAIN request' = Requesters
    BY <1>1 DEF RouteInv
  <1> QED BY <1>3, <1>6, <1>7, <1>8, <1>9, <1>10 DEF RouteInv

\* One request is made, asked again, or ended.
LEMMA RequestMoves ==
    ASSUME RouteInv, UNCHANGED <<adapters, router, learnt>>, NEW c \in Requesters, NEW r, Becomes(c, r),
           r = [phase |-> "failed"] \/ Proper(r)
    PROVE  RouteInv'
  <1>1. \A x \in Requesters : request'[x] = request[x] \/ request'[x] = r
    BY DEF Becomes, RouteInv
  <1>2. \A x : Proper(x) => Proper(x)'
    BY DEF Proper
  <1>3. \A x \in Requesters : request'[x] \in {NoRequest, [phase |-> "failed"]} \/ Proper(request'[x])
    BY <1>1 DEF RouteInv
  <1>4. (\A x \in Requesters : request[x] \in {NoRequest, [phase |-> "failed"]} \/ Proper(request[x]))'
    BY <1>3 DEF Proper
  <1> QED BY <1>4 DEF RouteInv, Becomes

LEMMA AskKeeps ==
    ASSUME RouteInv, NEW c \in Requesters, NEW json \in BOOLEAN, Ask(c, json)
    PROVE  RouteInv'
  <1> DEFINE a == adapters[router.delegate]
             r == RouteRequest(json)
  <1>1. a \in Adapters /\ router.delegate \in 1 .. Len(adapters) /\ router.model = a.model
    BY DEF RouteInv
  <1>2. r \in Requests
    BY <1>1 DEF RouteRequest, Requests, Adapters
  <1>3. Proper(r)
    BY <1>1, <1>2, RouteAssumption DEF RouteRequest, Proper
  <1> QED BY <1>3, RequestMoves DEF Ask

LEMMA RejectKeeps ==
    ASSUME RouteInv, NEW c \in Requesters, Reject(c)
    PROVE  RouteInv'
  BY RequestMoves DEF Reject, Failed

\* A request that is out, and the forms it may take next.
LEMMA OutIsProper ==
    ASSUME RouteInv, NEW c \in Requesters, Out(c)
    PROVE  /\ Proper(request[c]) /\ request[c].phase = "out"
           /\ AdapterOf(c) \in Adapters
  <1>1. request[c] \notin {NoRequest, [phase |-> "failed"]}
    BY DEF Out, NoRequest
  <1> QED BY <1>1 DEF RouteInv, Out, Proper, AdapterOf

LEMMA AnsweredKeeps ==
    ASSUME RouteInv, NEW c \in Requesters, Out(c), NEW got \in Outcomes, Answered(c, got),
           AdapterOf(c).protocol = "deepseek" => got = "good" \/ (got = "empty" /\ ~request[c].json),
           UNCHANGED <<adapters, router, learnt>>
    PROVE  RouteInv'
  <1> DEFINE r == [request[c] EXCEPT !.phase = "answered", !.got = got]
  <1>1. Proper(request[c])
    BY OutIsProper
  <1>2. r \in Requests
    BY <1>1 DEF Proper, Requests
  <1>3. Proper(r)
    BY <1>1, <1>2 DEF Proper, Requests, AdapterOf
  <1> QED BY <1>3, RequestMoves DEF Answered

LEMMA FailedKeeps ==
    ASSUME RouteInv, NEW c \in Requesters, Failed(c), UNCHANGED <<adapters, router, learnt>>
    PROVE  RouteInv'
  BY RequestMoves DEF Failed

\* A request that is sent again.
LEMMA SentAgain ==
    ASSUME NEW q \in Requests, NEW p \in Nat, NEW n \in Nat
    PROVE  /\ [q EXCEPT !.exhausted = n, !.posts = p] \in Requests
           /\ [q EXCEPT !.invalid = n, !.posts = p] \in Requests
           /\ [q EXCEPT !.endpoint = "chat", !.posts = p] \in Requests
  BY DEF Requests

LEMMA DeepSeekKeeps ==
    ASSUME RouteInv, NEW c \in Requesters, Out(c), NEW got \in Outcomes, DeepSeekReceives(c, got)
    PROVE  RouteInv'
  <1>1. AdapterOf(c).protocol = "deepseek" /\ UNCHANGED <<adapters, router, learnt>>
    BY DEF DeepSeekReceives
  <1>2. Proper(request[c]) /\ request[c] \in Requests
    BY OutIsProper DEF Proper
  <1>3. ASSUME request[c].exhausted < ResourceRetries, Again(c, "exhausted") PROVE RouteInv'
    <2> DEFINE q == request[c]
               n == q.exhausted + 1
               p == q.posts + 1
               r == [q EXCEPT !.exhausted = n, !.posts = p]
    <2>1. Becomes(c, r)
      BY <1>3 DEF Again
    <2>2. q \in Requests /\ n \in Nat /\ p \in Nat
      BY <1>2 DEF Requests
    <2>3. /\ q.adapter \in 1 .. Len(adapters) /\ q.model = adapters[q.adapter].model /\ q.phase = "out"
          /\ adapters[q.adapter].protocol = "deepseek"
          /\ p = 1 + q.invalid + q.exhausted + 1
          /\ q.invalid <= JsonRetries /\ q.exhausted <= ResourceRetries
          /\ q.invalid \in Nat /\ q.exhausted \in Nat
      BY <1>1, <1>2, OutIsProper DEF Proper, AdapterOf, Requests
    <2>4. n <= ResourceRetries
      BY <1>3, <2>3, RouteAssumption
    <2>5. p = 1 + q.invalid + n
      BY <2>2, <2>3
    <2> HIDE DEF q, n, p
    <2>6. r \in Requests
      BY <2>2, SentAgain
    <2>7. /\ r.exhausted = n /\ r.posts = p
          /\ \A f \in {"phase", "adapter", "model", "invalid"} : r[f] = q[f]
      BY <2>2 DEF Requests
    <2> HIDE DEF r
    <2>8. Proper(r)
      BY <2>3, <2>4, <2>5, <2>6, <2>7 DEF Proper
    <2> QED BY <1>1, <2>1, <2>8, RequestMoves
  <1>4. ASSUME request[c].invalid < JsonRetries, Again(c, "invalid") PROVE RouteInv'
    <2> DEFINE q == request[c]
               n == q.invalid + 1
               p == q.posts + 1
               r == [q EXCEPT !.invalid = n, !.posts = p]
    <2>1. Becomes(c, r)
      BY <1>4 DEF Again
    <2>2. q \in Requests /\ n \in Nat /\ p \in Nat
      BY <1>2 DEF Requests
    <2>3. /\ q.adapter \in 1 .. Len(adapters) /\ q.model = adapters[q.adapter].model /\ q.phase = "out"
          /\ adapters[q.adapter].protocol = "deepseek"
          /\ p = 1 + q.invalid + q.exhausted + 1
          /\ q.invalid <= JsonRetries /\ q.exhausted <= ResourceRetries
          /\ q.invalid \in Nat /\ q.exhausted \in Nat
      BY <1>1, <1>2, OutIsProper DEF Proper, AdapterOf, Requests
    <2>4. n <= JsonRetries
      BY <1>4, <2>3, RouteAssumption
    <2>5. p = 1 + n + q.exhausted
      BY <2>2, <2>3
    <2> HIDE DEF q, n, p
    <2>6. r \in Requests
      BY <2>2, SentAgain
    <2>7. /\ r.invalid = n /\ r.posts = p
          /\ \A f \in {"phase", "adapter", "model", "exhausted"} : r[f] = q[f]
      BY <2>2 DEF Requests
    <2> HIDE DEF r
    <2>8. Proper(r)
      BY <2>3, <2>4, <2>5, <2>6, <2>7 DEF Proper
    <2> QED BY <1>1, <2>1, <2>8, RequestMoves
  <1>5. CASE Failed(c)
    BY <1>1, <1>5, FailedKeeps
  <1>6. CASE got = "good" \/ (got = "empty" /\ ~request[c].json)
    <2>1. CASE Answered(c, got)
      BY <1>1, <1>6, <2>1, AnsweredKeeps
    <2> QED BY <1>4, <1>5, <1>6, <2>1 DEF DeepSeekReceives
  <1>7. CASE ~(got = "good" \/ (got = "empty" /\ ~request[c].json))
    BY <1>3, <1>4, <1>5, <1>7 DEF DeepSeekReceives
  <1> QED BY <1>6, <1>7

LEMMA LiteKeeps ==
    ASSUME RouteInv, NEW c \in Requesters, Out(c), NEW got \in Outcomes, LiteReceives(c, got)
    PROVE  RouteInv'
  BY AnsweredKeeps, FailedKeeps DEF LiteReceives

LEMMA ResponsesKeeps ==
    ASSUME RouteInv, NEW c \in Requesters, Out(c), NEW got \in Outcomes, ResponsesReceives(c, got)
    PROVE  RouteInv'
  <1>1. AdapterOf(c).protocol = "responses" /\ request[c].endpoint = "main"
        /\ UNCHANGED <<adapters, router, learnt>>
    BY DEF ResponsesReceives
  <1>2. CASE got = "refused"
    <2> DEFINE q == request[c]
               p == q.posts + 1
               r == [q EXCEPT !.endpoint = "chat", !.posts = p]
    <2>1. Becomes(c, r)
      BY <1>2 DEF ResponsesReceives
    <2>2. /\ q \in Requests /\ p \in Nat /\ p <= 2 /\ q.phase = "out"
          /\ q.adapter \in 1 .. Len(adapters) /\ q.model = adapters[q.adapter].model
          /\ adapters[q.adapter].protocol = "responses"
      BY <1>1, OutIsProper DEF Proper, Requests, AdapterOf
    <2> HIDE DEF q, p
    <2>3. r \in Requests
      BY <2>2, SentAgain
    <2>4. /\ r.endpoint = "chat" /\ r.posts = p
          /\ \A f \in {"phase", "adapter", "model"} : r[f] = q[f]
      BY <2>2 DEF Requests
    <2> HIDE DEF r
    <2>5. Proper(r)
      BY <2>2, <2>3, <2>4 DEF Proper
    <2> QED BY <1>1, <2>1, <2>5, RequestMoves
  <1>3. CASE got = "error"
    BY <1>1, <1>3, FailedKeeps DEF ResponsesReceives
  <1>4. CASE got \notin {"refused", "error"}
    BY <1>1, <1>4, AnsweredKeeps DEF ResponsesReceives
  <1> QED BY <1>2, <1>3, <1>4

LEMMA FallbackIsKept == ASSUME NEW a \in Adapters PROVE [a EXCEPT !.fallback = TRUE] \in Adapters
  BY DEF Adapters

LEMMA ChatKeeps ==
    ASSUME RouteInv, NEW c \in Requesters, Out(c), NEW got \in Outcomes, ChatReceives(c, got)
    PROVE  RouteInv'
  <1>1. CASE Failed(c) /\ UNCHANGED <<adapters, learnt>>
    BY <1>1, FailedKeeps DEF ChatReceives
  <1>2. CASE /\ Answered(c, got)
             /\ adapters' = [adapters EXCEPT ![request[c].adapter].fallback = TRUE]
             /\ learnt' = learnt \cup {request[c].adapter}
    <2>1. AdapterOf(c).protocol = "responses" /\ UNCHANGED router
      BY DEF ChatReceives
    <2> DEFINE k == request[c].adapter
               r == [request[c] EXCEPT !.phase = "answered", !.got = got]
    <2>2. Proper(request[c]) /\ k \in 1 .. Len(adapters) /\ adapters \in Seq(Adapters)
          /\ adapters[k].protocol = "responses"
      BY <2>1, OutIsProper DEF Proper, RouteInv, AdapterOf
    <2> HIDE DEF k
    <2>3. adapters' = [adapters EXCEPT ![k] = [adapters[k] EXCEPT !.fallback = TRUE]]
      BY <1>2 DEF k
    <2>4. [adapters[k] EXCEPT !.fallback = TRUE] \in Adapters
      BY <2>2, FallbackIsKept, ElementOfSeq
    <2>5. adapters' \in Seq(Adapters) /\ Len(adapters') = Len(adapters)
          /\ \A i \in 1 .. Len(adapters) :
                adapters'[i] = IF i = k THEN [adapters[k] EXCEPT !.fallback = TRUE] ELSE adapters[i]
      BY <2>2, <2>3, <2>4, ExceptSeq
    <2>6. SameRoutes
      <3>1. \A i \in 1 .. Len(adapters) : adapters[i] \in Adapters
        BY <2>2
      <3> QED BY <2>5, <3>1 DEF SameRoutes, Adapters
    <2>7. Proper(r)
      <3>1. r \in Requests
        BY <2>2 DEF Proper, Requests
      <3> QED BY <2>2, <3>1 DEF Proper, Requests, k
    <2>8. request' = [request EXCEPT ![c] = r] /\ DOMAIN request = Requesters
      BY <1>2 DEF Answered, Becomes, RouteInv
    <2> HIDE DEF r
    <2>9. \A x \in Requesters : request'[x] \in {NoRequest, [phase |-> "failed"]} \/ Proper(request'[x])
      BY <2>7, <2>8 DEF RouteInv
    <2>10. \A x : Proper(x) => Proper(x)'
      BY <2>2, <2>6, ProperStays
    <2> QED BY <1>2, <2>1, <2>2, <2>5, <2>6, <2>8, <2>9, <2>10 DEF RouteInv, k
  <1> QED BY <1>1, <1>2 DEF ChatReceives

LEMMA RouteSteps == RouteInv /\ [RouteNext]_routeVars => RouteInv'
  <1> SUFFICES ASSUME RouteInv, [RouteNext]_routeVars PROVE RouteInv'
    OBVIOUS
  <1>1. CASE UNCHANGED routeVars
    BY <1>1 DEF RouteInv, routeVars, Proper
  <1>2. ASSUME NEW c \in Requesters, Receive(c) PROVE RouteInv'
    BY <1>2, DeepSeekKeeps, LiteKeeps, ResponsesKeeps, ChatKeeps DEF Receive
  <1> QED BY <1>1, <1>2, ConfigureKeeps, RejectKeeps, AskKeeps DEF RouteNext

LEMMA RouteHolds == RouteInv => RouteTypeOK /\ RouteIsKept
  <1> SUFFICES ASSUME RouteInv PROVE RouteTypeOK /\ RouteIsKept
    OBVIOUS
  <1>1. ASSUME NEW c \in Requesters, request[c].phase \in {"out", "answered"}
        PROVE  /\ request[c].model = AdapterOf(c).model
               /\ request[c].posts <= Limit(AdapterOf(c).protocol)
               /\ request[c].phase = "answered" /\ AdapterOf(c).protocol = "deepseek" =>
                     request[c].got = "good" \/ (request[c].got = "empty" /\ ~request[c].json)
    <2>1. Proper(request[c])
      BY <1>1 DEF RouteInv, NoRequest
    <2>2. AdapterOf(c) \in Adapters /\ request[c] \in Requests
      BY <2>1 DEF Proper, RouteInv, AdapterOf
    <2>3. request[c].posts <= Limit(AdapterOf(c).protocol)
      BY <2>1, <2>2, RouteAssumption
      DEF Proper, Limit, AdapterOf, Adapters, Requests, Protocols, FrontendProtocols
    <2> QED BY <2>1, <2>3 DEF Proper, AdapterOf
  <1>2. \A i \in DOMAIN adapters : adapters[i].protocol \in Protocols /\ adapters[i].model \in Models
    <2>1. adapters \in Seq(Adapters) /\ DOMAIN adapters = 1 .. Len(adapters)
      BY DEF RouteInv
    <2>2. \A i \in DOMAIN adapters : adapters[i] \in Adapters
      BY <2>1, ElementOfSeq
    <2> QED BY <2>2 DEF Adapters
  <1>3. \A c \in Requesters : request[c].phase \in {"idle", "out", "answered", "failed"}
    BY DEF RouteInv, NoRequest, Proper, Requests
  <1> QED BY <1>1, <1>2, <1>3 DEF RouteInv, RouteTypeOK, RouteIsKept, Adapters

\* Whatever is configured while requests are out, each goes to one adapter with
\* its model, within the budget of its retries, for any number of requesters,
\* routes and retries (RoutedLLMAdapter, DeepSeekV4Adapter, OpenAIResponsesAdapter).
THEOREM RoutesStayKept == RouteSpec => [](RouteTypeOK /\ RouteIsKept)
  BY RouteStarts, RouteSteps, RouteHolds, PTL DEF RouteSpec
-----------------------------------------------------------------------------
(***************************************************************************)
(* SkillShelf: a skill is as the client was told.                          *)
(***************************************************************************)
Contents == {"main"} \cup UNION {Range(a) : a \in Archives}

Directories == [have : SUBSET Contents, want : SUBSET Contents]

Wishes == {"on", "off", "gone"}

Handled ==
    {AtRest} \cup [op : {"unpack"}, skill : Skills, wish : {"on"}, left : Seq(Contents), zip : BOOLEAN]
             \cup [op : {"record", "switch", "rmtree", "forget", "answer"}, skill : Skills, wish : Wishes]

Busy(s) == handling.op # "none" /\ handling.skill = s

SwitchedOff(s) == s \in DOMAIN switches /\ ~switches[s]

\* How far a request has come.
HandlingIsRight ==
    /\ handling.op = "unpack" =>
          /\ handling.skill \in DOMAIN dirs \ unfinished
          /\ standing[handling.skill] # "on"
          /\ dirs[handling.skill].have \cup Range(handling.left) \cup {"main"} = dirs[handling.skill].want
    /\ handling.op = "record" =>
          /\ handling.wish = "on" /\ standing[handling.skill] # "on"
          /\ Loadable(handling.skill)
          /\ dirs[handling.skill].have = dirs[handling.skill].want
    /\ handling.op = "switch" => handling.wish # "gone" /\ Loadable(handling.skill)
    /\ handling.op = "rmtree" => handling.wish = "gone" /\ handling.skill \in DOMAIN dirs
    /\ handling.op = "forget" => handling.wish = "gone" /\ handling.skill \notin DOMAIN dirs
    /\ handling.op = "answer" =>
          /\ handling.wish = "on" => Available(handling.skill)
          /\ handling.wish = "off" => SwitchedOff(handling.skill)
          /\ handling.wish = "gone" => handling.skill \notin DOMAIN dirs

\* What is off has an entry that says so, or no directory, at any time but while
\* it is installed or switched on.
OffIsOff ==
    \A s \in Skills :
        standing[s] = "off" /\ s \notin misread /\ ~(Busy(s) /\ handling.wish = "on") =>
            SwitchedOff(s) \/ s \notin DOMAIN dirs

\* What is on is offered and what is gone is not there, but for the skill of a
\* request that changes that; a directory is complete but while a request fills
\* or empties it.
RestIsTold ==
    /\ \A s \in Skills : standing[s] = "on" /\ ~(Busy(s) /\ handling.wish # "on") => Available(s)
    /\ \A s \in Skills : ~Busy(s) /\ standing[s] = "gone" => s \notin DOMAIN dirs
    /\ \A s \in DOMAIN dirs \ unfinished :
          ~(Busy(s) /\ handling.op \in {"unpack", "rmtree"}) => dirs[s].have = dirs[s].want

ShelfInv ==
    /\ ShelfTypeOK
    /\ \A s \in DOMAIN dirs : dirs[s] \in Directories
    /\ handling \in Handled
    /\ HandlingIsRight
    /\ OffIsOff
    /\ RestIsTold

ShelfSpec == ShelfInit /\ [][ShelfNext]_shelfVars

LEMMA ShelfStarts == ShelfInit => ShelfInv
  <1> SUFFICES ASSUME ShelfInit PROVE ShelfInv
    OBVIOUS
  <1>1. DOMAIN dirs = {} /\ DOMAIN switches = {} /\ Range(switches) = {} /\ handling = AtRest
        /\ standing = [s \in Skills |-> "nothing"] /\ unfinished = {} /\ misread = {}
    BY DEF ShelfInit, Range
  <1>2. ShelfTypeOK
    BY <1>1 DEF ShelfTypeOK
  <1>3. HandlingIsRight /\ handling \in Handled
    BY <1>1 DEF HandlingIsRight, Handled, AtRest
  <1>4. OffIsOff /\ RestIsTold
    BY <1>1 DEF OffIsOff, RestIsTold
  <1> QED BY <1>1, <1>2, <1>3, <1>4 DEF ShelfInv

\* The fields of a request that is handled.
LEMMA HandledFields ==
    ASSUME handling \in Handled
    PROVE  /\ handling.op \in {"none", "unpack", "record", "switch", "rmtree", "forget", "answer"}
           /\ handling.op = "none" <=> handling = AtRest
           /\ handling.op # "none" => handling.skill \in Skills /\ handling.wish \in Wishes
           /\ handling.op = "unpack" =>
                 handling.left \in Seq(Contents) /\ handling.zip \in BOOLEAN /\ handling.wish = "on"
           /\ handling.op \notin {"none", "unpack"} =>
                 handling = [op |-> handling.op, skill |-> handling.skill, wish |-> handling.wish]
  BY DEF Handled, AtRest, Wishes

LEMMA FilesAreContents ==
    ASSUME NEW a \in Archives
    PROVE  a \in Seq(Contents) /\ Range(a) \subseteq Contents
  <1>1. Range(a) \subseteq Contents /\ a \in Seq(Range(a))
    BY ShelfAssumption DEF Contents
  <1> QED BY <1>1, SeqMonotonic

LEMMA RangeOfTail ==
    ASSUME NEW S, NEW s \in Seq(S), s # <<>>
    PROVE  Range(s) = {Head(s)} \cup Range(Tail(s))
  <1> DEFINE n == Len(s)
  <1>1. /\ n \in Nat \ {0} /\ DOMAIN s = 1 .. n /\ Head(s) = s[1]
        /\ DOMAIN Tail(s) = 1 .. n - 1 /\ \A i \in 1 .. n - 1 : Tail(s)[i] = s[i + 1]
    OBVIOUS
  <1> HIDE DEF n
  <1>2. ASSUME NEW i \in 1 .. n PROVE s[i] \in {Head(s)} \cup Range(Tail(s))
    <2>1. i = 1 \/ (i - 1 \in 1 .. n - 1 /\ s[i] = Tail(s)[i - 1])
      BY <1>1
    <2> QED BY <1>1, <2>1 DEF Range
  <1>3. ASSUME NEW i \in 1 .. n - 1 PROVE Tail(s)[i] \in Range(s)
    <2>1. i + 1 \in 1 .. n /\ Tail(s)[i] = s[i + 1]
      BY <1>1
    <2> QED BY <1>1, <2>1 DEF Range
  <1>4. Head(s) \in Range(s)
    BY <1>1 DEF Range
  <1>5. Range(s) \subseteq {Head(s)} \cup Range(Tail(s))
    BY <1>1, <1>2 DEF Range
  <1>6. Range(Tail(s)) \subseteq Range(s)
    BY <1>1, <1>3 DEF Range
  <1> QED BY <1>4, <1>5, <1>6

LEMMA InstallKeeps ==
    ASSUME ShelfInv, NEW s \in Skills, NEW archive \in Archives, Install(s, archive)
    PROVE  ShelfInv'
  <1> DEFINE row == [have |-> {}, want |-> Range(archive) \cup {"main"}]
  <1>1. /\ handling = AtRest /\ s \notin DOMAIN dirs
        /\ handling' = [op |-> "unpack", skill |-> s, wish |-> "on", left |-> archive, zip |-> archive # <<>>]
        /\ UNCHANGED <<switches, standing, unfinished, misread>>
        /\ dirs' = With(dirs, s, row)
    BY DEF Install
  <1>2. row \in Directories /\ row.have = {} /\ row.want = Range(archive) \cup {"main"}
    BY FilesAreContents DEF Directories, Contents
  <1> HIDE DEF row
  <1>3. /\ DOMAIN dirs' = DOMAIN dirs \cup {s} /\ dirs'[s] = row
        /\ \A x \in DOMAIN dirs : dirs'[x] = dirs[x]
    BY <1>1 DEF With
  <1>4. handling' \in Handled
    BY <1>1, FilesAreContents DEF Handled
  <1>5. ShelfTypeOK' /\ \A x \in DOMAIN dirs' : dirs'[x] \in Directories
    BY <1>1, <1>2, <1>3 DEF ShelfInv, ShelfTypeOK
  <1>6. HandlingIsRight'
    <2>1. s \notin unfinished /\ standing[s] # "on"
      BY <1>1 DEF ShelfInv, ShelfTypeOK, RestIsTold, Busy, AtRest, Available, Loadable
    <2> QED BY <1>1, <1>2, <1>3, <2>1 DEF HandlingIsRight
  <1>7. OffIsOff'
    <2>1. \A x : ~Busy(x)
      BY <1>1 DEF Busy, AtRest
    <2>2. Busy(s)' /\ handling'.wish = "on"
      BY <1>1 DEF Busy
    <2> QED BY <1>1, <1>3, <2>1, <2>2 DEF ShelfInv, OffIsOff, SwitchedOff
  <1>8. RestIsTold'
    <2>1. standing[s] # "on"
      BY <1>1 DEF ShelfInv, RestIsTold, Busy, AtRest, Available, Loadable
    <2>3. (\A x : ~Busy(x)) /\ Busy(s)' /\ handling'.op = "unpack"
      BY <1>1 DEF Busy, AtRest
    <2>2. \A x \in Skills : x # s /\ Available(x) => Available(x)'
      BY <1>1, <1>3 DEF Available, Loadable
    <2> QED BY <1>1, <1>3, <1>5, <2>1, <2>2, <2>3 DEF ShelfInv, RestIsTold, ShelfTypeOK
  <1> QED BY <1>4, <1>5, <1>6, <1>7, <1>8 DEF ShelfInv

\* The files of the skill of the request change, and nothing else of the skills.
LEMMA FilesChange ==
    ASSUME ShelfInv, handling.op \in {"unpack", "rmtree"}, handling.skill \in DOMAIN dirs,
           NEW files \in SUBSET dirs[handling.skill].want,
           dirs' = [dirs EXCEPT ![handling.skill].have = files],
           handling' \in Handled, handling'.op # "none",
           handling'.skill = handling.skill, handling'.wish = handling.wish,
           handling'.op \in {"unpack", "rmtree"} \/ files = dirs[handling.skill].want,
           UNCHANGED <<switches, standing, unfinished, misread>>,
           HandlingIsRight'
    PROVE  ShelfInv'
  <1> PICK s \in DOMAIN dirs : s = handling.skill
    OBVIOUS
  <1>1. dirs[s] \in Directories
    BY DEF ShelfInv
  <1>2. /\ DOMAIN dirs' = DOMAIN dirs /\ dirs'[s] = [dirs[s] EXCEPT !.have = files]
        /\ \A x \in DOMAIN dirs \ {s} : dirs'[x] = dirs[x]
    OBVIOUS
  <1>3. /\ dirs'[s] \in Directories /\ dirs'[s].have \subseteq dirs'[s].want
        /\ handling'.op \in {"unpack", "rmtree"} \/ dirs'[s].have = dirs'[s].want
    BY <1>1, <1>2 DEF Directories
  <1>4. ShelfTypeOK' /\ \A x \in DOMAIN dirs' : dirs'[x] \in Directories
    BY <1>2, <1>3 DEF ShelfInv, ShelfTypeOK
  <1>5. \A x : Busy(x)' <=> Busy(x)
    BY DEF Busy
  <1>6. Busy(s) /\ Busy(s)' /\ \A x : x # s => ~Busy(x)
    BY <1>5 DEF Busy
  <1>7. OffIsOff'
    BY <1>2, <1>5 DEF ShelfInv, OffIsOff, SwitchedOff
  <1>8. standing[s] = "on" => handling.wish # "on"
    BY DEF ShelfInv, HandlingIsRight
  <1>9. RestIsTold'
    <2>1. \A x \in Skills : x # s /\ Available(x) => Available(x)'
      BY <1>2 DEF Available, Loadable
    <2>2. \A x \in Skills : standing'[x] = "on" /\ ~(Busy(x)' /\ handling'.wish # "on") => Available(x)'
      BY <1>5, <1>6, <1>8, <2>1 DEF ShelfInv, RestIsTold
    <2>3. \A x \in Skills : ~Busy(x)' /\ standing'[x] = "gone" => x \notin DOMAIN dirs'
      BY <1>2, <1>5 DEF ShelfInv, RestIsTold
    <2>4. \A x \in DOMAIN dirs' \ unfinished' :
             ~(Busy(x)' /\ handling'.op \in {"unpack", "rmtree"}) => dirs'[x].have = dirs'[x].want
      BY <1>2, <1>3, <1>6 DEF ShelfInv, RestIsTold
    <2> QED BY <2>2, <2>3, <2>4 DEF RestIsTold
  <1> QED BY <1>4, <1>7, <1>9 DEF ShelfInv

LEMMA UnpackKeeps ==
    ASSUME ShelfInv, Unpack
    PROVE  ShelfInv'
  <1> PICK s \in Skills, left \in Seq(Contents) : s = handling.skill /\ left = handling.left
    BY HandledFields DEF ShelfInv, Unpack
  <1>1. /\ handling.op = "unpack" /\ left # <<>>
        /\ handling' = [handling EXCEPT !.left = Tail(left)]
        /\ UNCHANGED <<switches, standing, unfinished, misread>>
    BY DEF Unpack
  <1>2. PICK files : /\ files = dirs[s].have \cup {Head(left)}
                     /\ dirs' = [dirs EXCEPT ![s].have = files]
    BY DEF Unpack
  <1>3. s \in DOMAIN dirs \ unfinished /\ standing[s] # "on"
        /\ dirs[s].have \cup Range(left) \cup {"main"} = dirs[s].want
        /\ dirs[s] \in Directories
    BY <1>1 DEF ShelfInv, HandlingIsRight
  <1>4. Range(left) = {Head(left)} \cup Range(Tail(left)) /\ Tail(left) \in Seq(Contents)
    BY <1>1, RangeOfTail
  <1>5. /\ handling'.op = "unpack" /\ handling'.skill = s /\ handling'.left = Tail(left)
        /\ handling'.wish = handling.wish /\ handling' \in Handled
    <2>1. handling \in [op : {"unpack"}, skill : Skills, wish : {"on"}, left : Seq(Contents), zip : BOOLEAN]
      BY <1>1 DEF ShelfInv, Handled, AtRest
    <2> QED BY <1>1, <1>4, <2>1 DEF Handled
  <1>6. DOMAIN dirs' = DOMAIN dirs /\ dirs'[s].have = files /\ dirs'[s].want = dirs[s].want
    BY <1>2, <1>3 DEF Directories
  <1>7. files \subseteq dirs[s].want
    BY <1>2, <1>3, <1>4
  <1>8. HandlingIsRight'
    <2>1. files \cup Range(Tail(left)) \cup {"main"} = dirs[s].want
      BY <1>2, <1>3, <1>4
    <2> QED BY <1>1, <1>3, <1>5, <1>6, <2>1 DEF HandlingIsRight
  <1> QED BY <1>1, <1>2, <1>3, <1>5, <1>7, <1>8, FilesChange

LEMMA WriteMainKeeps ==
    ASSUME ShelfInv, WriteMain
    PROVE  ShelfInv'
  <1> PICK s \in Skills : s = handling.skill
    BY HandledFields DEF ShelfInv, WriteMain
  <1>1. /\ handling.op = "unpack" /\ handling.left = <<>>
        /\ handling' = [op |-> "record", skill |-> s, wish |-> "on"]
        /\ UNCHANGED <<switches, standing, unfinished, misread>>
    BY DEF WriteMain
  <1>2. PICK files : /\ files = dirs[s].have \cup {"main"}
                     /\ dirs' = [dirs EXCEPT ![s].have = files]
    BY DEF WriteMain
  <1>3. Range(handling.left) = {}
    BY <1>1 DEF Range
  <1>4. /\ s \in DOMAIN dirs /\ dirs[s].have \cup {"main"} = dirs[s].want /\ dirs[s] \in Directories
        /\ standing[s] # "on" /\ handling.wish = "on"
    BY <1>1, <1>3, HandledFields DEF ShelfInv, HandlingIsRight
  <1>5. dirs'[s].have = files /\ dirs'[s].want = dirs[s].want /\ DOMAIN dirs' = DOMAIN dirs
    BY <1>2, <1>4 DEF Directories
  <1>6. HandlingIsRight' /\ handling' \in Handled
    BY <1>1, <1>2, <1>4, <1>5 DEF HandlingIsRight, Handled, Wishes, Loadable
  <1> QED BY <1>1, <1>2, <1>4, <1>6, FilesChange

LEMMA DeleteFileKeeps ==
    ASSUME ShelfInv, DeleteFile
    PROVE  ShelfInv'
  <1> PICK s \in Skills : s = handling.skill
    BY HandledFields DEF ShelfInv, DeleteFile
  <1>1. handling.op = "rmtree" /\ UNCHANGED <<switches, handling, standing, unfinished, misread>>
    BY DEF DeleteFile
  <1>2. PICK files : /\ files \subseteq dirs[s].have
                     /\ dirs' = [dirs EXCEPT ![s].have = files]
    BY DEF DeleteFile
  <1>3. s \in DOMAIN dirs /\ dirs[s].have \subseteq dirs[s].want /\ handling.wish = "gone"
    BY <1>1 DEF ShelfInv, HandlingIsRight, ShelfTypeOK
  <1>4. HandlingIsRight'
    BY <1>1, <1>2, <1>3 DEF HandlingIsRight
  <1> QED BY <1>1, <1>2, <1>3, <1>4, FilesChange DEF ShelfInv

\* library.json is replaced: what it said of another skill it still says, or it
\* was lost to a failed read.
LEMMA StateIsSaved ==
    ASSUME ShelfInv, NEW s \in Skills, s = handling.skill, NEW old \in Readings, NEW new,
           DOMAIN new \subseteq DOMAIN old \cup {s},
           \A x \in DOMAIN old \ {s} : x \in DOMAIN new /\ new[x] = old[x],
           s \in DOMAIN new => new[s] \in BOOLEAN,
           SaveState(old, new, s)
    PROVE  /\ DOMAIN switches' \subseteq Skills /\ Range(switches') \subseteq BOOLEAN
           /\ misread' \subseteq Skills
           /\ \A x \in Skills \ {s} : x \in DOMAIN switches' => x \in DOMAIN switches /\ switches'[x] = switches[x]
           /\ \A x \in Skills \ {s} : standing[x] = "off" /\ x \notin misread' =>
                 SwitchedOff(x)' \/ x \notin DOMAIN dirs
  <1>1. switches' = new
        /\ misread' = (misread \cup {x \in DOMAIN switches \ DOMAIN old : ~ switches[x]}) \ {s}
    BY DEF SaveState
  <1>2. DOMAIN old \subseteq DOMAIN switches /\ \A x \in DOMAIN old : old[x] = switches[x]
    BY DEF Readings
  <1>3. DOMAIN switches \subseteq Skills /\ \A x \in DOMAIN switches : switches[x] \in BOOLEAN
    BY DEF ShelfInv, ShelfTypeOK, Range
  <1>4. \A x \in DOMAIN new : x = s \/ x \in DOMAIN old
    OBVIOUS
  <1>5. \A x \in DOMAIN new : new[x] \in BOOLEAN
    BY <1>2, <1>3, <1>4
  <1>6. Range(switches') \subseteq BOOLEAN
    BY <1>1, <1>5 DEF Range
  <1>7. ASSUME NEW x \in Skills \ {s}, standing[x] = "off", x \notin misread'
        PROVE  SwitchedOff(x)' \/ x \notin DOMAIN dirs
    <2> SUFFICES ASSUME x \in DOMAIN dirs PROVE SwitchedOff(x)'
      OBVIOUS
    <2>1. x \notin misread /\ x \in DOMAIN switches /\ ~switches[x]
      BY <1>1, <1>7 DEF ShelfInv, OffIsOff, SwitchedOff, Busy
    <2>2. x \in DOMAIN old
      BY <1>1, <1>7, <2>1
    <2> QED BY <1>1, <1>2, <2>1, <2>2 DEF SwitchedOff
  <1>8. misread' \subseteq Skills
    BY <1>1, <1>3 DEF ShelfInv, ShelfTypeOK
  <1> QED BY <1>1, <1>2, <1>3, <1>4, <1>6, <1>7, <1>8

\* The last write of a request has been made, and its client is not yet told.
LEMMA SavedKeeps ==
    ASSUME ShelfInv, NEW s \in Skills, s = handling.skill,
           handling.op \in {"record", "switch", "forget"}, Saved,
           NEW old \in Readings, NEW new,
           DOMAIN new \subseteq DOMAIN old \cup {s},
           \A x \in DOMAIN old \ {s} : x \in DOMAIN new /\ new[x] = old[x],
           s \in DOMAIN new => new[s] \in BOOLEAN,
           SaveState(old, new, s),
           handling.wish = "on" => Loadable(s) /\ s \in DOMAIN new /\ new[s],
           handling.wish = "off" => s \in DOMAIN new /\ ~new[s],
           handling.wish = "gone" => s \notin DOMAIN dirs
    PROVE  ShelfInv'
  <1>1. switches' = new
    BY DEF SaveState
  <1>2. /\ DOMAIN switches' \subseteq Skills /\ Range(switches') \subseteq BOOLEAN
        /\ misread' \subseteq Skills
        /\ \A x \in Skills \ {s} : x \in DOMAIN switches' => x \in DOMAIN switches /\ switches'[x] = switches[x]
        /\ \A x \in Skills \ {s} : standing[x] = "off" /\ x \notin misread' =>
              SwitchedOff(x)' \/ x \notin DOMAIN dirs
    BY StateIsSaved
  <1>3. UNCHANGED <<dirs, standing, unfinished>>
    BY DEF Saved
  <1>4. /\ handling' = [op |-> "answer", skill |-> s, wish |-> handling.wish]
        /\ handling.wish \in Wishes
    <2>1. /\ handling = [op |-> handling.op, skill |-> s, wish |-> handling.wish]
          /\ handling.wish \in Wishes
      BY HandledFields DEF ShelfInv
    <2> QED BY <2>1 DEF Saved
  <1>5. ShelfTypeOK'
    BY <1>2, <1>3 DEF ShelfInv, ShelfTypeOK
  <1>6. (handling.wish = "on" => Available(s)') /\ (handling.wish = "off" => SwitchedOff(s)')
    BY <1>1, <1>3 DEF Available, Loadable, SwitchedOff
  <1>7. HandlingIsRight' /\ handling' \in Handled
    BY <1>3, <1>4, <1>6 DEF HandlingIsRight, Handled
  <1>8. Busy(s)' /\ \A x : x # s => ~Busy(x) /\ ~Busy(x)'
    BY <1>4 DEF Busy
  <1>9. OffIsOff'
    <2>1. standing'[s] = "off" /\ ~(Busy(s)' /\ handling'.wish = "on") =>
             SwitchedOff(s)' \/ s \notin DOMAIN dirs'
      BY <1>3, <1>4, <1>6, <1>8 DEF Wishes
    <2> QED BY <1>2, <1>3, <2>1 DEF OffIsOff
  <1>10. RestIsTold'
    <2>1. \A x \in Skills \ {s} : Available(x) => Available(x)'
      BY <1>2, <1>3 DEF Available, Loadable
    <2>2. \A x \in Skills : standing'[x] = "on" /\ ~(Busy(x)' /\ handling'.wish # "on") => Available(x)'
      BY <1>3, <1>4, <1>6, <1>8, <2>1 DEF ShelfInv, RestIsTold
    <2>3. \A x \in Skills : ~Busy(x)' /\ standing'[x] = "gone" => x \notin DOMAIN dirs'
      BY <1>3, <1>8 DEF ShelfInv, RestIsTold
    <2>4. \A x \in DOMAIN dirs' \ unfinished' : dirs'[x].have = dirs'[x].want
      BY <1>3, <1>8 DEF ShelfInv, RestIsTold
    <2> QED BY <2>2, <2>3, <2>4 DEF RestIsTold
  <1> QED BY <1>3, <1>5, <1>7, <1>9, <1>10 DEF ShelfInv

LEMMA TellClientKeeps ==
    ASSUME ShelfInv, TellClient
    PROVE  ShelfInv'
  <1> PICK s \in Skills : s = handling.skill
    BY HandledFields DEF ShelfInv, TellClient
  <1> PICK word \in Wishes : word = handling.wish
    BY HandledFields DEF ShelfInv, TellClient
  <1>1. /\ handling.op = "answer" /\ handling' = AtRest
        /\ UNCHANGED <<dirs, switches, unfinished, misread>>
        /\ standing' = [standing EXCEPT ![s] = word]
    BY DEF TellClient
  <1>2. /\ word = "on" => Available(s)
        /\ word = "off" => SwitchedOff(s)
        /\ word = "gone" => s \notin DOMAIN dirs
    BY <1>1 DEF ShelfInv, HandlingIsRight
  <1>3. standing \in [Skills -> {"nothing", "on", "off", "gone"}]
    BY DEF ShelfInv, ShelfTypeOK
  <1>4. /\ standing'[s] = word /\ \A x \in Skills \ {s} : standing'[x] = standing[x]
        /\ standing' \in [Skills -> {"nothing", "on", "off", "gone"}]
    BY <1>1, <1>3 DEF Wishes
  <1>5. ShelfTypeOK' /\ HandlingIsRight' /\ handling' \in Handled
    BY <1>1, <1>4 DEF ShelfInv, ShelfTypeOK, HandlingIsRight, Handled, AtRest
  <1>6. (\A x : x # s => ~Busy(x)) /\ (\A x : ~Busy(x)')
    BY <1>1 DEF Busy, AtRest
  <1>7. OffIsOff'
    BY <1>1, <1>2, <1>4, <1>6 DEF ShelfInv, OffIsOff, SwitchedOff
  <1>8. RestIsTold'
    <2>1. \A x \in Skills : Available(x)' <=> Available(x)
      BY <1>1 DEF Available, Loadable
    <2>2. \A x \in DOMAIN dirs \ unfinished : dirs[x].have = dirs[x].want
      BY <1>1 DEF ShelfInv, RestIsTold
    <2> QED BY <1>1, <1>2, <1>4, <1>6, <2>1, <2>2 DEF ShelfInv, RestIsTold
  <1> QED BY <1>1, <1>5, <1>7, <1>8 DEF ShelfInv

LEMMA WithoutGives ==
    ASSUME NEW old, NEW s
    PROVE  /\ DOMAIN Without(old, s) = DOMAIN old \ {s}
           /\ \A x \in DOMAIN old \ {s} : Without(old, s)[x] = old[x]
  BY DEF Without, Restrict

LEMMA RecordInstallKeeps ==
    ASSUME ShelfInv, RecordInstall
    PROVE  ShelfInv'
  <1> PICK s \in Skills : s = handling.skill
    BY HandledFields DEF ShelfInv, RecordInstall
  <1>1. PICK old \in Readings : SaveState(old, With(old, s, TRUE), s)
    BY DEF RecordInstall
  <1>2. handling.op = "record" /\ Saved
    BY DEF RecordInstall
  <1>3. Loadable(s) /\ handling.wish = "on"
    BY <1>2 DEF ShelfInv, HandlingIsRight
  <1> DEFINE new == With(old, s, TRUE)
  <1>4. /\ DOMAIN new = DOMAIN old \cup {s} /\ new[s] = TRUE
        /\ \A x \in DOMAIN old \ {s} : new[x] = old[x]
    BY DEF With
  <1> HIDE DEF new
  <1>5. SaveState(old, new, s)
    BY <1>1 DEF new
  <1> QED BY <1>2, <1>3, <1>4, <1>5, SavedKeeps

LEMMA SaveSwitchKeeps ==
    ASSUME ShelfInv, SaveSwitch
    PROVE  ShelfInv'
  <1> PICK s \in Skills : s = handling.skill
    BY HandledFields DEF ShelfInv, SaveSwitch
  <1> PICK enabled \in BOOLEAN : enabled <=> handling.wish = "on"
    OBVIOUS
  <1>1. PICK old \in Readings : SaveState(old, With(old, s, enabled), s)
    BY DEF SaveSwitch
  <1>2. handling.op = "switch" /\ Saved
    BY DEF SaveSwitch
  <1>3. Loadable(s) /\ handling.wish # "gone"
    BY <1>2 DEF ShelfInv, HandlingIsRight
  <1> DEFINE new == With(old, s, enabled)
  <1>4. /\ DOMAIN new = DOMAIN old \cup {s} /\ new[s] = enabled
        /\ \A x \in DOMAIN old \ {s} : new[x] = old[x]
    BY DEF With
  <1> HIDE DEF new
  <1>5. SaveState(old, new, s)
    BY <1>1 DEF new
  <1>6. (handling.wish = "on" => new[s]) /\ (handling.wish = "off" => ~new[s]) /\ new[s] \in BOOLEAN
    BY <1>4
  <1> QED BY <1>2, <1>3, <1>4, <1>5, <1>6, SavedKeeps

LEMMA ForgetKeeps ==
    ASSUME ShelfInv, Forget
    PROVE  ShelfInv'
  <1> PICK s \in Skills : s = handling.skill
    BY HandledFields DEF ShelfInv, Forget
  <1>1. PICK old \in Readings : SaveState(old, Without(old, s), s)
    BY DEF Forget
  <1>2. handling.op = "forget" /\ Saved
    BY DEF Forget
  <1>3. s \notin DOMAIN dirs /\ handling.wish = "gone"
    BY <1>2 DEF ShelfInv, HandlingIsRight
  <1> DEFINE new == Without(old, s)
  <1>4. DOMAIN new = DOMAIN old \ {s} /\ \A x \in DOMAIN old \ {s} : new[x] = old[x]
    BY WithoutGives
  <1> HIDE DEF new
  <1>5. SaveState(old, new, s)
    BY <1>1 DEF new
  <1> QED BY <1>2, <1>3, <1>4, <1>5, SavedKeeps

\* A request that has read, and has not written yet.
LEMMA RequestBeginsKeeps ==
    ASSUME ShelfInv, handling = AtRest, handling' \in Handled, HandlingIsRight',
           UNCHANGED <<dirs, switches, standing, unfinished, misread>>
    PROVE  ShelfInv'
  <1>1. \A x : ~Busy(x)
    BY DEF Busy, AtRest
  <1>2. OffIsOff'
    BY <1>1 DEF ShelfInv, OffIsOff, SwitchedOff
  <1>3. RestIsTold'
    BY <1>1 DEF ShelfInv, RestIsTold, Available, Loadable
  <1> QED BY <1>2, <1>3 DEF ShelfInv, ShelfTypeOK

LEMMA SetEnabledKeeps ==
    ASSUME ShelfInv, NEW s \in Skills, NEW enabled \in BOOLEAN, SetEnabled(s, enabled)
    PROVE  ShelfInv'
  <1>1. /\ handling = AtRest /\ Loadable(s)
        /\ handling' = [op |-> "switch", skill |-> s, wish |-> IF enabled THEN "on" ELSE "off"]
        /\ UNCHANGED <<dirs, switches, standing, unfinished, misread>>
    BY DEF SetEnabled
  <1>2. HandlingIsRight' /\ handling' \in Handled
    BY <1>1 DEF HandlingIsRight, Handled, Wishes, Loadable
  <1> QED BY <1>1, <1>2, RequestBeginsKeeps

LEMMA RemoveSkillKeeps ==
    ASSUME ShelfInv, NEW s \in Skills, RemoveSkill(s)
    PROVE  ShelfInv'
  <1>1. /\ handling = AtRest /\ s \in DOMAIN dirs
        /\ handling' = [op |-> "rmtree", skill |-> s, wish |-> "gone"]
        /\ UNCHANGED <<dirs, switches, standing, unfinished, misread>>
    BY DEF RemoveSkill, Loadable
  <1>2. HandlingIsRight' /\ handling' \in Handled
    BY <1>1 DEF HandlingIsRight, Handled, Wishes
  <1> QED BY <1>1, <1>2, RequestBeginsKeeps

\* The directory of the skill of the request is removed.
LEMMA DirectoryGoes ==
    ASSUME ShelfInv, NEW s \in Skills, handling.op # "none", handling.skill = s,
           dirs' = Without(dirs, s), unfinished' = unfinished \ {s},
           UNCHANGED <<switches, standing, misread>>,
           handling' \in Handled, HandlingIsRight',
           \A x : Busy(x)' => Busy(x),
           (Busy(s)' /\ handling'.wish # "on") \/ standing[s] # "on"
    PROVE  ShelfInv'
  <1>1. /\ DOMAIN dirs' = DOMAIN dirs \ {s}
        /\ \A x \in DOMAIN dirs \ {s} : dirs'[x] = dirs[x]
    BY WithoutGives
  <1>2. ShelfTypeOK' /\ \A x \in DOMAIN dirs' : dirs'[x] \in Directories
    BY <1>1 DEF ShelfInv, ShelfTypeOK
  <1>3. \A x : x # s => ~Busy(x)
    BY DEF Busy
  <1>4. OffIsOff'
    BY <1>1, <1>3 DEF ShelfInv, OffIsOff, SwitchedOff
  <1>5. \A x \in Skills \ {s} : Available(x) => Available(x)'
    BY <1>1 DEF Available, Loadable
  <1>6. RestIsTold'
    BY <1>1, <1>3, <1>5 DEF ShelfInv, RestIsTold
  <1> QED BY <1>2, <1>4, <1>6 DEF ShelfInv

LEMMA DeleteDirectoryKeeps ==
    ASSUME ShelfInv, DeleteDirectory
    PROVE  ShelfInv'
  <1> PICK s \in Skills : s = handling.skill
    BY HandledFields DEF ShelfInv, DeleteDirectory
  <1>1. /\ handling.op = "rmtree" /\ dirs' = Without(dirs, s) /\ unfinished' = unfinished \ {s}
        /\ handling' = [handling EXCEPT !.op = "forget"] /\ UNCHANGED <<switches, standing, misread>>
    BY DEF DeleteDirectory
  <1>2. handling = [op |-> "rmtree", skill |-> s, wish |-> "gone"]
    BY <1>1, HandledFields DEF ShelfInv, HandlingIsRight
  <1>3. handling' = [op |-> "forget", skill |-> s, wish |-> "gone"]
    BY <1>1, <1>2
  <1>4. HandlingIsRight' /\ handling' \in Handled
    <2>1. DOMAIN dirs' = DOMAIN dirs \ {s}
      BY <1>1, WithoutGives
    <2> QED BY <1>3, <2>1 DEF HandlingIsRight, Handled, Wishes
  <1>5. Busy(s)' /\ handling'.wish # "on" /\ \A x : Busy(x)' => Busy(x)
    BY <1>2, <1>3 DEF Busy
  <1> QED BY <1>1, <1>2, <1>4, <1>5, DirectoryGoes

LEMMA UndoUnpackKeeps ==
    ASSUME ShelfInv, UndoUnpack
    PROVE  ShelfInv'
  <1> PICK s \in Skills : s = handling.skill
    BY HandledFields DEF ShelfInv, UndoUnpack
  <1>1. /\ handling.op = "unpack" /\ dirs' = Without(dirs, s) /\ handling' = AtRest
        /\ UNCHANGED <<switches, standing, unfinished, misread>>
    BY DEF UndoUnpack
  <1>2. s \notin unfinished /\ standing[s] # "on"
    BY <1>1 DEF ShelfInv, HandlingIsRight
  <1>3. HandlingIsRight' /\ handling' \in Handled /\ \A x : ~Busy(x)'
    BY <1>1 DEF HandlingIsRight, Handled, AtRest, Busy
  <1>4. unfinished' = unfinished \ {s}
    BY <1>1, <1>2
  <1> QED BY <1>1, <1>2, <1>3, <1>4, DirectoryGoes

\* A request ends without an answer.
LEMMA CutKeeps ==
    ASSUME ShelfInv, NEW s \in Skills, s = handling.skill, handling.op # "none",
           Unanswered(s), CutShort(s), handling' = AtRest, UNCHANGED <<switches, misread>>,
           DOMAIN dirs' = DOMAIN dirs,
           \A x \in DOMAIN dirs : dirs'[x] \in Directories /\ dirs'[x].have \subseteq dirs'[x].want,
           \A x \in DOMAIN dirs : dirs'[x] = dirs[x] \/ (x = s /\ handling.op = "unpack")
    PROVE  ShelfInv'
  <1>1. /\ unfinished' = IF handling.op \in {"unpack", "rmtree"} THEN unfinished \cup {s} ELSE unfinished
        /\ standing' = [standing EXCEPT ![s] =
              IF (standing[s] = "on" /\ handling.wish = "on") \/ (standing[s] = "off" /\ handling.wish # "on")
              THEN standing[s] ELSE "nothing"]
    BY DEF Unanswered, CutShort
  <1>2. standing \in [Skills -> {"nothing", "on", "off", "gone"}]
    BY DEF ShelfInv, ShelfTypeOK
  <1>3. /\ \A x \in Skills \ {s} : standing'[x] = standing[x]
        /\ standing'[s] = "on" => standing[s] = "on" /\ handling.wish = "on"
        /\ standing'[s] = "off" => standing[s] = "off" /\ handling.wish # "on"
        /\ standing'[s] # "gone"
        /\ standing' \in [Skills -> {"nothing", "on", "off", "gone"}]
    BY <1>1, <1>2
  <1>4. unfinished' \subseteq DOMAIN dirs
    BY <1>1 DEF ShelfInv, ShelfTypeOK, HandlingIsRight
  <1>5. ShelfTypeOK'
    BY <1>3, <1>4 DEF ShelfInv, ShelfTypeOK
  <1>6. HandlingIsRight' /\ handling' \in Handled
    BY DEF HandlingIsRight, Handled, AtRest
  <1>7. (\A x : x # s => ~Busy(x)) /\ (\A x : ~Busy(x)')
    BY DEF Busy, AtRest
  <1>8. OffIsOff'
    BY <1>3, <1>7 DEF ShelfInv, OffIsOff, SwitchedOff
  <1>9. RestIsTold'
    <2>1. \A x \in Skills : x # s \/ handling.op # "unpack" => (Available(x) => Available(x)')
      BY DEF Available, Loadable
    <2>2. standing[s] = "on" => handling.op # "unpack"
      BY DEF ShelfInv, HandlingIsRight
    <2>3. \A x \in Skills : standing'[x] = "on" => Available(x)
      BY <1>3, <1>7 DEF ShelfInv, RestIsTold
    <2>4. \A x \in Skills : standing'[x] = "on" => Available(x)'
      BY <1>3, <2>1, <2>2, <2>3
    <2>5. \A x \in Skills : standing'[x] = "gone" => x \notin DOMAIN dirs
      BY <1>3, <1>7 DEF ShelfInv, RestIsTold
    <2>6. \A x \in DOMAIN dirs \ unfinished' : dirs'[x] = dirs[x] /\ dirs[x].have = dirs[x].want
      BY <1>1, <1>7 DEF ShelfInv, RestIsTold
    <2> QED BY <2>4, <2>5, <2>6 DEF RestIsTold
  <1> QED BY <1>5, <1>6, <1>8, <1>9 DEF ShelfInv

LEMMA RequestStopsKeeps ==
    ASSUME ShelfInv, RequestStops
    PROVE  ShelfInv'
  <1>1. handling.op # "none"
    BY HandledFields DEF ShelfInv, RestIsTold, RequestStops
  <1> PICK s \in Skills : s = handling.skill
    BY <1>1, HandledFields DEF ShelfInv
  <1> QED BY <1>1, CutKeeps DEF RequestStops, ShelfInv, ShelfTypeOK

LEMMA UndoInPartKeeps ==
    ASSUME ShelfInv, UndoInPart
    PROVE  ShelfInv'
  <1> PICK s \in Skills : s = handling.skill
    BY HandledFields DEF ShelfInv, UndoInPart
  <1>1. /\ handling.op = "unpack" /\ handling' = AtRest
        /\ Unanswered(s) /\ CutShort(s) /\ UNCHANGED <<switches, misread>>
    BY DEF UndoInPart
  <1>2. PICK remains \in SUBSET dirs[s].have : dirs' = [dirs EXCEPT ![s].have = remains]
    BY DEF UndoInPart
  <1>3. DOMAIN dirs' = DOMAIN dirs /\ \A x \in DOMAIN dirs : x # s => dirs'[x] = dirs[x]
    BY <1>2
  <1>4. \A x \in DOMAIN dirs : dirs[x] \in Directories /\ dirs[x].have \subseteq dirs[x].want
    BY DEF ShelfInv, ShelfTypeOK
  <1>5. s \in DOMAIN dirs /\ dirs'[s] \in Directories /\ dirs'[s].have \subseteq dirs'[s].want
    <2>1. s \in DOMAIN dirs
      BY <1>1 DEF ShelfInv, HandlingIsRight
    <2> QED BY <1>2, <1>4, <2>1 DEF Directories
  <1> QED BY <1>1, <1>3, <1>4, <1>5, CutKeeps

LEMMA ShelfSteps == ShelfInv /\ [ShelfNext]_shelfVars => ShelfInv'
  <1> SUFFICES ASSUME ShelfInv, [ShelfNext]_shelfVars PROVE ShelfInv'
    OBVIOUS
  <1>1. ASSUME UNCHANGED shelfVars PROVE ShelfInv'
    BY <1>1 DEF ShelfInv, shelfVars, ShelfTypeOK, HandlingIsRight, OffIsOff, RestIsTold, Busy,
                Available, Loadable, SwitchedOff
  <1> QED BY <1>1, InstallKeeps, SetEnabledKeeps, RemoveSkillKeeps, UnpackKeeps, WriteMainKeeps,
             RecordInstallKeeps, DeleteFileKeeps, DeleteDirectoryKeeps, ForgetKeeps,
             SaveSwitchKeeps, TellClientKeeps, RequestStopsKeeps, UndoUnpackKeeps, UndoInPartKeeps DEF ShelfNext, Refuse

LEMMA ShelfHolds == ShelfInv => ShelfTypeOK /\ ShelfIsKept
  <1> SUFFICES ASSUME ShelfInv, handling = AtRest PROVE ShelfIsKept
    BY DEF ShelfInv, ShelfIsKept
  <1>1. \A x : ~Busy(x)
    BY DEF Busy, AtRest
  <1> QED BY <1>1 DEF ShelfInv, ShelfIsKept, ShelfTypeOK, RestIsTold, OffIsOff, Available,
             Loadable, SwitchedOff, AtRest

\* Between two requests every skill is as the client was last told, but for what
\* an unanswered request asked to change, for any skills and any archives,
\* wherever requests failed, lost their answers or the process stopped
\* (skill_library.py: install, set_enabled, remove, _save_state).
THEOREM ShelfStaysKept == ShelfSpec => [](ShelfTypeOK /\ ShelfIsKept)
  BY ShelfStarts, ShelfSteps, ShelfHolds, PTL DEF ShelfSpec
-----------------------------------------------------------------------------
(***************************************************************************)
(* ToolLoop: the rounds of a turn and the tools that run in them.          *)
(***************************************************************************)
IsReply(r) ==
    /\ r = [calls |-> r.calls, text |-> r.text, cut |-> r.cut, voice |-> r.voice]
    /\ r.calls \in Seq(Calls)
    /\ r.voice \in {"kept", "mended", "broken", "hollow"}
    /\ r.cut \in BOOLEAN

\* The requests of each kind are counted up to its bound.
IsAsk(a) ==
    \/ a \in [kind : {"native", "text", "again"}, n : {0}]
    \/ a \in [kind : {"continue"}, n : 0 .. MaxContinuations - 1]
    \/ a \in [kind : {"rewrite"}, n : 0 .. MaxRewrites - 1]

Runs == [call : Calls, ok : BOOLEAN, audited : BOOLEAN, forced : BOOLEAN]

Stopped == {"failed", "cancelled"}

\* A call is made while calls are left, and within the rounds.
CallingIsRight ==
    phase \in {"calling", "executing"} => todo # <<>> /\ round <= MaxRounds

\* The command that runs is the first of the calls that are left.
ExecutingIsRight ==
    phase = "executing" =>
        /\ runs # <<>>
        /\ runs[Len(runs)] = Run(Head(todo), FALSE, FALSE)
        /\ Head(todo) \notin kept

\* What has succeeded in a round is remembered.
SuccessIsKept ==
    phase \notin Stopped => \A i \in DOMAIN runs : runs[i].ok /\ ~runs[i].forced => runs[i].call \in kept

LoopInv ==
    /\ phase \in {"received", "asking", "calling", "executing", "answered", "failed", "cancelled"}
    /\ round \in 0 .. MaxRounds + 1
    /\ phase = "received" => round = 0
    /\ IsAsk(ask)
    /\ IsReply(response)
    /\ todo \in Seq(Calls)
    /\ kept \subseteq Calls
    /\ runs \in Seq(Runs)
    /\ CallingIsRight /\ ExecutingIsRight
    /\ SuccessIsKept
    /\ ToolsAreAccounted
    /\ AnswerKeepsVoice

LoopNext == LoopStep \/ (Waiting /\ Cancel)

LoopSpec == LoopInit /\ [][LoopNext]_loopVars

LEMMA LoopStarts == LoopInit => LoopInv
  <1> SUFFICES ASSUME LoopInit PROVE LoopInv
    OBVIOUS
  <1> USE DEF LoopInit
  <1>1. IsAsk(ask)
    BY DEF IsAsk, Asking
  <1>2. IsReply(response)
    BY DEF IsReply, NoResponse
  <1>3. CallingIsRight /\ ExecutingIsRight /\ SuccessIsKept /\ ToolsAreAccounted /\ AnswerKeepsVoice
    BY DEF CallingIsRight, ExecutingIsRight, SuccessIsKept, ToolsAreAccounted, AnswerKeepsVoice
  <1> QED BY <1>1, <1>2, <1>3, LoopAssumption DEF LoopInv

LEMMA ResponsesAreReplies == ASSUME NEW r \in Responses PROVE IsReply(r)
  BY LoopAssumption DEF IsReply

LEMMA TextIsReplaced ==
    ASSUME NEW r, IsReply(r), NEW text
    PROVE  IsReply([r EXCEPT !.text = text]) /\ [r EXCEPT !.text = text].calls = r.calls
  <1>1. [r EXCEPT !.text = text] = [calls |-> r.calls, text |-> text, cut |-> r.cut, voice |-> r.voice]
    BY DEF IsReply
  <1> QED BY <1>1 DEF IsReply

\* A step of the model: no tool runs.
LEMMA ModelMoves ==
    ASSUME LoopInv, phase \in {"received", "asking"}, UNCHANGED <<kept, runs>>,
           phase' \in {"asking", "calling", "answered", "failed"},
           round' \in 0 .. MaxRounds + 1, IsAsk(ask)', IsReply(response)', todo' \in Seq(Calls),
           CallingIsRight', AnswerKeepsVoice'
    PROVE  LoopInv'
  <1>1. ExecutingIsRight'
    BY DEF ExecutingIsRight
  <1>2. SuccessIsKept'
    BY DEF LoopInv, SuccessIsKept, Stopped
  <1>3. ToolsAreAccounted'
    BY DEF LoopInv, ToolsAreAccounted
  <1> QED BY <1>1, <1>2, <1>3 DEF LoopInv

LEMMA FreshAsk == IsAsk(Asking("native", 0)) /\ IsAsk(Asking("text", 0)) /\ IsAsk(Asking("again", 0))
  BY DEF IsAsk, Asking

LEMMA BeginKeeps ==
    ASSUME LoopInv, Begin
    PROVE  LoopInv'
  <1>1. phase = "received" /\ UNCHANGED <<response, kept, runs>> /\ round = 0 /\ MaxRounds \in Nat \ {0}
    BY LoopAssumption DEF Begin, LoopInv
  <1>2. CASE todo' = <<>> /\ round' = 1 /\ phase' = "asking" /\ ask' = Asking("native", 0)
    <2>1. CallingIsRight' /\ AnswerKeepsVoice'
      BY <1>2 DEF CallingIsRight, AnswerKeepsVoice
    <2>2. IsAsk(ask)' /\ IsReply(response)'
      BY <1>1, <1>2, FreshAsk DEF LoopInv, IsAsk, IsReply
    <2>3. todo' \in Seq(Calls) /\ round' \in 0 .. MaxRounds + 1
      BY <1>1, <1>2
    <2> QED BY <1>1, <1>2, <2>1, <2>2, <2>3, ModelMoves
  <1>3. ASSUME NEW c \in Calls, todo' = <<c>>, phase' = "calling", UNCHANGED <<round, ask>>
        PROVE  LoopInv'
    <2>1. CallingIsRight' /\ AnswerKeepsVoice'
      BY <1>1, <1>3 DEF CallingIsRight, AnswerKeepsVoice
    <2>2. IsAsk(ask)' /\ IsReply(response)'
      BY <1>1, <1>3 DEF LoopInv, IsAsk, IsReply
    <2>3. todo' \in Seq(Calls) /\ round' \in 0 .. MaxRounds + 1
      BY <1>1, <1>3
    <2> QED BY <1>1, <1>3, <2>1, <2>2, <2>3, ModelMoves
  <1> QED BY <1>1, <1>2, <1>3 DEF Begin, NextRound

-----------------------------------------------------------------------------
\* The response is complete, in the voice of the contract or with calls.
LEMMA ConcludeKeeps ==
    ASSUME LoopInv, phase = "asking", UNCHANGED <<round, kept, runs>>,
           NEW r, IsReply(r), r.voice = "kept" \/ r.calls # <<>> \/ ~Visible(r), Conclude(r)
    PROVE  LoopInv'
  <1>1. round' \in 0 .. MaxRounds + 1 /\ MaxRounds \in Nat
    BY LoopAssumption DEF LoopInv
  <1>2. IsAsk(ask)'
    BY DEF Conclude, LoopInv, IsAsk
  <1>3. CASE r.calls # <<>>
    <2>1. PICK text : response' = [r EXCEPT !.text = text]
      BY <1>3 DEF Conclude
    <2>2. IsReply(response') /\ response'.calls # <<>>
      BY <1>3, <2>1, TextIsReplaced
    <2>3. IsReply(response)' /\ response'.calls # <<>>
      BY <2>2 DEF IsReply
    <2>4. /\ phase' = IF round > MaxRounds THEN "answered" ELSE "calling"
          /\ todo' = IF round > MaxRounds THEN <<>> ELSE r.calls
      BY <1>3 DEF Conclude
    <2>5. todo' \in Seq(Calls)
      BY <2>4 DEF IsReply
    <2>6. CallingIsRight' /\ AnswerKeepsVoice'
      BY <1>1, <1>3, <2>3, <2>4 DEF CallingIsRight, AnswerKeepsVoice
    <2> QED BY <1>1, <1>2, <2>3, <2>4, <2>5, <2>6, ModelMoves
  <1>4. CASE r.calls = <<>>
    <2>1. /\ phase' = IF Visible(r) THEN "answered" ELSE "failed"
          /\ response' = r /\ UNCHANGED todo
      BY <1>4 DEF Conclude
    <2>2. IsReply(response)'
      BY <2>1 DEF IsReply
    <2>3. CallingIsRight' /\ AnswerKeepsVoice'
      BY <1>4, <2>1 DEF CallingIsRight, AnswerKeepsVoice
    <2>4. todo' \in Seq(Calls)
      BY <2>1 DEF LoopInv
    <2> QED BY <1>1, <1>2, <2>1, <2>2, <2>3, <2>4, ModelMoves
  <1> QED BY <1>3, <1>4

LEMMA AskAgainKeeps ==
    ASSUME LoopInv, phase = "asking", UNCHANGED <<round, kept, runs>>,
           NEW r, IsReply(r), NEW kind, NEW n, IsAsk(Asking(kind, n)), AskAgain(r, kind, n)
    PROVE  LoopInv'
  <1>1. response' = r /\ ask' = Asking(kind, n) /\ UNCHANGED <<phase, todo>>
    BY DEF AskAgain
  <1>2. IsReply(response)' /\ IsAsk(ask)'
    BY <1>1 DEF IsReply, IsAsk
  <1>3. CallingIsRight' /\ AnswerKeepsVoice'
    BY <1>1 DEF CallingIsRight, AnswerKeepsVoice
  <1>4. todo' \in Seq(Calls) /\ round' \in 0 .. MaxRounds + 1
    BY <1>1 DEF LoopInv
  <1> QED BY <1>1, <1>2, <1>3, <1>4, ModelMoves

LEMMA CheckVoiceKeeps ==
    ASSUME LoopInv, phase = "asking", UNCHANGED <<round, kept, runs>>,
           NEW r, IsReply(r), NEW n \in Nat, CheckVoice(r, n)
    PROVE  LoopInv'
  <1>1. CASE r.calls # <<>> \/ ~Visible(r) \/ r.voice = "kept"
    BY <1>1, ConcludeKeeps DEF CheckVoice
  <1>2. CASE /\ ~(r.calls # <<>> \/ ~Visible(r) \/ r.voice = "kept")
             /\ r.voice \in {"mended", "broken"} /\ n < MaxRewrites
    <2>1. AskAgain(r, "rewrite", n)
      BY <1>2 DEF CheckVoice
    <2>2. IsAsk(Asking("rewrite", n))
      <3>1. n \in 0 .. MaxRewrites - 1
        BY <1>2, LoopAssumption
      <3> QED BY <3>1 DEF IsAsk, Asking
    <2> QED BY <2>1, <2>2, AskAgainKeeps
  <1>3. CASE /\ ~(r.calls # <<>> \/ ~Visible(r) \/ r.voice = "kept")
             /\ ~(r.voice \in {"mended", "broken"} /\ n < MaxRewrites)
             /\ r.voice = "mended"
    <2> DEFINE m == [r EXCEPT !.voice = "kept"]
    <2>1. Conclude(m)
      BY <1>3 DEF CheckVoice
    <2>2. m = [calls |-> r.calls, text |-> r.text, cut |-> r.cut, voice |-> "kept"]
      BY DEF IsReply
    <2>3. IsReply(m) /\ m.voice = "kept"
      BY <2>2 DEF IsReply
    <2> HIDE DEF m
    <2> QED BY <2>1, <2>3, ConcludeKeeps
  <1>4. CASE /\ ~(r.calls # <<>> \/ ~Visible(r) \/ r.voice = "kept")
             /\ ~(r.voice \in {"mended", "broken"} /\ n < MaxRewrites)
             /\ r.voice # "mended"
    <2>1. phase' = "failed" /\ response' = r /\ UNCHANGED <<ask, todo>>
      BY <1>4 DEF CheckVoice
    <2>2. IsReply(response)' /\ IsAsk(ask)'
      BY <2>1 DEF IsReply, IsAsk, LoopInv
    <2>3. CallingIsRight' /\ AnswerKeepsVoice' /\ todo' \in Seq(Calls) /\ round' \in 0 .. MaxRounds + 1
      BY <2>1 DEF CallingIsRight, AnswerKeepsVoice, LoopInv
    <2> QED BY <2>1, <2>2, <2>3, ModelMoves
  <1> QED BY <1>1, <1>2, <1>3, <1>4

LEMMA CheckLengthKeeps ==
    ASSUME LoopInv, phase = "asking", UNCHANGED <<round, kept, runs>>,
           NEW r, IsReply(r), NEW n \in Nat, CheckLength(r, n)
    PROVE  LoopInv'
  <1>1. CASE r.cut /\ n < MaxContinuations
    <2>1. AskAgain(r, "continue", n)
      BY <1>1 DEF CheckLength
    <2>2. IsAsk(Asking("continue", n))
      <3>1. n \in 0 .. MaxContinuations - 1
        BY <1>1, LoopAssumption
      <3> QED BY <3>1 DEF IsAsk, Asking
    <2> QED BY <2>1, <2>2, AskAgainKeeps
  <1>2. CASE ~(r.cut /\ n < MaxContinuations)
    BY <1>2, CheckVoiceKeeps DEF CheckLength
  <1> QED BY <1>1, <1>2

LEMMA AnswerKeeps ==
    ASSUME LoopInv, NEW r \in Responses, Answer(r)
    PROVE  LoopInv'
  <1>1. phase = "asking" /\ UNCHANGED <<round, kept, runs>> /\ IsReply(r) /\ IsReply(response)
    BY ResponsesAreReplies DEF Answer, LoopInv
  <1>2. CASE ask.kind \in {"native", "text"}
    BY <1>1, <1>2, CheckLengthKeeps, AskAgainKeeps, FreshAsk DEF Answer
  <1>3. CASE ask.kind = "again"
    BY <1>1, <1>3, CheckLengthKeeps DEF Answer
  <1>4. CASE ask.kind = "continue"
    <2> DEFINE m == Merge(response, r)
    <2>1. CASE Visible(r)
      <3>1. PICK text : m = [r EXCEPT !.text = text]
        BY DEF Merge
      <3>2. IsReply(m)
        BY <1>1, <3>1, TextIsReplaced
      <3>3. ask.n + 1 \in Nat
        BY <1>4 DEF LoopInv, IsAsk
      <3>4. CheckLength(m, ask.n + 1)
        BY <1>4, <2>1 DEF Answer
      <3> HIDE DEF m
      <3> QED BY <1>1, <3>2, <3>3, <3>4, CheckLengthKeeps
    <2>2. CASE ~Visible(r)
      BY <1>1, <1>4, <2>2, CheckVoiceKeeps DEF Answer
    <2> QED BY <2>1, <2>2
  <1>5. CASE ask.kind = "rewrite"
    <2>1. ask.n + 1 \in Nat /\ MaxRewrites \in Nat
      BY <1>5, LoopAssumption DEF LoopInv, IsAsk
    <2> QED BY <1>1, <1>5, <2>1, CheckVoiceKeeps DEF Answer
  <1> QED BY <1>2, <1>3, <1>4, <1>5 DEF LoopInv, IsAsk

LEMMA ToolsRejectedKeeps ==
    ASSUME LoopInv, ToolsRejected
    PROVE  LoopInv'
  <1>1. phase = "asking" /\ ask' = Asking("text", 0)
        /\ UNCHANGED <<phase, round, response, todo, kept, runs>>
    BY DEF ToolsRejected
  <1>2. IsAsk(ask)' /\ IsReply(response)'
    BY <1>1, FreshAsk DEF IsAsk, LoopInv, IsReply
  <1>3. CallingIsRight' /\ AnswerKeepsVoice' /\ todo' \in Seq(Calls) /\ round' \in 0 .. MaxRounds + 1
    BY <1>1 DEF CallingIsRight, AnswerKeepsVoice, LoopInv
  <1> QED BY <1>1, <1>2, <1>3, ModelMoves

-----------------------------------------------------------------------------
\* The turn stops: what was done stays.
LEMMA StopKeeps ==
    ASSUME LoopInv, phase' \in Stopped, UNCHANGED <<round, ask, response, todo, kept>>,
           runs' \in Seq(Runs),
           \A i, j \in DOMAIN runs' : i < j /\ runs'[i].call = runs'[j].call => ~runs'[i].ok \/ runs'[i].forced
    PROVE  LoopInv'
  <1>1. CallingIsRight' /\ ExecutingIsRight' /\ SuccessIsKept' /\ AnswerKeepsVoice'
    BY DEF CallingIsRight, ExecutingIsRight, SuccessIsKept, AnswerKeepsVoice, Stopped
  <1>2. ToolsAreAccounted'
    BY DEF ToolsAreAccounted, Stopped
  <1>3. IsAsk(ask)' /\ IsReply(response)'
    BY DEF LoopInv, IsAsk, IsReply
  <1> QED BY <1>1, <1>2, <1>3 DEF LoopInv, Stopped

\* The next of the calls, or of the rounds.
LEMMA ContinueKeeps ==
    ASSUME LoopInv, phase \in {"calling", "executing"}, NEW told, Continue(Tail(todo), told),
           UNCHANGED response, kept' \subseteq Calls, runs' \in Seq(Runs),
           \A i \in DOMAIN runs' : runs'[i].audited,
           \A i \in DOMAIN runs' : runs'[i].ok /\ ~runs'[i].forced => runs'[i].call \in kept',
           \A i, j \in DOMAIN runs' : i < j /\ runs'[i].call = runs'[j].call => ~runs'[i].ok \/ runs'[i].forced
    PROVE  LoopInv'
  <1>1. todo \in Seq(Calls) /\ todo # <<>> /\ round \in 0 .. MaxRounds /\ MaxRounds \in Nat
    BY LoopAssumption DEF LoopInv, CallingIsRight
  <1>2. todo' = Tail(todo) /\ todo' \in Seq(Calls)
    BY <1>1 DEF Continue
  <1>3. /\ phase' \in {"asking", "calling"}
        /\ round' \in 0 .. MaxRounds + 1
        /\ phase' = "calling" => todo' # <<>> /\ round' <= MaxRounds
    BY <1>1, <1>2 DEF Continue, NextRound
  <1>4. IsAsk(ask)' /\ IsReply(response)'
    BY FreshAsk DEF Continue, NextRound, LoopInv, IsAsk, IsReply
  <1>5. CallingIsRight' /\ ExecutingIsRight' /\ AnswerKeepsVoice'
    BY <1>3 DEF CallingIsRight, ExecutingIsRight, AnswerKeepsVoice
  <1>6. SuccessIsKept' /\ ToolsAreAccounted'
    BY DEF SuccessIsKept, ToolsAreAccounted
  <1> QED BY <1>2, <1>3, <1>4, <1>5, <1>6 DEF LoopInv

LEMMA RepeatKeeps ==
    ASSUME LoopInv, Repeat
    PROVE  LoopInv'
  <1>1. /\ phase = "calling" /\ UNCHANGED <<response, kept, runs>>
        /\ Continue(Tail(todo), ToolBegins \o ToolEnds)
    BY DEF Repeat
  <1>2. /\ runs \in Seq(Runs) /\ kept \subseteq Calls
        /\ \A i \in DOMAIN runs : runs[i].audited
        /\ \A i \in DOMAIN runs : runs[i].ok /\ ~runs[i].forced => runs[i].call \in kept
        /\ \A i, j \in DOMAIN runs : i < j /\ runs[i].call = runs[j].call => ~runs[i].ok \/ runs[i].forced
    BY <1>1 DEF LoopInv, ToolsAreAccounted, SuccessIsKept, Stopped
  <1> QED BY <1>1, <1>2, ContinueKeeps

\* A call returns, audited or not, after others that are accounted for.
LEMMA ReturnKeeps ==
    ASSUME LoopInv, phase \in {"calling", "executing"}, NEW ok \in BOOLEAN, NEW told,
           NEW before \in Seq(Runs), Return(before, Head(todo), ok, told), Head(todo) \notin kept,
           \A i \in 1 .. Len(before) : before[i].audited,
           \A i \in 1 .. Len(before) : before[i].ok /\ ~before[i].forced => before[i].call \in kept,
           \A i, j \in 1 .. Len(before) :
               i < j /\ before[i].call = before[j].call => ~before[i].ok \/ before[i].forced
    PROVE  LoopInv'
  <1> DEFINE n == Len(before)
  <1> PICK c \in Calls : c = Head(todo)
    BY DEF LoopInv, CallingIsRight
  <1>1. n \in Nat /\ kept \subseteq Calls
    BY DEF LoopInv
  <1>2. ASSUME NEW audited \in BOOLEAN, runs' = Append(before, Run(c, ok, audited))
        PROVE  /\ runs' \in Seq(Runs) /\ DOMAIN runs' = 1 .. n + 1
               /\ \A i \in 1 .. n : runs'[i] = before[i]
               /\ runs'[n + 1].call = c /\ runs'[n + 1].ok = ok
               /\ runs'[n + 1].audited = audited /\ runs'[n + 1].forced = (round = 0)
               /\ \A i, j \in DOMAIN runs' :
                     i < j /\ runs'[i].call = runs'[j].call => ~runs'[i].ok \/ runs'[i].forced
    <2>1. Run(c, ok, audited) \in Runs
      BY DEF Run, Runs
    <2>2. /\ runs' \in Seq(Runs) /\ Len(runs') = n + 1
          /\ \A i \in 1 .. n : runs'[i] = before[i]
          /\ runs'[n + 1] = Run(c, ok, audited)
      BY <1>2, <2>1, AppendProperties
    <2>3. DOMAIN runs' = 1 .. n + 1
      BY <2>2
    <2>4. /\ runs'[n + 1].call = c /\ runs'[n + 1].ok = ok
          /\ runs'[n + 1].audited = audited /\ runs'[n + 1].forced = (round = 0)
      BY <2>2 DEF Run
    <2>5. ASSUME NEW i \in 1 .. n + 1, NEW j \in 1 .. n + 1, i < j, runs'[i].call = runs'[j].call
          PROVE  ~runs'[i].ok \/ runs'[i].forced
      <3>1. i \in 1 .. n /\ (j \in 1 .. n \/ j = n + 1)
        BY <1>1, <2>5
      <3>2. CASE j \in 1 .. n
        BY <2>2, <2>5, <3>1, <3>2
      <3>3. CASE j = n + 1
        BY <2>2, <2>4, <2>5, <3>1, <3>3
      <3> QED BY <3>1, <3>2, <3>3
    <2> QED BY <2>2, <2>3, <2>4, <2>5
  <1>3. CASE /\ runs' = Append(before, Run(c, ok, TRUE)) /\ Remember(c, ok)
             /\ Continue(Tail(todo), told) /\ UNCHANGED response
    <2>1. /\ runs' \in Seq(Runs) /\ DOMAIN runs' = 1 .. n + 1
          /\ \A i \in 1 .. n : runs'[i] = before[i]
          /\ runs'[n + 1].call = c /\ runs'[n + 1].ok = ok
          /\ runs'[n + 1].audited = TRUE /\ runs'[n + 1].forced = (round = 0)
          /\ \A i, j \in DOMAIN runs' :
                i < j /\ runs'[i].call = runs'[j].call => ~runs'[i].ok \/ runs'[i].forced
      BY <1>2, <1>3
    <2>2. kept' = IF ok /\ round > 0 THEN kept \cup {c} ELSE kept
      BY <1>3 DEF Remember
    <2>3. round \in Nat
      BY DEF LoopInv
    <2>4. \A i \in 1 .. n + 1 : i \in 1 .. n \/ i = n + 1
      BY <1>1
    <2>5. \A i \in DOMAIN runs' : runs'[i].audited
      BY <2>1, <2>4
    <2>6. ASSUME NEW i \in 1 .. n + 1, runs'[i].ok, ~runs'[i].forced PROVE runs'[i].call \in kept'
      <3>1. CASE i \in 1 .. n
        BY <2>1, <2>2, <2>6, <3>1
      <3>2. CASE i = n + 1
        <4>1. ok /\ round # 0
          BY <2>1, <2>6, <3>2
        <4>2. kept' = kept \cup {c}
          BY <2>2, <2>3, <4>1
        <4> QED BY <2>1, <3>2, <4>2
      <3> QED BY <2>4, <3>1, <3>2
    <2>7. kept' \subseteq Calls
      BY <1>1, <2>2
    <2> QED BY <1>3, <2>1, <2>5, <2>6, <2>7, ContinueKeeps
  <1>4. CASE runs' = Append(before, Run(c, ok, FALSE)) /\ Fail
    <2>1. phase' \in Stopped /\ UNCHANGED <<round, ask, response, todo, kept>>
      BY <1>4 DEF Fail, Stopped
    <2> QED BY <1>2, <1>4, <2>1, StopKeeps
  <1> QED BY <1>3, <1>4 DEF Return

LEMMA CallHandlerKeeps ==
    ASSUME LoopInv, CallHandler
    PROVE  LoopInv'
  <1>1. phase = "calling" /\ Head(todo) \notin kept
    BY DEF CallHandler, Remembered
  <1>2. PICK ok \in BOOLEAN : Return(runs, Head(todo), ok, ToolBegins \o ToolEnds)
    BY DEF CallHandler
  <1>3. /\ runs \in Seq(Runs)
        /\ \A i \in 1 .. Len(runs) : runs[i].audited
        /\ \A i \in 1 .. Len(runs) : runs[i].ok /\ ~runs[i].forced => runs[i].call \in kept
        /\ \A i, j \in 1 .. Len(runs) : i < j /\ runs[i].call = runs[j].call => ~runs[i].ok \/ runs[i].forced
    BY <1>1 DEF LoopInv, ToolsAreAccounted, SuccessIsKept, Stopped
  <1> QED BY <1>1, <1>2, <1>3, ReturnKeeps

LEMMA CommandEndsKeeps ==
    ASSUME LoopInv, CommandEnds
    PROVE  LoopInv'
  <1>1. phase = "executing" /\ Head(todo) \notin kept /\ runs \in Seq(Runs) /\ runs # <<>>
    BY DEF CommandEnds, LoopInv, ExecutingIsRight
  <1>2. PICK ok \in BOOLEAN : Return(Front(runs), Head(todo), ok, ToolEnds)
    BY DEF CommandEnds
  <1> DEFINE before == Front(runs)
             n == Len(runs)
  <1>3. before \in Seq(Runs) /\ Len(before) = n - 1 /\ n \in Nat \ {0}
        /\ \A i \in 1 .. n - 1 : before[i] = runs[i]
    <2>1. n \in Nat \ {0} /\ \A i \in 1 .. n - 1 : runs[i] \in Runs
      BY <1>1
    <2>2. before = SubSeq(runs, 1, n - 1)
      BY DEF Front
    <2> HIDE DEF before, n
    <2> QED BY <2>1, <2>2, SubSeqProperties
  <1>4. \A i \in 1 .. n - 1 : i \in DOMAIN runs /\ i # n
    BY <1>1, <1>3
  <1>5. /\ \A i \in 1 .. n - 1 : runs[i].audited
        /\ \A i \in 1 .. n - 1 : runs[i].ok /\ ~runs[i].forced => runs[i].call \in kept
        /\ \A i, j \in 1 .. n - 1 : i < j /\ runs[i].call = runs[j].call => ~runs[i].ok \/ runs[i].forced
    BY <1>1, <1>4 DEF LoopInv, ToolsAreAccounted, SuccessIsKept, Stopped
  <1> HIDE DEF before, n
  <1>6. Return(before, Head(todo), ok, ToolEnds)
    BY <1>2 DEF before
  <1> QED BY <1>1, <1>3, <1>5, <1>6, ReturnKeeps

LEMMA StartCommandKeeps ==
    ASSUME LoopInv, StartCommand
    PROVE  LoopInv'
  <1> PICK c \in Calls : c = Head(todo)
    BY DEF LoopInv, CallingIsRight, StartCommand
  <1>1. /\ phase = "calling" /\ phase' = "executing" /\ c \notin kept
        /\ runs' = Append(runs, Run(c, FALSE, FALSE))
        /\ UNCHANGED <<round, ask, response, todo, kept>>
    BY DEF StartCommand, Remembered
  <1> DEFINE n == Len(runs)
  <1>2. Run(c, FALSE, FALSE) \in Runs /\ runs \in Seq(Runs) /\ n \in Nat
    BY DEF Run, Runs, LoopInv
  <1>3. /\ runs' \in Seq(Runs) /\ Len(runs') = n + 1 /\ DOMAIN runs' = 1 .. n + 1
        /\ \A i \in 1 .. n : runs'[i] = runs[i]
        /\ runs'[n + 1] = Run(c, FALSE, FALSE)
    <2>0. PICK row \in Runs : row = Run(c, FALSE, FALSE)
      BY <1>2
    <2>1. /\ runs' \in Seq(Runs) /\ Len(runs') = n + 1
          /\ \A i \in 1 .. n : runs'[i] = runs[i]
          /\ runs'[n + 1] = row
      <3>1. runs' = Append(runs, row) /\ runs \in Seq(Runs)
        BY <1>1, <1>2, <2>0
      <3> QED BY <3>1, AppendProperties
    <2> QED BY <2>0, <2>1
  <1>4. /\ \A i \in 1 .. n : runs[i].audited
        /\ \A i \in 1 .. n : runs[i].ok /\ ~runs[i].forced => runs[i].call \in kept
        /\ \A i, j \in 1 .. n : i < j /\ runs[i].call = runs[j].call => ~runs[i].ok \/ runs[i].forced
    BY <1>1, <1>2 DEF LoopInv, ToolsAreAccounted, SuccessIsKept, Stopped
  <1>5. runs'[n + 1].call = c /\ ~runs'[n + 1].ok /\ \A i \in 1 .. n + 1 : i \in 1 .. n \/ i = n + 1
    BY <1>2, <1>3 DEF Run
  <1>6. ExecutingIsRight'
    <2>1. runs' # <<>> /\ runs'[Len(runs')] = Run(c, FALSE, FALSE)'
      BY <1>1, <1>2, <1>3 DEF Run
    <2> QED BY <1>1, <2>1 DEF ExecutingIsRight, Run
  <1>7. SuccessIsKept'
    BY <1>1, <1>3, <1>4, <1>5 DEF SuccessIsKept
  <1>8. ToolsAreAccounted'
    <2>1. \A i \in DOMAIN runs' : runs'[i].audited \/ i = Len(runs')
      BY <1>3, <1>4, <1>5
    <2>2. ASSUME NEW i \in 1 .. n + 1, NEW j \in 1 .. n + 1, i < j, runs'[i].call = runs'[j].call
          PROVE  ~runs'[i].ok \/ runs'[i].forced
      <3>1. i \in 1 .. n /\ (j \in 1 .. n \/ j = n + 1)
        BY <1>2, <2>2
      <3> QED BY <1>1, <1>3, <1>4, <1>5, <2>2, <3>1
    <2> QED BY <1>1, <1>3, <2>1, <2>2 DEF ToolsAreAccounted
  <1>9. IsAsk(ask)' /\ IsReply(response)' /\ CallingIsRight' /\ AnswerKeepsVoice'
    BY <1>1 DEF LoopInv, IsAsk, IsReply, CallingIsRight, AnswerKeepsVoice
  <1> QED BY <1>1, <1>3, <1>6, <1>7, <1>8, <1>9 DEF LoopInv

LEMMA LoopSteps == LoopInv /\ [LoopNext]_loopVars => LoopInv'
  <1> SUFFICES ASSUME LoopInv, [LoopNext]_loopVars PROVE LoopInv'
    OBVIOUS
  <1>1. CASE UNCHANGED loopVars
    BY <1>1 DEF LoopInv, loopVars, IsAsk, IsReply, CallingIsRight, ExecutingIsRight, Run, SuccessIsKept,
                ToolsAreAccounted, AnswerKeepsVoice
  <1>2. ASSUME phase' \in Stopped, UNCHANGED <<round, ask, response, todo, kept, runs>> PROVE LoopInv'
    <2>1. /\ runs \in Seq(Runs)
          /\ \A i, j \in DOMAIN runs : i < j /\ runs[i].call = runs[j].call => ~runs[i].ok \/ runs[i].forced
      BY DEF LoopInv, ToolsAreAccounted
    <2> QED BY <1>2, <2>1, StopKeeps
  <1>3. CASE ProviderFails \/ (Waiting /\ Cancel)
    BY <1>2, <1>3 DEF ProviderFails, Fail, Cancel, Stopped
  <1> QED BY <1>1, <1>3, BeginKeeps, AnswerKeeps, ToolsRejectedKeeps, RepeatKeeps, CallHandlerKeeps,
             StartCommandKeeps, CommandEndsKeeps DEF LoopNext, LoopStep

LEMMA LoopHolds == LoopInv => LoopTypeOK /\ ToolsAreAccounted /\ AnswerKeepsVoice
  <1> SUFFICES ASSUME LoopInv PROVE LoopTypeOK
    BY DEF LoopInv
  <1>1. ask.kind \in {"native", "text"} \cup WithoutTools /\ ask.n \in 0 .. (MaxContinuations + MaxRewrites)
    BY LoopAssumption DEF LoopInv, IsAsk, WithoutTools
  <1>2. \A i \in DOMAIN runs : runs[i].call \in Calls
    <2>1. \A i \in DOMAIN runs : runs[i] \in Runs
      BY DEF LoopInv
    <2> QED BY <2>1 DEF Runs
  <1> QED BY <1>1, <1>2 DEF LoopInv, LoopTypeOK

\* No effect of a tool goes unrecorded by a turn that has an answer and none is
\* had twice, and an answer keeps the voice contract, for any calls, responses
\* and limits (send, _complete_once, _execute_tool_call of interactive.py).
THEOREM ToolsStayAccounted == LoopSpec => [](LoopTypeOK /\ ToolsAreAccounted /\ AnswerKeepsVoice)
  BY LoopStarts, LoopSteps, LoopHolds, PTL DEF LoopSpec
-----------------------------------------------------------------------------
(***************************************************************************)
(* Terminal: the files of the user, and the replies on the screen.         *)
(***************************************************************************)
Distinct(s) == \A i, j \in DOMAIN s : s[i] = s[j] => i = j

\* Chosen keeps of a sequence what it is asked for, and no more: the rank of a
\* place is a bijection between the places that are kept and their number.
LEMMA ChosenGives ==
    ASSUME NEW T, NEW s \in Seq(T), NEW S
    PROVE  /\ Chosen(s, S) \in Seq(T)
           /\ Range(Chosen(s, S)) = Range(s) \cap S
           /\ Len(Chosen(s, S)) <= Len(s)
           /\ Distinct(s) => Distinct(Chosen(s, S))
  <1> DEFINE places == {i \in DOMAIN s : s[i] \in S}
             upto(i) == {j \in places : j <= i}
             rank == [i \in places |-> Cardinality(upto(i))]
             c == Cardinality(places)
             at(n) == CHOOSE i \in places : Cardinality(upto(i)) = n
             chosen == Chosen(s, S)
  <1>1. /\ Len(s) \in Nat /\ DOMAIN s = 1 .. Len(s) /\ places \subseteq 1 .. Len(s)
        /\ \A i \in 1 .. Len(s) : s[i] \in T
    OBVIOUS
  <1>2. IsFiniteSet(places) /\ c \in Nat /\ c <= Len(s)
    <2>1. IsFiniteSet(1 .. Len(s)) /\ Cardinality(1 .. Len(s)) = Len(s)
      BY <1>1, FS_Interval
    <2>2. places \in SUBSET (1 .. Len(s)) /\ Len(s) \in Nat
      BY <1>1
    <2> HIDE DEF places
    <2>3. IsFiniteSet(places) /\ Cardinality(places) <= Len(s)
      BY <2>1, <2>2, FS_Subset
    <2> QED BY <2>3, FS_CardinalityType
  <1>3. chosen = [n \in 1 .. c |-> s[at(n)]]
    BY DEF Chosen
  <1>4. \A i \in places : i \in Nat
    BY <1>1
  <1> HIDE DEF places, chosen
  <1>5. \A i \in places : IsFiniteSet(upto(i)) /\ Cardinality(upto(i)) \in 1 .. c
    <2> SUFFICES ASSUME NEW i \in places PROVE IsFiniteSet(upto(i)) /\ Cardinality(upto(i)) \in 1 .. c
      OBVIOUS
    <2>1. upto(i) \in SUBSET places /\ i \in upto(i)
      BY <1>4
    <2> HIDE DEF upto
    <2>2. IsFiniteSet(upto(i)) /\ Cardinality(upto(i)) <= c
      BY <1>2, <2>1, FS_Subset
    <2>3. Cardinality(upto(i)) \in Nat /\ Cardinality(upto(i)) # 0
      BY <2>1, <2>2, FS_CardinalityType, FS_EmptySet
    <2> HIDE DEF c
    <2> QED BY <1>2, <2>2, <2>3
  <1>6. \A i, k \in places : Cardinality(upto(i)) = Cardinality(upto(k)) => i = k
    <2>1. ASSUME NEW i \in places, NEW k \in places, i < k
          PROVE  Cardinality(upto(i)) # Cardinality(upto(k))
      <3>1. upto(i) \in SUBSET upto(k) /\ k \in upto(k) /\ k \notin upto(i) /\ i \in Nat /\ k \in Nat
        BY <1>4, <2>1
      <3>2. IsFiniteSet(upto(k))
        BY <1>5
      <3> HIDE DEF upto
      <3> QED BY <3>1, <3>2, FS_Subset
    <2> HIDE DEF upto
    <2>2. \A i, k \in places : i = k \/ i < k \/ k < i
      BY <1>4
    <2> QED BY <2>1, <2>2
  <1>7. \A n \in 1 .. c : at(n) \in places /\ Cardinality(upto(at(n))) = n
    <2>1. rank \in Injection(places, 1 .. c)
      <3> HIDE DEF upto, c
      <3> QED BY <1>5, <1>6 DEF Injection, IsInjective
    <2>2. IsFiniteSet(1 .. c) /\ Cardinality(1 .. c) = c
      BY <1>2, FS_Interval
    <2>3. rank \in Surjection(places, 1 .. c)
      <3> HIDE DEF rank
      <3> QED BY <2>1, <2>2, FS_Injection
    <2>4. \A n \in 1 .. c : \E i \in places : Cardinality(upto(i)) = n
      <3> HIDE DEF upto, c
      <3> QED BY <2>3 DEF Surjection
    <2> HIDE DEF upto, c
    <2> QED BY <2>4
  <1>8. \A i \in places : \E n \in 1 .. c : at(n) = i
    <2> HIDE DEF upto, c, at
    <2> QED BY <1>5, <1>6, <1>7
  <1>9. \A n, m \in 1 .. c : at(n) = at(m) => n = m
    <2> HIDE DEF upto, c, at
    <2> QED BY <1>7
  <1> HIDE DEF upto, c, at
  <1>10. \A n \in 1 .. c : at(n) \in DOMAIN s /\ s[at(n)] \in S
    BY <1>7 DEF places
  <1>11. chosen \in Seq(T) /\ Len(chosen) = c /\ DOMAIN chosen = 1 .. c
    BY <1>1, <1>2, <1>3, <1>10
  <1>12. \A n \in 1 .. c : chosen[n] = s[at(n)]
    BY <1>3
  <1>13. Range(chosen) = Range(s) \cap S
    <2>1. Range(chosen) \subseteq Range(s) \cap S
      BY <1>10, <1>11, <1>12 DEF Range
    <2>2. ASSUME NEW i \in DOMAIN s, s[i] \in S PROVE s[i] \in Range(chosen)
      <3>1. PICK n \in 1 .. c : at(n) = i
        BY <1>8, <2>2 DEF places
      <3> QED BY <1>11, <1>12, <3>1 DEF Range
    <2>3. Range(s) \cap S \subseteq Range(chosen)
      BY <2>2 DEF Range
    <2> QED BY <2>1, <2>3
  <1>14. Distinct(s) => Distinct(chosen)
    BY <1>9, <1>10, <1>11, <1>12 DEF Distinct
  <1> QED BY <1>2, <1>11, <1>13, <1>14 DEF chosen

\* What a sequence has, with one more, without one, and with others.
LEMMA AppendKeepsDistinct ==
    ASSUME NEW T, NEW s \in Seq(T), NEW x \in T
    PROVE  /\ Append(s, x) \in Seq(T)
           /\ Range(Append(s, x)) = Range(s) \cup {x}
           /\ Distinct(s) /\ x \notin Range(s) => Distinct(Append(s, x))
  <1> DEFINE n == Len(s)
             a == Append(s, x)
  <1>1. n \in Nat /\ DOMAIN s = 1 .. n
    OBVIOUS
  <1>2. a \in Seq(T) /\ Len(a) = n + 1 /\ (\A i \in 1 .. n : a[i] = s[i]) /\ a[n + 1] = x
    BY AppendProperties
  <1>3. DOMAIN a = 1 .. n + 1
    BY <1>2
  <1> HIDE DEF n, a
  <1>4. \A i \in 1 .. n + 1 : i \in 1 .. n \/ i = n + 1
    BY <1>1
  <1>5. 1 .. n \subseteq 1 .. n + 1 /\ n + 1 \in 1 .. n + 1
    BY <1>1
  <1>6. Range(a) = Range(s) \cup {x}
    BY <1>1, <1>2, <1>3, <1>4, <1>5 DEF Range
  <1>7. Distinct(s) /\ x \notin Range(s) => Distinct(a)
    BY <1>1, <1>2, <1>3, <1>4 DEF Distinct, Range
  <1> QED BY <1>2, <1>6, <1>7 DEF a

LEMMA RemoveKeepsDistinct ==
    ASSUME NEW T, NEW s \in Seq(T), NEW k \in DOMAIN s
    PROVE  /\ RemoveAt(s, k) \in Seq(T)
           /\ Range(s) \ {s[k]} \subseteq Range(RemoveAt(s, k))
           /\ Distinct(s) => Distinct(RemoveAt(s, k))
           /\ Len(RemoveAt(s, k)) <= Len(s)
  <1> DEFINE n == Len(s)
             a == SubSeq(s, 1, k - 1)
             b == SubSeq(s, k + 1, n)
             r == RemoveAt(s, k)
  <1>1. n \in Nat /\ DOMAIN s = 1 .. n /\ k \in 1 .. n /\ \A i \in 1 .. n : s[i] \in T
    OBVIOUS
  <1>2. r = a \o b
    BY DEF RemoveAt
  <1> HIDE DEF n, r
  <1>3. a \in Seq(T) /\ Len(a) = k - 1 /\ \A i \in 1 .. k - 1 : a[i] = s[i]
    <2>1. \A i \in 1 .. k - 1 : s[i] \in T
      BY <1>1
    <2> QED BY <1>1, <2>1, SubSeqProperties
  <1>4. b \in Seq(T) /\ Len(b) = n - k /\ \A i \in 1 .. n - k : b[i] = s[k + i]
    <2>1. \A i \in k + 1 .. n : s[i] \in T
      BY <1>1
    <2>2. /\ b \in Seq(T) /\ Len(b) = (IF k + 1 <= n THEN n - (k + 1) + 1 ELSE 0)
          /\ \A i \in 1 .. n - (k + 1) + 1 : b[i] = s[(k + 1) + i - 1]
      BY <1>1, <2>1, SubSeqProperties
    <2>3. n - (k + 1) + 1 = n - k /\ (IF k + 1 <= n THEN n - (k + 1) + 1 ELSE 0) = n - k
      BY <1>1
    <2>4. \A i \in 1 .. n - k : (k + 1) + i - 1 = k + i
      BY <1>1
    <2> HIDE DEF b
    <2> QED BY <2>2, <2>3, <2>4
  <1> HIDE DEF a, b
  <1>5. r \in Seq(T) /\ Len(r) = n - 1
    <2>1. r \in Seq(T) /\ Len(r) = (k - 1) + (n - k)
      BY <1>2, <1>3, <1>4, ConcatProperties
    <2> QED BY <1>1, <2>1
  <1>6. \A i \in 1 .. n - 1 : r[i] = IF i < k THEN s[i] ELSE s[i + 1]
    <2>1. \A i \in 1 .. Len(a) + Len(b) : r[i] = IF i <= Len(a) THEN a[i] ELSE b[i - Len(a)]
      BY <1>2, <1>3, <1>4, ConcatProperties
    <2>2. \A i \in 1 .. (k - 1) + (n - k) : r[i] = IF i <= k - 1 THEN a[i] ELSE b[i - (k - 1)]
      BY <1>3, <1>4, <2>1
    <2> SUFFICES ASSUME NEW i \in 1 .. n - 1 PROVE r[i] = IF i < k THEN s[i] ELSE s[i + 1]
      OBVIOUS
    <2>3. i \in 1 .. (k - 1) + (n - k) /\ (i <= k - 1 <=> i < k) /\ (i < k => i \in 1 .. k - 1)
      BY <1>1
    <2>4. ~(i < k) => i - (k - 1) \in 1 .. n - k /\ k + (i - (k - 1)) = i + 1
      BY <1>1
    <2> QED BY <1>3, <1>4, <2>2, <2>3, <2>4
  <1>7. DOMAIN r = 1 .. n - 1
    BY <1>5
  <1>8. Range(s) \ {s[k]} \subseteq Range(r)
    <2>1. ASSUME NEW i \in 1 .. n, s[i] # s[k] PROVE s[i] \in Range(r)
      <3>1. (i < k /\ i \in 1 .. n - 1) \/ (k < i /\ i - 1 \in 1 .. n - 1 /\ ~(i - 1 < k))
        BY <1>1, <2>1
      <3>2. \E j \in 1 .. n - 1 : r[j] = s[i]
        BY <1>1, <1>6, <3>1
      <3> QED BY <1>7, <3>2 DEF Range
    <2> QED BY <1>1, <2>1 DEF Range
  <1>9. Distinct(s) => Distinct(r)
    <2> SUFFICES ASSUME Distinct(s), NEW i \in 1 .. n - 1, NEW j \in 1 .. n - 1, r[i] = r[j] PROVE i = j
      BY <1>7 DEF Distinct
    <2>1. \A x, y \in 1 .. n : s[x] = s[y] => x = y
      BY <1>1 DEF Distinct
    <2>2. i \in 1 .. n /\ i + 1 \in 1 .. n /\ j \in 1 .. n /\ j + 1 \in 1 .. n
      BY <1>1
    <2> QED BY <1>1, <1>6, <2>1, <2>2
  <1>10. Len(r) <= n
    BY <1>1, <1>5
  <1> QED BY <1>5, <1>8, <1>9, <1>10 DEF n, r

LEMMA JoinKeepsDistinct ==
    ASSUME NEW T, NEW s \in Seq(T), NEW t \in Seq(T)
    PROVE  /\ s \o t \in Seq(T)
           /\ Range(s \o t) = Range(s) \cup Range(t)
           /\ Distinct(s) /\ Distinct(t) /\ Range(s) \cap Range(t) = {} => Distinct(s \o t)
  <1> DEFINE n == Len(s)
             m == Len(t)
             u == s \o t
  <1>1. n \in Nat /\ m \in Nat /\ DOMAIN s = 1 .. n /\ DOMAIN t = 1 .. m
    OBVIOUS
  <1>2. u \in Seq(T) /\ DOMAIN u = 1 .. n + m /\ (\A i \in 1 .. n : u[i] = s[i])
        /\ \A i \in n + 1 .. n + m : u[i] = t[i - n]
    OBVIOUS
  <1> HIDE DEF n, m, u
  <1>3. \A i \in 1 .. n + m : i \in 1 .. n \/ (i \in n + 1 .. n + m /\ i - n \in 1 .. m)
    BY <1>1
  <1>4. \A i \in 1 .. n : i \in 1 .. n + m
    BY <1>1
  <1>5. \A i \in 1 .. m : n + i \in n + 1 .. n + m /\ n + i \in 1 .. n + m /\ (n + i) - n = i
    BY <1>1
  <1>6. \A i \in 1 .. m : u[n + i] = t[i]
    BY <1>2, <1>5
  <1>7. Range(u) \subseteq Range(s) \cup Range(t)
    BY <1>1, <1>2, <1>3 DEF Range
  <1>8. Range(s) \cup Range(t) \subseteq Range(u)
    <2>1. Range(s) \subseteq Range(u)
      BY <1>1, <1>2, <1>4 DEF Range
    <2>2. \A i \in 1 .. m : t[i] \in Range(u)
      BY <1>2, <1>5, <1>6 DEF Range
    <2>3. Range(t) \subseteq Range(u)
      BY <1>1, <2>2 DEF Range
    <2> QED BY <2>1, <2>3
  <1>9. ASSUME Distinct(s), Distinct(t), Range(s) \cap Range(t) = {},
               NEW i \in 1 .. n + m, NEW j \in 1 .. n + m, u[i] = u[j]
        PROVE  i = j
    <2>1. CASE i \in 1 .. n /\ j \in 1 .. n
      BY <1>1, <1>2, <1>9, <2>1 DEF Distinct
    <2>2. CASE i - n \in 1 .. m /\ j - n \in 1 .. m /\ i \in n + 1 .. n + m /\ j \in n + 1 .. n + m
      <3>1. i - n = j - n
        BY <1>1, <1>2, <1>9, <2>2 DEF Distinct
      <3> QED BY <1>1, <3>1
    <2>3. ASSUME NEW x \in 1 .. n, NEW y \in n + 1 .. n + m, y - n \in 1 .. m PROVE u[x] # u[y]
      <3>1. u[x] \in Range(s) /\ u[y] \in Range(t)
        BY <1>1, <1>2, <2>3 DEF Range
      <3> QED BY <1>9, <3>1
    <2> QED BY <1>3, <1>9, <2>1, <2>2, <2>3
  <1>10. Distinct(s) /\ Distinct(t) /\ Range(s) \cap Range(t) = {} => Distinct(u)
    BY <1>2, <1>9 DEF Distinct
  <1> QED BY <1>2, <1>7, <1>8, <1>10 DEF u

-----------------------------------------------------------------------------
Workers ==
    [phase : {"created", "waiting", "streaming", "over"}, files : Seq(Files),
     cancelled : BOOLEAN, told : BOOLEAN]

Live(t) == workers[t].phase # "over"

\* Until a turn is cancelled, one turn is under way at most; the queue is empty
\* and closed while it is, and Enter can only have sent its message again.
Undisturbed ==
    (\A t \in Turns : ~workers[t].cancelled) =>
        /\ Len(attached) <= MaxAttached
        /\ \A t \in Turns : Len(workers[t].files) <= MaxAttached
        /\ \A t \in Turns : Live(t) =>
              /\ t = Len(workers) /\ attached = <<>> /\ composer = FALSE
              /\ \A i \in DOMAIN posted : posted[i] = Message

FilesInv ==
    /\ composer \in BOOLEAN
    /\ posted \in Seq(Words \cup {Message}) /\ Len(posted) <= 2
    /\ \A i, j \in DOMAIN posted : posted[i] = posted[j]
    /\ attached \in Seq(Files) /\ Distinct(attached)
    /\ workers \in Seq(Workers)
    /\ \A t \in Turns : Distinct(workers[t].files)
    /\ wanted \subseteq Files
    /\ \A f \in wanted : f \in Range(attached) \/ \E t \in Turns : f \in FilesOf(t)
    /\ Undisturbed

TerminalSpec == TerminalInit /\ [][TerminalNext]_terminalVars

LEMMA FilesStart == TerminalInit => FilesInv
  <1> SUFFICES ASSUME TerminalInit PROVE FilesInv
    OBVIOUS
  <1>1. /\ composer = FALSE /\ posted = <<>> /\ attached = <<>> /\ workers = <<>> /\ wanted = {}
        /\ Len(<<>>) = 0 /\ MaxAttached \in Nat
    BY TerminalAssumption DEF TerminalInit
  <1>2. Turns = {} /\ Undisturbed
    BY <1>1 DEF Turns, Undisturbed
  <1>3. attached \in Seq(Files) /\ workers \in Seq(Workers) /\ posted \in Seq(Words \cup {Message})
    BY <1>1
  <1>4. Distinct(attached) /\ Len(posted) <= 2 /\ \A i, j \in DOMAIN posted : posted[i] = posted[j]
    BY <1>1 DEF Distinct
  <1> QED BY <1>1, <1>2, <1>3, <1>4 DEF FilesInv

\* The types of what is typed and of what is under way.
LEMMA PostedTypes ==
    ASSUME FilesInv
    PROVE  /\ \A i \in DOMAIN posted : posted[i] \in Words \cup {Message}
           /\ posted # <<>> => /\ Head(posted) = posted[1] /\ 1 \in DOMAIN posted
                               /\ Tail(posted) \in Seq(Words \cup {Message}) /\ Len(Tail(posted)) <= 2
                               /\ \A i \in DOMAIN Tail(posted) : Tail(posted)[i] = Head(posted)
           /\ Turns = 1 .. Len(workers) /\ Len(workers) \in Nat
           /\ \A t \in Turns : workers[t] \in Workers
  <1> DEFINE n == Len(posted)
  <1>1. posted \in Seq(Words \cup {Message}) /\ n \in Nat /\ n <= 2 /\ DOMAIN posted = 1 .. n
    BY DEF FilesInv
  <1>2. ASSUME posted # <<>>
        PROVE  /\ Head(posted) = posted[1] /\ 1 \in DOMAIN posted
               /\ Tail(posted) \in Seq(Words \cup {Message}) /\ Len(Tail(posted)) <= 2
               /\ \A i \in DOMAIN Tail(posted) : Tail(posted)[i] = Head(posted)
    <2>1. /\ n # 0 /\ Head(posted) = posted[1]
          /\ Tail(posted) \in Seq(Words \cup {Message}) /\ Len(Tail(posted)) = n - 1
          /\ DOMAIN Tail(posted) = 1 .. n - 1
          /\ \A i \in 1 .. n - 1 : Tail(posted)[i] = posted[i + 1]
      BY <1>1, <1>2
    <2> HIDE DEF n
    <2>2. \A i \in 1 .. n - 1 : i + 1 \in DOMAIN posted /\ 1 \in DOMAIN posted
      BY <1>1
    <2>3. 1 \in DOMAIN posted /\ n - 1 <= 2
      BY <1>1, <2>1
    <2> QED BY <2>1, <2>2, <2>3 DEF FilesInv
  <1>3. workers \in Seq(Workers)
    BY DEF FilesInv
  <1> QED BY <1>1, <1>2, <1>3 DEF Turns

\* The workers go on, and nothing of the files changes.
LEMMA WorkersMove ==
    ASSUME FilesInv, workers' \in Seq(Workers), Len(workers') = Len(workers),
           \A t \in Turns : /\ workers'[t].files = workers[t].files
                            /\ workers'[t].cancelled = workers[t].cancelled
                            /\ workers[t].phase = "over" => workers'[t].phase = "over",
           UNCHANGED <<posted, attached, wanted>>, composer' \in BOOLEAN,
           composer' = composer \/ \E t \in Turns : workers[t].cancelled
    PROVE  FilesInv'
  <1>1. Turns' = Turns
    BY DEF Turns, FilesInv
  <1>2. Undisturbed'
    BY <1>1 DEF FilesInv, Undisturbed, Live
  <1>3. \A f \in wanted' : f \in Range(attached') \/ \E t \in Turns' : f \in FilesOf(t)'
    BY <1>1 DEF FilesInv, FilesOf
  <1> QED BY <1>1, <1>2, <1>3 DEF FilesInv

\* One of the workers changes.
LEMMA WorkerChanges ==
    ASSUME FilesInv, NEW t \in Turns, NEW row \in Workers, workers' = [workers EXCEPT ![t] = row]
    PROVE  /\ workers' \in Seq(Workers) /\ Len(workers') = Len(workers) /\ Turns' = Turns
           /\ workers'[t] = row /\ \A u \in Turns \ {t} : workers'[u] = workers[u]
  <1>1. workers \in Seq(Workers) /\ t \in 1 .. Len(workers) /\ Turns = 1 .. Len(workers)
    BY DEF FilesInv, Turns
  <1>2. /\ workers' \in Seq(Workers) /\ Len(workers') = Len(workers)
        /\ \A i \in 1 .. Len(workers) : workers'[i] = IF i = t THEN row ELSE workers[i]
    BY <1>1, ExceptSeq
  <1>3. Turns' = 1 .. Len(workers')
    BY <1>2 DEF Turns
  <1> QED BY <1>1, <1>2, <1>3

LEMMA WorkerTypes ==
    ASSUME NEW w \in Workers, NEW f \in Seq(Files), NEW b \in BOOLEAN
    PROVE  [w EXCEPT !.phase = "over", !.told = b, !.files = f] \in Workers
  BY DEF Workers

LEMMA PhaseMoves ==
    ASSUME FilesInv, NEW t \in Turns, workers[t].phase # "over",
           NEW p \in {"created", "waiting", "streaming", "over"},
           workers' = [workers EXCEPT ![t].phase = p],
           UNCHANGED <<composer, posted, attached, wanted>>
    PROVE  FilesInv'
  <1> DEFINE row == [workers[t] EXCEPT !.phase = p]
  <1>1. workers[t] \in Workers
    BY PostedTypes
  <1>2. row \in Workers /\ row.files = workers[t].files /\ row.cancelled = workers[t].cancelled
    BY <1>1 DEF Workers
  <1>3. workers' = [workers EXCEPT ![t] = row]
    OBVIOUS
  <1> HIDE DEF row
  <1>4. /\ workers' \in Seq(Workers) /\ Len(workers') = Len(workers)
        /\ workers'[t] = row /\ \A u \in Turns \ {t} : workers'[u] = workers[u]
    BY <1>2, <1>3, WorkerChanges
  <1>5. \A u \in Turns : /\ workers'[u].files = workers[u].files
                         /\ workers'[u].cancelled = workers[u].cancelled
                         /\ workers[u].phase = "over" => workers'[u].phase = "over"
    BY <1>2, <1>4
  <1> QED BY <1>4, <1>5, WorkersMove DEF FilesInv

LEMMA ClearLogKeepsFiles ==
    ASSUME FilesInv, ClearLog
    PROVE  FilesInv'
  <1>1. /\ workers' = [t \in Turns |-> [workers[t] EXCEPT !.told = FALSE]]
        /\ UNCHANGED <<composer, posted, attached, wanted>>
    BY DEF ClearLog
  <1>2. Turns = 1 .. Len(workers) /\ Len(workers) \in Nat /\ \A t \in Turns : workers[t] \in Workers
    BY PostedTypes
  <1>3. \A t \in Turns : /\ [workers[t] EXCEPT !.told = FALSE] \in Workers
                         /\ workers'[t].files = workers[t].files
                         /\ workers'[t].cancelled = workers[t].cancelled
                         /\ workers'[t].phase = workers[t].phase
    BY <1>1, <1>2 DEF Workers
  <1>4. workers' \in Seq(Workers) /\ Len(workers') = Len(workers)
    BY <1>1, <1>2, <1>3
  <1> QED BY <1>1, <1>3, <1>4, WorkersMove DEF FilesInv

-----------------------------------------------------------------------------
(* The composer.                                                           *)

LEMMA PressEnterKeepsFiles ==
    ASSUME FilesInv, NEW c \in Words \cup {Message}, PressEnter(c)
    PROVE  FilesInv'
  <1>1. /\ composer /\ (posted = <<>> \/ posted = <<c>>) /\ posted' = Append(posted, c)
        /\ UNCHANGED <<composer, attached, workers, wanted>>
    BY DEF PressEnter
  <1>2. /\ posted' \in Seq(Words \cup {Message}) /\ Len(posted') <= 2
        /\ \A i \in DOMAIN posted' : posted'[i] = c
    <2>1. CASE posted = <<>>
      <3>1. posted' = <<c>>
        BY <1>1, <2>1
      <3> QED BY <3>1
    <2>2. CASE posted = <<c>>
      <3>1. <<c>> \in Seq(Words \cup {Message}) /\ Len(<<c>>) = 1 /\ <<c>>[1] = c
            /\ posted' = Append(<<c>>, c)
        BY <1>1, <2>2
      <3>2. /\ posted' \in Seq(Words \cup {Message}) /\ Len(posted') = 2
            /\ posted'[1] = c /\ posted'[2] = c
        BY <3>1, AppendProperties
      <3>3. DOMAIN posted' = 1 .. 2 /\ \A i \in 1 .. 2 : i = 1 \/ i = 2
        BY <3>2
      <3> QED BY <3>2, <3>3
    <2> QED BY <1>1, <2>1, <2>2
  <1>3. Turns' = Turns /\ \A t \in Turns : FilesOf(t)' = FilesOf(t) /\ (Live(t)' <=> Live(t))
    BY <1>1 DEF Turns, FilesOf, Live
  <1>4. Undisturbed'
    BY <1>1, <1>3 DEF FilesInv, Undisturbed
  <1> QED BY <1>1, <1>2, <1>3, <1>4 DEF FilesInv

\* A word of the composer changes the queue: then no turn is under way, or one
\* has been cancelled.
LEMMA QueueChanges ==
    ASSUME FilesInv, NEW word, Handle(word), word # "message",
           attached' \in Seq(Files), Distinct(attached'), wanted' \subseteq Files,
           Range(attached') \cap wanted' \in SUBSET Range(attached'),
           \A f \in wanted' : f \in Range(attached') \/ (f \in wanted /\ f \notin Range(attached)),
           Len(attached') <= MaxAttached \/ Len(attached') <= Len(attached),
           UNCHANGED <<composer, workers>>
    PROVE  FilesInv'
  <1>1. /\ Head(posted) = posted[1] /\ 1 \in DOMAIN posted /\ posted[1] # Message
        /\ posted' \in Seq(Words \cup {Message}) /\ Len(posted') <= 2
        /\ \A i \in DOMAIN posted' : posted'[i] = Head(posted)
    BY PostedTypes DEF Handle, Message
  <1>2. Turns' = Turns /\ \A t \in Turns : FilesOf(t)' = FilesOf(t) /\ (Live(t)' <=> Live(t))
    BY DEF Turns, FilesOf, Live
  <1>3. Undisturbed'
    <2> SUFFICES ASSUME \A t \in Turns : ~workers[t].cancelled
                 PROVE  /\ Len(attached') <= MaxAttached
                        /\ \A t \in Turns : Len(workers[t].files) <= MaxAttached /\ ~Live(t)
      BY <1>2 DEF Undisturbed
    <2>1. /\ Len(attached) <= MaxAttached /\ \A t \in Turns : Len(workers[t].files) <= MaxAttached
          /\ \A t \in Turns : Live(t) => \A i \in DOMAIN posted : posted[i] = Message
      BY DEF FilesInv, Undisturbed
    <2>2. \A t \in Turns : ~Live(t)
      BY <1>1, <2>1
    <2>3. Len(attached') <= MaxAttached
      <3>1. Len(attached) \in Nat /\ Len(attached') \in Nat /\ MaxAttached \in Nat
        BY TerminalAssumption DEF FilesInv
      <3> QED BY <2>1, <3>1
    <2> QED BY <2>1, <2>2, <2>3
  <1>4. \A f \in wanted' : f \in Range(attached') \/ \E t \in Turns' : f \in FilesOf(t)'
    BY <1>2 DEF FilesInv
  <1> QED BY <1>1, <1>2, <1>3, <1>4 DEF FilesInv

LEMMA WordFields ==
    ASSUME NEW c \in Words \cup {Message}
    PROVE  /\ c.word = "attach" => c.what \in Files
           /\ c.word = "message" <=> c = Message
  BY DEF Words, Message

LEMMA AttachFileKeepsFiles ==
    ASSUME FilesInv, AttachFile
    PROVE  FilesInv'
  <1>1. Handle("attach") /\ UNCHANGED <<composer, workers>>
    BY DEF AttachFile
  <1>2. Head(posted) \in Words \cup {Message} /\ Head(posted).what \in Files
    BY <1>1, PostedTypes, WordFields DEF Handle
  <1> PICK f \in Files : f = Head(posted).what
    BY <1>2
  <1>3. attached \in Seq(Files) /\ Distinct(attached) /\ wanted \subseteq Files /\ Len(attached) \in Nat
    BY DEF FilesInv
  <1>4. CASE Queueable(f) /\ attached' = Append(attached, f) /\ wanted' = wanted \cup {f}
    <2>1. f \notin Range(attached) /\ Len(attached) < MaxAttached
      BY <1>3, <1>4 DEF Queueable, Contains, Range
    <2>2. attached' \in Seq(Files) /\ Range(attached') = Range(attached) \cup {f} /\ Distinct(attached')
      BY <1>3, <1>4, <2>1, AppendKeepsDistinct
    <2>3. Len(attached') <= MaxAttached
      <3>1. Len(attached') = Len(attached) + 1
        BY <1>3, <1>4
      <3> QED BY <1>3, <2>1, <3>1, TerminalAssumption
    <2> QED BY <1>1, <1>3, <1>4, <2>2, <2>3, QueueChanges
  <1>5. CASE UNCHANGED <<attached, wanted>>
    BY <1>1, <1>3, <1>5, QueueChanges
  <1> QED BY <1>4, <1>5 DEF AttachFile

LEMMA DetachFileKeepsFiles ==
    ASSUME FilesInv, DetachFile
    PROVE  FilesInv'
  <1>1. Handle("detach") /\ UNCHANGED <<composer, workers>>
    BY DEF DetachFile
  <1>2. attached \in Seq(Files) /\ Distinct(attached) /\ wanted \subseteq Files /\ Len(attached) \in Nat
    BY DEF FilesInv
  <1>3. ASSUME NEW i \in DOMAIN attached, attached' = RemoveAt(attached, i), wanted' = wanted \ {attached[i]}
        PROVE  FilesInv'
    <2>1. /\ attached' \in Seq(Files) /\ Range(attached) \ {attached[i]} \subseteq Range(attached')
          /\ Distinct(attached') /\ Len(attached') <= Len(attached)
      BY <1>2, <1>3, RemoveKeepsDistinct
    <2> QED BY <1>1, <1>2, <1>3, <2>1, QueueChanges
  <1>4. CASE UNCHANGED <<attached, wanted>>
    BY <1>1, <1>2, <1>4, QueueChanges
  <1> QED BY <1>3, <1>4 DEF DetachFile

LEMMA EmptyQueueKeepsFiles ==
    ASSUME FilesInv, EmptyQueue
    PROVE  FilesInv'
  <1>1. Handle("empty") /\ UNCHANGED <<composer, workers>> /\ attached' = <<>> /\ wanted' = wanted \ Range(attached)
    BY DEF EmptyQueue
  <1>2. attached' \in Seq(Files) /\ Distinct(attached') /\ Len(attached') = 0 /\ Range(attached') = {}
    BY <1>1 DEF Distinct, Range
  <1>3. Len(attached') <= Len(attached) /\ wanted' \subseteq Files
    BY <1>1, <1>2 DEF FilesInv
  <1> QED BY <1>1, <1>2, <1>3, QueueChanges

LEMMA SubmitKeepsFiles ==
    ASSUME FilesInv, Submit
    PROVE  FilesInv'
  <1> PICK n \in Nat : n = Len(workers)
    BY PostedTypes
  <1> DEFINE before == [t \in Turns |-> Cancelled(workers[t])]
             new == Sending(attached)
  <1>1. /\ Handle("message") /\ workers' = Append(before, new)
        /\ attached' = <<>> /\ composer' = FALSE /\ UNCHANGED wanted
    BY DEF Submit
  <1>2. Turns = 1 .. n /\ n \in Nat /\ (\A t \in Turns : workers[t] \in Workers)
        /\ attached \in Seq(Files)
    BY PostedTypes DEF FilesInv
  <1>3. \A t \in Turns :
            LET w == Cancelled(workers[t]) IN
            /\ w \in Workers /\ w.files = workers[t].files
            /\ w.phase = "over" \/ w.cancelled
            /\ workers[t].cancelled => w.cancelled
            /\ ~w.cancelled => w.phase = "over"
    <2> SUFFICES ASSUME NEW t \in Turns
                 PROVE  LET w == Cancelled(workers[t]) IN
                        /\ w \in Workers /\ w.files = workers[t].files
                        /\ w.phase = "over" \/ w.cancelled
                        /\ workers[t].cancelled => w.cancelled
                        /\ ~w.cancelled => w.phase = "over"
      OBVIOUS
    <2> PICK v \in Workers : v = workers[t]
      BY <1>2
    <2>1. CASE v.phase = "over"
      BY <2>1 DEF Cancelled
    <2>2. CASE v.phase # "over"
      <3> DEFINE p == IF v.phase = "created" THEN "over" ELSE v.phase
      <3>1. p \in {"created", "waiting", "streaming", "over"}
        BY DEF Workers
      <3>2. Cancelled(v) = [v EXCEPT !.cancelled = TRUE, !.phase = p]
        BY <2>2 DEF Cancelled
      <3> HIDE DEF p
      <3>3. Cancelled(v) \in Workers /\ Cancelled(v).files = v.files /\ Cancelled(v).cancelled
        BY <3>1, <3>2 DEF Workers
      <3> QED BY <3>3
    <2> QED BY <2>1, <2>2
  <1>4. new \in Workers /\ new.files = attached /\ new.phase = "created"
    BY <1>2 DEF Sending, Workers
  <1>5. before \in Seq(Workers) /\ Len(before) = n
    BY <1>2, <1>3
  <1> HIDE DEF before, new
  <1>6. /\ workers' \in Seq(Workers) /\ Len(workers') = n + 1 /\ workers'[n + 1] = new
        /\ \A t \in 1 .. n : workers'[t] = before[t]
    BY <1>1, <1>4, <1>5, AppendProperties
  <1>7. Turns' = 1 .. n + 1 /\ Turns = 1 .. n
    BY <1>2, <1>6 DEF Turns
  <1>8. \A t \in 1 .. n + 1 : t \in 1 .. n \/ t = n + 1
    BY <1>2
  <1>9. \A t \in 1 .. n : /\ workers'[t].files = workers[t].files
                          /\ workers'[t].phase = "over" \/ workers'[t].cancelled
    BY <1>3, <1>6, <1>7 DEF before
  <1>10. /\ posted' \in Seq(Words \cup {Message}) /\ Len(posted') <= 2
         /\ \A i \in DOMAIN posted' : posted'[i] = Message
    <2>1. Head(posted) = Message
      BY <1>1, PostedTypes, WordFields DEF Handle
    <2> QED BY <1>1, <2>1, PostedTypes DEF Handle
  <1>11. attached' \in Seq(Files) /\ Distinct(attached') /\ Len(attached') = 0
    BY <1>1 DEF Distinct
  <1>12. \A t \in Turns' : Distinct(workers'[t].files)
    BY <1>4, <1>6, <1>7, <1>8, <1>9 DEF FilesInv
  <1>13. \A f \in wanted' : \E t \in Turns' : f \in FilesOf(t)'
    <2>1. FilesOf(n + 1)' = Range(attached)
      BY <1>4, <1>6 DEF FilesOf
    <2>2. \A t \in 1 .. n : FilesOf(t)' = FilesOf(t) /\ t \in 1 .. n + 1
      BY <1>2, <1>9 DEF FilesOf
    <2>3. n + 1 \in 1 .. n + 1
      BY <1>2
    <2> QED BY <1>1, <1>7, <2>1, <2>2, <2>3 DEF FilesInv
  <1>14. Undisturbed'
    <2> SUFFICES ASSUME \A t \in Turns' : ~workers'[t].cancelled
                 PROVE  /\ Len(attached') <= MaxAttached
                        /\ \A t \in Turns' : Len(workers'[t].files) <= MaxAttached
                        /\ \A t \in Turns' : Live(t)' => t = Len(workers')
      BY <1>1, <1>10 DEF Undisturbed
    <2>1. \A t \in Turns : t \in Turns' /\ ~workers[t].cancelled
      <3>1. \A t \in Turns : t \in Turns'
        BY <1>2, <1>7
      <3> QED BY <1>3, <1>6, <1>7, <3>1 DEF before
    <2>2. Len(attached) <= MaxAttached /\ \A t \in Turns : Len(workers[t].files) <= MaxAttached
      BY <2>1 DEF FilesInv, Undisturbed
    <2>3. Len(attached') <= MaxAttached
      BY <1>11, TerminalAssumption
    <2>4. \A t \in Turns' : Len(workers'[t].files) <= MaxAttached
      BY <1>4, <1>6, <1>7, <1>8, <1>9, <2>2
    <2>5. \A t \in Turns' : Live(t)' => t = Len(workers')
      BY <1>6, <1>7, <1>8, <1>9 DEF Live
    <2> QED BY <2>3, <2>4, <2>5
  <1> QED BY <1>1, <1>6, <1>10, <1>11, <1>12, <1>13, <1>14 DEF FilesInv

-----------------------------------------------------------------------------
(* The workers.                                                            *)

\* A turn that is not cancelled is over: the queue and what is wanted are as told.
LEMMA OverKeepsFiles ==
    ASSUME FilesInv, NEW t \in Turns, ~workers[t].cancelled, Live(t), NEW told \in BOOLEAN, Over(t, told),
           attached' \in Seq(Files), Distinct(attached'), wanted' \subseteq Files,
           \A f \in wanted' : f \in Range(attached') \/ (f \in wanted /\ f \notin Range(attached) \cup FilesOf(t)),
           attached = <<>> => attached' = <<>> \/ Len(attached') <= Len(workers[t].files)
    PROVE  FilesInv'
  <1> DEFINE row == [workers[t] EXCEPT !.phase = "over", !.told = told, !.files = <<>>]
  <1>1. workers[t] \in Workers
    BY PostedTypes
  <1>2. /\ row \in Workers /\ row.files = <<>> /\ row.phase = "over" /\ row.cancelled = workers[t].cancelled
    <2>1. <<>> \in Seq(Files)
      OBVIOUS
    <2>2. row \in Workers
      BY <1>1, <2>1, WorkerTypes
    <2> QED BY <1>1, <2>2 DEF Workers
  <1>3. workers' = [workers EXCEPT ![t] = row] /\ composer' = TRUE /\ UNCHANGED posted
    BY DEF Over
  <1> HIDE DEF row
  <1>4. /\ workers' \in Seq(Workers) /\ Len(workers') = Len(workers) /\ Turns' = Turns
        /\ workers'[t] = row /\ \A u \in Turns \ {t} : workers'[u] = workers[u]
    BY <1>2, <1>3, WorkerChanges
  <1>5. \A u \in Turns' : Distinct(workers'[u].files)
    BY <1>2, <1>4 DEF FilesInv, Distinct
  <1>6. \A f \in wanted' : f \in Range(attached') \/ \E u \in Turns' : f \in FilesOf(u)'
    <2>1. \A u \in Turns \ {t} : FilesOf(u)' = FilesOf(u)
      BY <1>4 DEF FilesOf
    <2> QED BY <1>4, <2>1 DEF FilesInv
  <1>7. Undisturbed'
    <2> SUFFICES ASSUME \A u \in Turns : ~workers'[u].cancelled
                 PROVE  /\ Len(attached') <= MaxAttached
                        /\ \A u \in Turns : Len(workers'[u].files) <= MaxAttached /\ ~Live(u)'
      BY <1>4 DEF Undisturbed
    <2>1. \A u \in Turns : ~workers[u].cancelled
      BY <1>2, <1>4
    <2>2. /\ attached = <<>> /\ \A u \in Turns : Live(u) => u = Len(workers)
          /\ \A u \in Turns : Len(workers[u].files) <= MaxAttached
          /\ t = Len(workers)
      BY <2>1 DEF FilesInv, Undisturbed
    <2>3. \A u \in Turns : ~Live(u)'
      BY <1>2, <1>4, <2>2 DEF Live
    <2>4. MaxAttached \in Nat /\ Len(attached') \in Nat /\ Len(workers[t].files) \in Nat /\ Len(<<>>) = 0
      BY <1>1, TerminalAssumption DEF Workers
    <2>5. \A u \in Turns : Len(workers'[u].files) <= MaxAttached
      BY <1>2, <1>4, <2>2, <2>4
    <2>6. Len(attached') <= MaxAttached
      <3>1. attached' = <<>> \/ Len(attached') <= Len(workers[t].files)
        BY <2>2
      <3>2. Len(workers[t].files) <= MaxAttached
        BY <2>2
      <3> QED BY <2>4, <3>1, <3>2
    <2> QED BY <2>3, <2>5, <2>6
  <1> QED BY <1>3, <1>4, <1>5, <1>6, <1>7 DEF FilesInv

LEMMA RenderTurnKeepsFiles ==
    ASSUME FilesInv, NEW t \in Turns, RenderTurn(t)
    PROVE  FilesInv'
  <1>1. /\ ~workers[t].cancelled /\ Live(t) /\ Over(t, TRUE) /\ UNCHANGED attached
        /\ wanted' = wanted \ FilesOf(t)
    BY DEF RenderTurn, Running, Live
  <1>2. attached \in Seq(Files) /\ Distinct(attached) /\ wanted \subseteq Files
    BY DEF FilesInv
  <1> QED BY <1>1, <1>2, OverKeepsFiles

LEMMA SendRaisesKeepsFiles ==
    ASSUME FilesInv, NEW t \in Turns, SendRaises(t)
    PROVE  FilesInv'
  <1>1. ~workers[t].cancelled /\ Live(t) /\ Over(t, FALSE)
    BY DEF SendRaises, Running, Live
  <1>2. PICK existing \in SUBSET FilesOf(t) :
            /\ attached' = Restored(t, existing)
            /\ wanted' = (wanted \ FilesOf(t)) \cup (wanted \cap (existing \cup Range(attached)))
    BY DEF SendRaises
  <1> DEFINE back == Chosen(workers[t].files, existing \ Range(attached))
  <1>3. attached' = attached \o back
    BY <1>2 DEF Restored
  <1>4. /\ workers[t].files \in Seq(Files) /\ Distinct(workers[t].files)
        /\ attached \in Seq(Files) /\ Distinct(attached) /\ wanted \subseteq Files
    BY PostedTypes DEF FilesInv, Workers
  <1>5. /\ back \in Seq(Files) /\ Range(back) = FilesOf(t) \cap (existing \ Range(attached))
        /\ Len(back) <= Len(workers[t].files) /\ Distinct(back)
    BY <1>4, ChosenGives DEF FilesOf
  <1> HIDE DEF back
  <1>6. /\ attached' \in Seq(Files) /\ Distinct(attached')
        /\ Range(attached') = Range(attached) \cup Range(back)
    BY <1>3, <1>4, <1>5, JoinKeepsDistinct
  <1>7. \A f \in wanted' :
            f \in Range(attached') \/ (f \in wanted /\ f \notin Range(attached) \cup FilesOf(t))
    BY <1>2, <1>5, <1>6
  <1>8. attached = <<>> => attached' = back
    BY <1>3, <1>5, ConcatEmptySeq
  <1>9. attached = <<>> => Len(attached') <= Len(workers[t].files)
    BY <1>5, <1>8
  <1>10. wanted' \subseteq Files
    BY <1>2, <1>4
  <1> QED BY <1>1, <1>6, <1>7, <1>9, <1>10, OverKeepsFiles

LEMMA UnwindKeepsFiles ==
    ASSUME FilesInv, NEW t \in Turns, Unwind(t)
    PROVE  FilesInv'
  <1> DEFINE row == [workers[t] EXCEPT !.phase = "over", !.told = FALSE]
  <1>1. workers[t] \in Workers /\ workers[t].cancelled
    BY PostedTypes DEF Unwind
  <1>2. /\ row \in Workers /\ row.files = workers[t].files /\ row.phase = "over"
        /\ row.cancelled = workers[t].cancelled
    BY <1>1 DEF Workers
  <1>3. workers' = [workers EXCEPT ![t] = row] /\ composer' = TRUE /\ UNCHANGED <<posted, attached, wanted>>
    <2>1. [workers[t] EXCEPT !.phase = "over", !.told = FALSE, !.files = workers[t].files] = row
      BY <1>1 DEF Workers
    <2> QED BY <1>1, <2>1 DEF Unwind, Over
  <1> HIDE DEF row
  <1>4. /\ workers' \in Seq(Workers) /\ Len(workers') = Len(workers)
        /\ workers'[t] = row /\ \A u \in Turns \ {t} : workers'[u] = workers[u]
    BY <1>2, <1>3, WorkerChanges
  <1>5. \A u \in Turns : /\ workers'[u].files = workers[u].files
                         /\ workers'[u].cancelled = workers[u].cancelled
                         /\ workers[u].phase = "over" => workers'[u].phase = "over"
    BY <1>2, <1>4
  <1> QED BY <1>1, <1>3, <1>4, <1>5, WorkersMove

LEMMA FilesStep == FilesInv /\ [TerminalNext]_terminalVars => FilesInv'
  <1> SUFFICES ASSUME FilesInv, [TerminalNext]_terminalVars PROVE FilesInv'
    OBVIOUS
  <1>1. ASSUME UNCHANGED <<posted, attached, workers, wanted>>,
               UNCHANGED composer \/ (workers = <<>> /\ composer' = TRUE)
        PROVE  FilesInv'
    <2>1. Turns' = Turns /\ \A t \in Turns : FilesOf(t)' = FilesOf(t) /\ (Live(t)' <=> Live(t))
      BY <1>1 DEF Turns, FilesOf, Live
    <2>2. Undisturbed'
      BY <1>1, <2>1 DEF FilesInv, Undisturbed, Turns
    <2> QED BY <1>1, <2>1, <2>2 DEF FilesInv
  <1>2. CASE UNCHANGED terminalVars
    BY <1>1, <1>2 DEF terminalVars
  <1>3. CASE InitializeEnds \/ PollLocks \/ PollEnds
    BY <1>1, <1>3 DEF InitializeEnds, PollLocks, PollEnds
  <1>4. ASSUME NEW t \in Turns, HandleStreamEvent(t) PROVE FilesInv'
    BY <1>1, <1>4 DEF HandleStreamEvent
  <1>5. ASSUME NEW t \in Turns, BeginSend(t) \/ SendLocks(t) PROVE FilesInv'
    BY <1>5, PhaseMoves DEF BeginSend, SendLocks, Running
  <1> QED BY <1>2, <1>3, <1>4, <1>5, PressEnterKeepsFiles, SubmitKeepsFiles, AttachFileKeepsFiles,
             DetachFileKeepsFiles, EmptyQueueKeepsFiles, ClearLogKeepsFiles, RenderTurnKeepsFiles,
             SendRaisesKeepsFiles, UnwindKeepsFiles DEF TerminalNext

LEMMA FilesHold == FilesInv => FilesAreKept
  <1> SUFFICES ASSUME FilesInv PROVE FilesAreKept
    OBVIOUS
  <1>1. \A f : f \in Range(attached) => Contains(attached, f)
    BY DEF Range, Contains, FilesInv
  <1>2. Len(attached) <= MaxAttached \/ \E t \in Turns : workers[t].cancelled
    BY DEF FilesInv, Undisturbed
  <1> QED BY <1>1, <1>2 DEF FilesInv, FilesAreKept, Distinct

\* A file that the user wants sent stays queued or on its way, and a failed turn
\* gives its files back once, for any files, limit and number of turns
\* (submit_message, _send, _queue_attachment of tui.py).
THEOREM FilesStayKept == TerminalSpec => []FilesAreKept
  BY FilesStart, FilesStep, FilesHold, PTL DEF TerminalSpec

-----------------------------------------------------------------------------
(* What the conversation shows.                                            *)

Blocks == [of : Nat, live : BOOLEAN, text : {"none", "part", "whole"}]

\* The turn that goes on is the last one.
InHand(t) == Live(t) /\ ~workers[t].cancelled

\* The messages that are typed and not handled.
Waits == IF posted = <<>> \/ posted[1] # Message THEN 0 ELSE Len(posted)

ViewInv ==
    /\ blocks \in Seq(Blocks)
    /\ \A i \in DOMAIN blocks : blocks[i].of \in Turns
    /\ \A i, j \in DOMAIN blocks : blocks[i].of = blocks[j].of => i = j
    /\ stream \in 0 .. Len(blocks)
    /\ polling \in {"off", "idle", "ticking"}
    /\ Len(workers) + Waits <= MaxTurns
    /\ \A t \in Turns : InHand(t) =>
          /\ t = Len(workers)
          /\ stream = 0 => blocks = <<>>
          /\ stream # 0 => blocks[stream].of = t
    /\ \A t \in Turns : workers[t].told =>
          /\ ~Live(t)
          /\ \E i \in DOMAIN blocks : blocks[i].of = t /\ blocks[i].text = "whole"
    /\ \A t \in Turns : ~Live(t) /\ ~workers[t].cancelled =>
          \A i \in DOMAIN blocks : blocks[i].of = t => ~blocks[i].live

LEMMA ViewStarts == TerminalInit => ViewInv
  <1> SUFFICES ASSUME TerminalInit PROVE ViewInv
    OBVIOUS
  <1>1. posted = <<>> /\ workers = <<>> /\ blocks = <<>> /\ stream = 0 /\ polling = "off" /\ Len(<<>>) = 0
    BY DEF TerminalInit
  <1>2. Turns = {} /\ Waits = 0 /\ blocks \in Seq(Blocks)
    BY <1>1 DEF Turns, Waits
  <1>3. Len(workers) + Waits <= MaxTurns
    BY <1>1, <1>2, TerminalAssumption
  <1> HIDE DEF TerminalInit
  <1> QED BY <1>1, <1>2, <1>3 DEF ViewInv

\* The count of PressEnter is that of the messages.
LEMMA WaitsAreCounted ==
    ASSUME FilesInv
    PROVE  Cardinality({i \in DOMAIN posted : posted[i] = Message}) = Waits /\ Waits \in Nat
  <1> DEFINE n == Len(posted)
  <1>1. n \in Nat /\ DOMAIN posted = 1 .. n /\ (posted = <<>> => n = 0) /\ (posted # <<>> => 1 \in 1 .. n)
    BY DEF FilesInv
  <1> HIDE DEF n
  <1>2. CASE posted = <<>> \/ posted[1] # Message
    <2>1. {i \in DOMAIN posted : posted[i] = Message} = {}
      BY <1>1, <1>2 DEF FilesInv
    <2> QED BY <1>2, <2>1, FS_EmptySet DEF Waits
  <1>3. CASE ~(posted = <<>> \/ posted[1] # Message)
    <2>1. {i \in DOMAIN posted : posted[i] = Message} = 1 .. n
      BY <1>1, <1>3 DEF FilesInv
    <2>2. Cardinality(1 .. n) = n
      BY <1>1, FS_Interval
    <2> QED BY <1>1, <1>3, <2>1, <2>2 DEF Waits, n
  <1> QED BY <1>2, <1>3

\* What is handled no longer waits.
LEMMA HandledWaitsNot ==
    ASSUME FilesInv, NEW word, Handle(word)
    PROVE  /\ Waits' \in Nat
           /\ word = "message" => Waits' + 1 = Waits
           /\ word # "message" => Waits' <= Waits
  <1> PICK n \in Nat : n = Len(posted)
    BY DEF FilesInv
  <1>1. /\ posted # <<>> /\ posted \in Seq(Words \cup {Message}) /\ posted' = Tail(posted) /\ Head(posted) = posted[1]
        /\ Head(posted).word = word /\ Head(posted) \in Words \cup {Message}
        /\ \A i \in DOMAIN Tail(posted) : Tail(posted)[i] = Head(posted)
    BY PostedTypes DEF Handle, FilesInv
  <1>2. /\ n # 0 /\ Len(posted') = n - 1 /\ DOMAIN posted' = 1 .. n - 1
        /\ (posted' = <<>> <=> n = 1)
    <2>1. n # 0 /\ Len(posted') = n - 1 /\ posted' \in Seq(Words \cup {Message})
      BY <1>1
    <2>2. posted' = <<>> => Len(posted') = 0
      OBVIOUS
    <2>3. Len(posted') = 0 => posted' = <<>>
      BY <2>1, EmptySeq
    <2> QED BY <2>1, <2>2, <2>3
  <1>3. posted' # <<>> => posted'[1] = posted[1]
    <2>1. posted' # <<>> => 1 \in 1 .. n - 1
      BY <1>2
    <2> QED BY <1>1, <1>2, <2>1
  <1>4. CASE word = "message"
    <2>1. posted[1] = Message
      BY <1>1, <1>4, WordFields
    <2>2. Waits = n /\ Waits' = n - 1
      BY <1>1, <1>2, <1>3, <2>1 DEF Waits, Message
    <2> QED BY <1>2, <1>4, <2>2
  <1>5. CASE word # "message"
    <2>1. posted[1] # Message
      BY <1>1, <1>5 DEF Message
    <2>2. Waits = 0 /\ Waits' = 0
      BY <1>3, <2>1 DEF Waits, Message
    <2> QED BY <1>5, <2>2
  <1> QED BY <1>4, <1>5

\* The view stays while the workers go on: none begins again, none is told.
LEMMA ViewRests ==
    ASSUME FilesInv, ViewInv, UNCHANGED <<blocks, stream>>, polling' \in {"off", "idle", "ticking"},
           Len(workers') = Len(workers), Waits' \in Nat, Waits' <= Waits, Turns' = Turns,
           \A t \in Turns :
              /\ workers'[t].cancelled = workers[t].cancelled
              /\ workers'[t].told => workers[t].told /\ workers'[t].phase = "over"
              /\ InHand(t)' => InHand(t)
              /\ ~Live(t)' /\ ~workers'[t].cancelled => ~Live(t)
    PROVE  ViewInv'
  <1>1. Len(workers') + Waits' <= MaxTurns
    <2>1. Len(workers) \in Nat /\ Waits \in Nat /\ MaxTurns \in Nat
      BY PostedTypes, WaitsAreCounted, TerminalAssumption
    <2> QED BY <2>1 DEF ViewInv
  <1>2. \A t \in Turns' : workers'[t].told => ~Live(t)'
    BY DEF Live
  <1> QED BY <1>1, <1>2 DEF ViewInv

LEMMA SameWaits == ASSUME FilesInv, UNCHANGED posted PROVE Waits' = Waits /\ Waits' \in Nat /\ Waits' <= Waits
  <1>1. Waits' = Waits
    BY DEF Waits, Message
  <1> QED BY <1>1, WaitsAreCounted

LEMMA ComposerKeepsView ==
    ASSUME FilesInv, ViewInv, UNCHANGED <<workers, blocks, stream, polling>>, Waits' \in Nat,
           Len(workers) + Waits' <= MaxTurns
    PROVE  ViewInv'
  <1>1. Turns' = Turns /\ \A t \in Turns : (Live(t)' <=> Live(t)) /\ (InHand(t)' <=> InHand(t))
    BY DEF Turns, Live, InHand
  <1> QED BY <1>1 DEF ViewInv

LEMMA PressEnterKeepsView ==
    ASSUME FilesInv, FilesInv', ViewInv, NEW c \in Words \cup {Message}, PressEnter(c)
    PROVE  ViewInv'
  <1>1. /\ (posted = <<>> \/ posted = <<c>>) /\ posted' = Append(posted, c) /\ (c = Message => Room)
        /\ UNCHANGED <<workers, blocks, stream, polling>>
    BY DEF PressEnter
  <1>2. /\ Len(workers) \in Nat /\ Waits \in Nat /\ Waits' \in Nat /\ MaxTurns \in Nat
        /\ Len(workers) + Waits <= MaxTurns
        /\ c = Message => Len(workers) + Waits < MaxTurns
    <2>1. Waits' \in Nat
      BY WaitsAreCounted DEF FilesInv, Undisturbed, Waits
    <2> QED BY <1>1, <2>1, PostedTypes, WaitsAreCounted, TerminalAssumption DEF Room, ViewInv
  <1>3. /\ posted' # <<>> /\ posted'[1] = c /\ Len(posted') = Len(posted) + 1 /\ Len(posted) \in Nat
        /\ posted # <<>> => posted[1] = c
        /\ posted = <<>> => Len(posted) = 0
    BY <1>1 DEF FilesInv
  <1>4. (c = Message => Waits' = Waits + 1) /\ (c # Message => Waits' = 0)
    BY <1>3 DEF Waits, Message
  <1>5. Len(workers) + Waits' <= MaxTurns
    BY <1>2, <1>4
  <1> QED BY <1>1, <1>2, <1>5, ComposerKeepsView

LEMMA CountMoves ==
    ASSUME NEW n \in Nat, NEW v \in Nat, NEW w \in Nat, NEW m \in Nat, v + 1 = w, n + w <= m
    PROVE  (n + 1) + v <= m
  OBVIOUS

LEMMA SubmitKeepsView ==
    ASSUME FilesInv, ViewInv, Submit
    PROVE  ViewInv'
  <1> PICK n \in Nat : n = Len(workers) /\ Turns = 1 .. n
    BY PostedTypes
  <1> PICK m \in Nat : m = Len(blocks) /\ DOMAIN blocks = 1 .. m
    BY DEF ViewInv
  <1> DEFINE before == [t \in Turns |-> Cancelled(workers[t])]
             new == Sending(attached)
             block == [of |-> n + 1, live |-> TRUE, text |-> "none"]
  <1>1. /\ Handle("message") /\ workers' = Append(before, new)
        /\ blocks' = Append(blocks, block) /\ stream' = m + 1 /\ UNCHANGED polling
    BY DEF Submit
  <1>2. /\ Len(workers') = n + 1 /\ workers'[n + 1] = new
        /\ \A t \in 1 .. n : workers'[t] = Cancelled(workers[t])
    <2>1. Len(before) = n /\ \A t \in 1 .. n : before[t] = Cancelled(workers[t])
      OBVIOUS
    <2>2. \A t \in 1 .. n : t <= Len(before) /\ t \in 1 .. Len(before)
      BY <2>1
    <2>3. /\ before \in Seq(Range(before) \cup {new}) /\ new \in Range(before) \cup {new}
      BY DEF Range
    <2> HIDE DEF before, new
    <2> QED BY <1>1, <2>1, <2>3, AppendProperties
  <1>3. Turns' = 1 .. n + 1 /\ \A t \in 1 .. n + 1 : t \in 1 .. n \/ t = n + 1
    <2>1. DOMAIN workers' = 1 .. n + 1
      <3>1. Len(before) = n /\ before \in Seq(Range(before) \cup {new}) /\ new \in Range(before) \cup {new}
        BY DEF Range
      <3> HIDE DEF before, new
      <3>2. workers' \in Seq(Range(before) \cup {new})
        BY <1>1, <3>1, AppendProperties
      <3> QED BY <1>2, <3>2
    <2> QED BY <2>1 DEF Turns
  <1>4. block \in Blocks /\ block.of = n + 1
    BY DEF Blocks
  <1> HIDE DEF block
  <1>5. /\ blocks' \in Seq(Blocks) /\ DOMAIN blocks' = 1 .. m + 1 /\ blocks'[m + 1] = block
        /\ \A i \in 1 .. m : blocks'[i] = blocks[i]
        /\ Len(blocks') = m + 1
    <2>1. blocks \in Seq(Blocks)
      BY DEF ViewInv
    <2>2. /\ blocks' \in Seq(Blocks) /\ Len(blocks') = m + 1 /\ blocks'[m + 1] = block
          /\ \A i \in 1 .. m : blocks'[i] = blocks[i]
      BY <1>1, <1>4, <2>1, AppendProperties
    <2> QED BY <2>2
  <1>6. \A i \in 1 .. m + 1 : i \in 1 .. m \/ i = m + 1
    OBVIOUS
  <1>7. \A i \in 1 .. m : blocks[i].of \in 1 .. n /\ blocks[i].of # n + 1 /\ blocks[i].of \in 1 .. n + 1
    BY DEF ViewInv
  <1>8. \A i \in DOMAIN blocks' : blocks'[i].of \in Turns'
    BY <1>3, <1>4, <1>5, <1>6, <1>7
  <1>9. \A i, j \in DOMAIN blocks' : blocks'[i].of = blocks'[j].of => i = j
    BY <1>4, <1>5, <1>6, <1>7 DEF ViewInv
  <1>10. \A t \in 1 .. n :
            LET w == Cancelled(workers[t]) IN
            /\ w.phase = "over" \/ w.cancelled
            /\ w.told = workers[t].told
            /\ ~w.cancelled => workers[t].phase = "over" /\ ~workers[t].cancelled
            /\ workers[t].phase = "over" => w.phase = "over"
    <2> SUFFICES ASSUME NEW t \in 1 .. n
                 PROVE  LET w == Cancelled(workers[t]) IN
                        /\ w.phase = "over" \/ w.cancelled
                        /\ w.told = workers[t].told
                        /\ ~w.cancelled => workers[t].phase = "over" /\ ~workers[t].cancelled
                        /\ workers[t].phase = "over" => w.phase = "over"
      OBVIOUS
    <2> PICK v \in Workers : v = workers[t]
      BY PostedTypes
    <2>1. CASE v.phase = "over"
      BY <2>1 DEF Cancelled
    <2>2. CASE v.phase # "over"
      <3>1. PICK p : Cancelled(v) = [v EXCEPT !.cancelled = TRUE, !.phase = p]
        BY <2>2 DEF Cancelled
      <3>2. Cancelled(v).told = v.told /\ Cancelled(v).cancelled
        BY <3>1 DEF Workers
      <3> QED BY <2>2, <3>2
    <2> QED BY <2>1, <2>2
  <1>11. new.phase = "created" /\ ~new.cancelled /\ ~new.told
    BY DEF Sending
  <1> HIDE DEF new
  <1>12. \A t \in Turns' : InHand(t)' =>
            /\ t = Len(workers') /\ stream' # 0 /\ blocks'[stream'].of = t
    BY <1>1, <1>2, <1>3, <1>4, <1>5, <1>10 DEF InHand, Live
  <1>13. \A t \in Turns' : workers'[t].told =>
            /\ ~Live(t)'
            /\ \E i \in DOMAIN blocks' : blocks'[i].of = t /\ blocks'[i].text = "whole"
    <2> SUFFICES ASSUME NEW t \in 1 .. n, workers[t].told
                 PROVE  /\ ~Live(t)'
                        /\ \E i \in DOMAIN blocks' : blocks'[i].of = t /\ blocks'[i].text = "whole"
      BY <1>2, <1>3, <1>10, <1>11
    <2>1. PICK i \in 1 .. m : blocks[i].of = t /\ blocks[i].text = "whole"
      BY DEF ViewInv
    <2>2. workers[t].phase = "over"
      BY DEF ViewInv, Live
    <2>3. i \in 1 .. m + 1
      OBVIOUS
    <2> QED BY <1>2, <1>5, <1>10, <2>1, <2>2, <2>3 DEF Live
  <1>14. \A t \in Turns' : ~Live(t)' /\ ~workers'[t].cancelled =>
            \A i \in DOMAIN blocks' : blocks'[i].of = t => ~blocks'[i].live
    <2> SUFFICES ASSUME NEW t \in Turns', ~Live(t)', ~workers'[t].cancelled, NEW i \in DOMAIN blocks',
                        blocks'[i].of = t
                 PROVE  ~blocks'[i].live
      OBVIOUS
    <2>1. t \in 1 .. n /\ ~Live(t) /\ ~workers[t].cancelled
      BY <1>2, <1>3, <1>10, <1>11 DEF Live
    <2>2. i \in 1 .. m
      <3>1. t # n + 1
        BY <2>1
      <3> QED BY <1>4, <1>5, <1>6, <3>1
    <2> QED BY <1>5, <2>1, <2>2 DEF ViewInv
  <1>15. Len(workers') + Waits' <= MaxTurns
    <2>1. Waits' \in Nat /\ Waits \in Nat /\ Waits' + 1 = Waits /\ MaxTurns \in Nat /\ n + Waits <= MaxTurns
      BY <1>1, HandledWaitsNot, WaitsAreCounted, TerminalAssumption DEF ViewInv
    <2>2. Len(workers') = n + 1
      BY <1>2
    <2> PICK v \in Nat, w \in Nat : v = Waits' /\ w = Waits
      BY <2>1
    <2>3. v + 1 = w /\ n + w <= MaxTurns /\ MaxTurns \in Nat
      BY <2>1
    <2>4. (n + 1) + v <= MaxTurns
      BY <2>3, CountMoves
    <2> QED BY <2>2, <2>4
  <1>16. stream' \in 0 .. Len(blocks') /\ polling' \in {"off", "idle", "ticking"}
    BY <1>1, <1>5 DEF ViewInv
  <1> QED BY <1>5, <1>8, <1>9, <1>12, <1>13, <1>14, <1>15, <1>16 DEF ViewInv

LEMMA ClearLogKeepsView ==
    ASSUME FilesInv, ViewInv, ClearLog
    PROVE  ViewInv'
  <1>1. /\ blocks' = <<>> /\ stream' = 0 /\ UNCHANGED <<posted, polling>>
        /\ workers' = [t \in Turns |-> [workers[t] EXCEPT !.told = FALSE]]
    BY DEF ClearLog, StreamCleared
  <1>2. Turns = 1 .. Len(workers) /\ Len(workers) \in Nat /\ \A t \in Turns : workers[t] \in Workers
    BY PostedTypes
  <1>3. \A t \in Turns : /\ workers'[t].told = FALSE
                         /\ workers'[t].cancelled = workers[t].cancelled
                         /\ workers'[t].phase = workers[t].phase
    BY <1>1, <1>2 DEF Workers
  <1>4. Len(workers') = Len(workers) /\ Turns' = Turns
    <2>1. DOMAIN workers' = 1 .. Len(workers)
      BY <1>1, <1>2
    <2> QED BY <1>1, <1>2, <2>1 DEF Turns
  <1>5. blocks' \in Seq(Blocks) /\ Len(blocks') = 0 /\ DOMAIN blocks' = {}
    BY <1>1
  <1>6. Waits' = Waits
    BY <1>1, SameWaits
  <1>7. \A t \in Turns : (Live(t)' <=> Live(t)) /\ (InHand(t)' <=> InHand(t))
    BY <1>3 DEF Live, InHand
  <1>8. Len(workers') + Waits' <= MaxTurns /\ stream' \in 0 .. Len(blocks') /\ polling' \in {"off", "idle", "ticking"}
    <2>1. Len(workers') + Waits' <= MaxTurns
      BY <1>4, <1>6 DEF ViewInv
    <2>2. stream' \in 0 .. Len(blocks')
      BY <1>1, <1>5
    <2>3. polling' \in {"off", "idle", "ticking"}
      BY <1>1 DEF ViewInv
    <2> QED BY <2>1, <2>2, <2>3
  <1>9. \A t \in Turns' : InHand(t)' => t = Len(workers') /\ stream' = 0 /\ blocks' = <<>>
    BY <1>1, <1>4, <1>7 DEF ViewInv
  <1>10. \A t \in Turns' : ~workers'[t].told
    BY <1>3, <1>4
  <1>11. \A i \in DOMAIN blocks' : FALSE
    BY <1>5
  <1> QED BY <1>5, <1>8, <1>9, <1>10, <1>11 DEF ViewInv

LEMMA BlockDrawn ==
    ASSUME NEW b \in Blocks, NEW live \in BOOLEAN, NEW text \in {"part", "whole"}
    PROVE  [b EXCEPT !.live = live, !.text = text] = [of |-> b.of, live |-> live, text |-> text]
  <1> DEFINE c == [b EXCEPT !.live = live, !.text = text]
  <1>1. c \in Blocks /\ c.of = b.of /\ c.live = live /\ c.text = text
    BY DEF Blocks
  <1> HIDE DEF c
  <1>2. c = [of |-> c.of, live |-> c.live, text |-> c.text]
    BY <1>1 DEF Blocks
  <1>3. c = [of |-> b.of, live |-> live, text |-> text]
    BY <1>1, <1>2
  <1> QED BY <1>3 DEF c

\* The turn in hand draws its block.
LEMMA DrawGives ==
    ASSUME FilesInv, ViewInv, NEW t \in Turns, InHand(t), NEW text \in {"part", "whole"}, NEW live \in BOOLEAN,
           Draw(t, text, live)
    PROVE  LET k == IF stream = 0 THEN 1 ELSE stream IN
           /\ blocks' \in Seq(Blocks) /\ k \in DOMAIN blocks'
           /\ stream = 0 => Len(blocks) = 0 /\ Len(blocks') = 1
           /\ stream # 0 => Len(blocks') = Len(blocks)
           /\ blocks'[k] = [of |-> t, live |-> live, text |-> text]
           /\ \A i \in DOMAIN blocks' : i # k => i \in DOMAIN blocks /\ blocks'[i] = blocks[i] /\ blocks[i].of # t
           /\ \A i \in DOMAIN blocks : i # k => i \in DOMAIN blocks'
           /\ \A i \in DOMAIN blocks : blocks[i].of # t => i # k
  <1> DEFINE block == [of |-> t, live |-> live, text |-> text]
  <1>1. t \in Nat /\ t = Len(workers)
    BY PostedTypes DEF ViewInv
  <1>2. block \in Blocks /\ blocks \in Seq(Blocks) /\ stream \in 0 .. Len(blocks)
    BY <1>1 DEF Blocks, ViewInv
  <1>3. CASE stream = 0
    <2>1. blocks = <<>>
      BY <1>3 DEF ViewInv
    <2> HIDE DEF block
    <2>2. blocks' = <<block>> /\ Len(blocks) = 0 /\ DOMAIN blocks = {}
      BY <1>3, <2>1 DEF Draw, block
    <2>3. blocks' \in Seq(Blocks) /\ Len(blocks') = 1 /\ blocks'[1] = block /\ DOMAIN blocks' = {1}
      BY <1>2, <2>2
    <2> QED BY <1>3, <2>2, <2>3 DEF block
  <1>4. CASE stream # 0
    <2>1. stream \in 1 .. Len(blocks) /\ DOMAIN blocks = 1 .. Len(blocks)
      BY <1>2, <1>4
    <2>2. blocks[stream].of = t /\ blocks[stream] \in Blocks
      BY <1>2, <1>4, <2>1 DEF ViewInv
    <2>3. [blocks[stream] EXCEPT !.live = live, !.text = text] = block
      BY <2>2, BlockDrawn
    <2>4. blocks' = [blocks EXCEPT ![stream] = [blocks[stream] EXCEPT !.live = live, !.text = text]]
      BY <1>4, <2>1 DEF Draw
    <2> HIDE DEF block
    <2>5. blocks' = [blocks EXCEPT ![stream] = block]
      BY <2>3, <2>4
    <2>6. /\ blocks' \in Seq(Blocks) /\ Len(blocks') = Len(blocks)
          /\ \A i \in 1 .. Len(blocks) : blocks'[i] = IF i = stream THEN block ELSE blocks[i]
      BY <1>2, <2>1, <2>5, ExceptSeq
    <2>7. DOMAIN blocks' = 1 .. Len(blocks)
      BY <2>6
    <2>8. \A i \in DOMAIN blocks : i # stream <=> blocks[i].of # t
      BY <2>1, <2>2 DEF ViewInv
    <2> QED BY <1>4, <2>1, <2>6, <2>7, <2>8 DEF block
  <1> QED BY <1>3, <1>4

LEMMA HandleStreamEventKeepsView ==
    ASSUME FilesInv, ViewInv, NEW t \in Turns, HandleStreamEvent(t)
    PROVE  ViewInv'
  <1> PICK k : k = IF stream = 0 THEN 1 ELSE stream
    OBVIOUS
  <1>1. /\ InHand(t) /\ Draw(t, "part", TRUE) /\ stream' = (IF stream = 0 THEN Len(blocks) + 1 ELSE stream)
        /\ UNCHANGED <<posted, workers, polling>>
    BY DEF HandleStreamEvent, Running, InHand, Live
  <1>2. /\ blocks' \in Seq(Blocks) /\ k \in DOMAIN blocks'
        /\ stream = 0 => Len(blocks) = 0
        /\ blocks'[k] = [of |-> t, live |-> TRUE, text |-> "part"]
        /\ \A i \in DOMAIN blocks' : i # k => i \in DOMAIN blocks /\ blocks'[i] = blocks[i] /\ blocks[i].of # t
        /\ \A i \in DOMAIN blocks : i # k => i \in DOMAIN blocks'
        /\ \A i \in DOMAIN blocks : blocks[i].of # t => i # k
    BY <1>1, DrawGives
  <1>3. stream' = k /\ DOMAIN blocks' = 1 .. Len(blocks')
    BY <1>1, <1>2
  <1>4. /\ Turns' = Turns
        /\ \A u \in Turns : (Live(u)' <=> Live(u)) /\ (InHand(u)' <=> InHand(u)) /\ workers'[u] = workers[u]
    BY <1>1 DEF Turns, Live, InHand
  <1>5. \A u \in Turns : InHand(u)' => u = Len(workers') /\ stream' # 0 /\ blocks'[stream'].of = u
    BY <1>1, <1>2, <1>3, <1>4 DEF ViewInv
  <1>6. \A i \in DOMAIN blocks' : blocks'[i].of \in Turns'
    BY <1>2, <1>4 DEF ViewInv
  <1>7. \A i, j \in DOMAIN blocks' : blocks'[i].of = blocks'[j].of => i = j
    BY <1>2 DEF ViewInv
  <1>8. \A u \in Turns' : workers'[u].told =>
            ~Live(u)' /\ \E i \in DOMAIN blocks' : blocks'[i].of = u /\ blocks'[i].text = "whole"
    <2> SUFFICES ASSUME NEW u \in Turns, workers[u].told
                 PROVE  ~Live(u) /\ \E i \in DOMAIN blocks' : blocks'[i].of = u /\ blocks'[i].text = "whole"
      BY <1>4
    <2>1. ~Live(u)
      BY DEF ViewInv
    <2>2. PICK i \in DOMAIN blocks : blocks[i].of = u /\ blocks[i].text = "whole"
      BY DEF ViewInv
    <2>3. u # t
      BY <1>1, <2>1 DEF InHand
    <2> QED BY <1>2, <2>1, <2>2, <2>3
  <1>9. \A u \in Turns' : ~Live(u)' /\ ~workers'[u].cancelled =>
            \A i \in DOMAIN blocks' : blocks'[i].of = u => ~blocks'[i].live
    <2> SUFFICES ASSUME NEW u \in Turns, ~Live(u), ~workers[u].cancelled, NEW i \in DOMAIN blocks', blocks'[i].of = u
                 PROVE  ~blocks'[i].live
      BY <1>4
    <2>1. u # t
      BY <1>1 DEF InHand
    <2>2. i # k
      BY <1>2, <2>1
    <2> QED BY <1>2, <2>2 DEF ViewInv
  <1>10. Len(workers') + Waits' <= MaxTurns /\ stream' \in 0 .. Len(blocks') /\ polling' \in {"off", "idle", "ticking"}
    BY <1>1, <1>2, <1>3, SameWaits DEF ViewInv
  <1>11. \A u \in Turns' : InHand(u)' => u = Len(workers') /\ stream' # 0 /\ blocks'[stream'].of = u
    BY <1>4, <1>5
  <1> QED BY <1>2, <1>6, <1>7, <1>8, <1>9, <1>10, <1>11 DEF ViewInv

LEMMA OverGives ==
    ASSUME FilesInv, NEW t \in Turns, NEW told \in BOOLEAN, Over(t, told)
    PROVE  /\ Len(workers') = Len(workers) /\ Turns' = Turns /\ UNCHANGED <<posted, polling>>
           /\ ~Live(t)' /\ workers'[t].told = told /\ workers'[t].cancelled = workers[t].cancelled
           /\ \A u \in Turns \ {t} : workers'[u] = workers[u]
  <1> PICK files : files = IF workers[t].cancelled THEN workers[t].files ELSE <<>>
    OBVIOUS
  <1> DEFINE row == [workers[t] EXCEPT !.phase = "over", !.told = told, !.files = files]
  <1>1. workers[t] \in Workers /\ files \in Seq(Files)
    <2>1. workers[t] \in Workers
      BY PostedTypes
    <2> QED BY <2>1 DEF Workers
  <1>2. row \in Workers
    BY <1>1, WorkerTypes
  <1>3. row.phase = "over" /\ row.told = told /\ row.cancelled = workers[t].cancelled
    BY <1>1 DEF Workers
  <1>4. workers' = [workers EXCEPT ![t] = row] /\ UNCHANGED <<posted, polling>>
    BY DEF Over
  <1> HIDE DEF row
  <1>5. /\ Len(workers') = Len(workers) /\ Turns' = Turns
        /\ workers'[t] = row /\ \A u \in Turns \ {t} : workers'[u] = workers[u]
    BY <1>2, <1>4, WorkerChanges
  <1> QED BY <1>3, <1>4, <1>5 DEF Live

LEMMA RenderTurnKeepsView ==
    ASSUME FilesInv, ViewInv, NEW t \in Turns, RenderTurn(t)
    PROVE  ViewInv'
  <1> PICK k : k = IF stream = 0 THEN 1 ELSE stream
    OBVIOUS
  <1>1. InHand(t) /\ Draw(t, "whole", FALSE) /\ stream' = 0 /\ Over(t, TRUE)
    BY DEF RenderTurn, Running, InHand, Live
  <1>2. /\ blocks' \in Seq(Blocks) /\ k \in DOMAIN blocks'
        /\ blocks'[k] = [of |-> t, live |-> FALSE, text |-> "whole"]
        /\ \A i \in DOMAIN blocks' : i # k => i \in DOMAIN blocks /\ blocks'[i] = blocks[i] /\ blocks[i].of # t
        /\ \A i \in DOMAIN blocks : i # k => i \in DOMAIN blocks'
        /\ \A i \in DOMAIN blocks : blocks[i].of # t => i # k
    BY <1>1, DrawGives
  <1>3. /\ Len(workers') = Len(workers) /\ Turns' = Turns /\ UNCHANGED <<posted, polling>>
        /\ ~Live(t)' /\ workers'[t].told /\ ~workers'[t].cancelled
        /\ \A u \in Turns \ {t} : workers'[u] = workers[u]
    BY <1>1, OverGives DEF InHand
  <1>4. \A u \in Turns \ {t} : (Live(u)' <=> Live(u)) /\ (InHand(u)' <=> InHand(u))
    BY <1>3 DEF Live, InHand
  <1>5. \A u \in Turns : ~InHand(u)'
    BY <1>1, <1>3, <1>4 DEF ViewInv, InHand
  <1>6. \A i \in DOMAIN blocks' : blocks'[i].of \in Turns'
    BY <1>2, <1>3 DEF ViewInv
  <1>7. \A i, j \in DOMAIN blocks' : blocks'[i].of = blocks'[j].of => i = j
    BY <1>2 DEF ViewInv
  <1>8. \A u \in Turns' : workers'[u].told =>
            ~Live(u)' /\ \E i \in DOMAIN blocks' : blocks'[i].of = u /\ blocks'[i].text = "whole"
    <2>1. ~Live(t)' /\ \E i \in DOMAIN blocks' : blocks'[i].of = t /\ blocks'[i].text = "whole"
      BY <1>2, <1>3
    <2>2. ASSUME NEW u \in Turns \ {t}, workers[u].told
          PROVE  ~Live(u)' /\ \E i \in DOMAIN blocks' : blocks'[i].of = u /\ blocks'[i].text = "whole"
      <3>1. PICK i \in DOMAIN blocks : blocks[i].of = u /\ blocks[i].text = "whole"
        BY <2>2 DEF ViewInv
      <3>2. ~Live(u)'
        BY <1>4, <2>2 DEF ViewInv
      <3> QED BY <1>2, <3>1, <3>2
    <2> QED BY <1>3, <2>1, <2>2
  <1>9. \A u \in Turns' : ~Live(u)' /\ ~workers'[u].cancelled =>
            \A i \in DOMAIN blocks' : blocks'[i].of = u => ~blocks'[i].live
    <2> SUFFICES ASSUME NEW u \in Turns, ~Live(u)', ~workers'[u].cancelled, NEW i \in DOMAIN blocks', blocks'[i].of = u
                 PROVE  ~blocks'[i].live
      BY <1>3
    <2>1. CASE i = k
      BY <1>2, <2>1
    <2>2. CASE i # k
      <3>1. u # t /\ i \in DOMAIN blocks /\ blocks[i].of = u
        BY <1>2, <2>2
      <3>2. ~Live(u) /\ ~workers[u].cancelled
        BY <1>3, <1>4, <3>1
      <3> QED BY <1>2, <2>2, <3>1, <3>2 DEF ViewInv
    <2> QED BY <2>1, <2>2
  <1>10. Len(workers') + Waits' <= MaxTurns /\ stream' \in 0 .. Len(blocks') /\ polling' \in {"off", "idle", "ticking"}
    BY <1>1, <1>2, <1>3, SameWaits DEF ViewInv
  <1> QED BY <1>2, <1>3, <1>5, <1>6, <1>7, <1>8, <1>9, <1>10 DEF ViewInv

LEMMA SendRaisesKeepsView ==
    ASSUME FilesInv, ViewInv, NEW t \in Turns, SendRaises(t)
    PROVE  ViewInv'
  <1>1. /\ InHand(t) /\ stream' = 0 /\ Over(t, FALSE)
        /\ blocks' = [i \in DOMAIN blocks |-> IF i = stream THEN [blocks[i] EXCEPT !.live = FALSE] ELSE blocks[i]]
    BY DEF SendRaises, Running, InHand, Live
  <1>2. /\ Len(workers') = Len(workers) /\ Turns' = Turns /\ UNCHANGED <<posted, polling>>
        /\ ~Live(t)' /\ ~workers'[t].told /\ ~workers'[t].cancelled
        /\ \A u \in Turns \ {t} : workers'[u] = workers[u]
    BY <1>1, OverGives DEF InHand
  <1>3. /\ blocks \in Seq(Blocks) /\ DOMAIN blocks' = DOMAIN blocks
        /\ DOMAIN blocks = 1 .. Len(blocks) /\ Len(blocks) \in Nat /\ \A i \in DOMAIN blocks : blocks[i] \in Blocks
    BY <1>1 DEF ViewInv
  <1>4. \A i \in DOMAIN blocks : /\ blocks'[i] \in Blocks
                                 /\ blocks'[i].of = blocks[i].of /\ blocks'[i].text = blocks[i].text
                                 /\ i = stream => ~blocks'[i].live
                                 /\ i # stream => blocks'[i] = blocks[i]
    <2> SUFFICES ASSUME NEW i \in DOMAIN blocks
                 PROVE  /\ blocks'[i] \in Blocks
                        /\ blocks'[i].of = blocks[i].of /\ blocks'[i].text = blocks[i].text
                        /\ i = stream => ~blocks'[i].live
                        /\ i # stream => blocks'[i] = blocks[i]
      OBVIOUS
    <2> PICK b \in Blocks : b = blocks[i]
      BY <1>3
    <2>1. blocks'[i] = IF i = stream THEN [b EXCEPT !.live = FALSE] ELSE b
      BY <1>1
    <2>2. /\ [b EXCEPT !.live = FALSE].of = b.of /\ [b EXCEPT !.live = FALSE].text = b.text
          /\ ~[b EXCEPT !.live = FALSE].live /\ [b EXCEPT !.live = FALSE] \in Blocks
      BY DEF Blocks
    <2> QED BY <2>1, <2>2
  <1>5. blocks' \in Seq(Blocks) /\ Len(blocks') = Len(blocks)
    BY <1>1, <1>3, <1>4
  <1>6. \A u \in Turns \ {t} : (Live(u)' <=> Live(u)) /\ (InHand(u)' <=> InHand(u))
    BY <1>2 DEF Live, InHand
  <1>7. \A u \in Turns : ~InHand(u)'
    BY <1>1, <1>2, <1>6 DEF ViewInv, InHand
  <1>8. \A u \in Turns' : workers'[u].told =>
            ~Live(u)' /\ \E i \in DOMAIN blocks' : blocks'[i].of = u /\ blocks'[i].text = "whole"
    <2> SUFFICES ASSUME NEW u \in Turns \ {t}, workers[u].told
                 PROVE  ~Live(u)' /\ \E i \in DOMAIN blocks' : blocks'[i].of = u /\ blocks'[i].text = "whole"
      BY <1>2
    <2>1. ~Live(u)' /\ \E i \in DOMAIN blocks : blocks[i].of = u /\ blocks[i].text = "whole"
      BY <1>6 DEF ViewInv
    <2> QED BY <1>3, <1>4, <2>1
  <1>9. \A u \in Turns' : ~Live(u)' /\ ~workers'[u].cancelled =>
            \A i \in DOMAIN blocks' : blocks'[i].of = u => ~blocks'[i].live
    <2> SUFFICES ASSUME NEW u \in Turns, ~Live(u)', ~workers'[u].cancelled, NEW i \in DOMAIN blocks, blocks[i].of = u
                 PROVE  ~blocks'[i].live
      <3>1. \A i \in DOMAIN blocks : blocks'[i].of = blocks[i].of
        BY <1>4
      <3> QED BY <1>2, <1>3, <3>1
    <2>1. CASE u = t
      <3>1. stream # 0 /\ stream \in DOMAIN blocks
        <4>1. stream # 0
          BY <1>1, <1>3 DEF ViewInv
        <4> QED BY <1>3, <4>1 DEF ViewInv
      <3>2. blocks[stream].of = t
        BY <1>1, <3>1 DEF ViewInv
      <3>3. i = stream
        BY <2>1, <3>1, <3>2 DEF ViewInv
      <3> QED BY <1>4, <3>3
    <2>2. CASE u # t
      <3>1. ~blocks[i].live
        BY <1>2, <1>6, <2>2 DEF ViewInv
      <3> QED BY <1>4, <3>1
    <2> QED BY <2>1, <2>2
  <1>10. /\ Len(workers') + Waits' <= MaxTurns /\ stream' \in 0 .. Len(blocks')
         /\ polling' \in {"off", "idle", "ticking"}
    BY <1>1, <1>2, <1>3, <1>5, SameWaits DEF ViewInv
  <1>11. /\ \A i \in DOMAIN blocks' : blocks'[i].of \in Turns'
         /\ \A i, j \in DOMAIN blocks' : blocks'[i].of = blocks'[j].of => i = j
    BY <1>2, <1>3, <1>4 DEF ViewInv
  <1> QED BY <1>2, <1>5, <1>7, <1>8, <1>9, <1>10, <1>11 DEF ViewInv

LEMMA UnwindKeepsView ==
    ASSUME FilesInv, ViewInv, NEW t \in Turns, Unwind(t)
    PROVE  ViewInv'
  <1>1. workers[t].cancelled /\ Over(t, FALSE) /\ UNCHANGED <<blocks, stream>>
    BY DEF Unwind
  <1>2. /\ Len(workers') = Len(workers) /\ Turns' = Turns /\ UNCHANGED <<posted, polling>>
        /\ ~Live(t)' /\ ~workers'[t].told /\ workers'[t].cancelled
        /\ \A u \in Turns \ {t} : workers'[u] = workers[u]
    BY <1>1, OverGives
  <1>3. \A u \in Turns :
            /\ workers'[u].cancelled = workers[u].cancelled
            /\ workers'[u].told => workers[u].told /\ workers'[u].phase = "over"
            /\ InHand(u)' => InHand(u)
            /\ ~Live(u)' /\ ~workers'[u].cancelled => ~Live(u)
    <2> SUFFICES ASSUME NEW u \in Turns
                 PROVE  /\ workers'[u].cancelled = workers[u].cancelled
                        /\ workers'[u].told => workers[u].told /\ workers'[u].phase = "over"
                        /\ InHand(u)' => InHand(u)
                        /\ ~Live(u)' /\ ~workers'[u].cancelled => ~Live(u)
      OBVIOUS
    <2>1. CASE u = t
      <3>1. workers'[t].cancelled = workers[t].cancelled
        BY <1>1, OverGives
      <3> QED BY <1>1, <1>2, <2>1, <3>1 DEF InHand
    <2>2. CASE u # t
      <3>1. workers'[u] = workers[u]
        BY <1>2, <2>2
      <3>2. workers[u].told => workers[u].phase = "over"
        BY DEF ViewInv, Live
      <3> QED BY <3>1, <3>2 DEF Live, InHand
    <2> QED BY <2>1, <2>2
  <1>4. polling' \in {"off", "idle", "ticking"}
    BY <1>2 DEF ViewInv
  <1> QED BY <1>1, <1>2, <1>3, <1>4, SameWaits, ViewRests

LEMMA PhaseKeepsView ==
    ASSUME FilesInv, ViewInv, NEW t \in Turns, InHand(t), NEW p \in {"waiting", "streaming"},
           workers' = [workers EXCEPT ![t].phase = p], UNCHANGED <<posted, blocks, stream, polling>>
    PROVE  ViewInv'
  <1> DEFINE row == [workers[t] EXCEPT !.phase = p]
  <1>1. workers[t] \in Workers /\ ~workers[t].told
    BY PostedTypes DEF ViewInv, InHand
  <1>2. row \in Workers /\ row.phase = p /\ row.told = workers[t].told /\ row.cancelled = workers[t].cancelled
    BY <1>1 DEF Workers
  <1>3. workers' = [workers EXCEPT ![t] = row]
    OBVIOUS
  <1> HIDE DEF row
  <1>4. /\ Len(workers') = Len(workers) /\ Turns' = Turns
        /\ workers'[t] = row /\ \A u \in Turns \ {t} : workers'[u] = workers[u]
    BY <1>2, <1>3, WorkerChanges
  <1>5. \A u \in Turns :
            /\ workers'[u].cancelled = workers[u].cancelled
            /\ workers'[u].told => workers[u].told /\ workers'[u].phase = "over"
            /\ InHand(u)' => InHand(u)
            /\ ~Live(u)' /\ ~workers'[u].cancelled => ~Live(u)
    BY <1>1, <1>2, <1>4 DEF ViewInv, Live, InHand
  <1>6. polling' \in {"off", "idle", "ticking"}
    BY DEF ViewInv
  <1> QED BY <1>4, <1>5, <1>6, SameWaits, ViewRests

LEMMA ViewStep == FilesInv /\ FilesInv' /\ ViewInv /\ [TerminalNext]_terminalVars => ViewInv'
  <1> SUFFICES ASSUME FilesInv, FilesInv', ViewInv, [TerminalNext]_terminalVars PROVE ViewInv'
    OBVIOUS
  <1>1. ASSUME UNCHANGED <<posted, workers, blocks, stream>>, polling' \in {"off", "idle", "ticking"}
        PROVE  ViewInv'
    <2>1. Turns' = Turns /\ \A t \in Turns : (Live(t)' <=> Live(t)) /\ (InHand(t)' <=> InHand(t))
      BY <1>1 DEF Turns, Live, InHand
    <2>2. Waits' = Waits
      BY <1>1, SameWaits
    <2> QED BY <1>1, <2>1, <2>2 DEF ViewInv
  <1>2. CASE UNCHANGED terminalVars \/ InitializeEnds \/ PollLocks \/ PollEnds
    BY <1>1, <1>2 DEF terminalVars, InitializeEnds, PollLocks, PollEnds, ViewInv
  <1>3. ASSUME NEW word, Handle(word), word # "message", UNCHANGED <<workers, blocks, stream, polling>>
        PROVE  ViewInv'
    <2>1. Waits' \in Nat /\ Waits' <= Waits /\ Waits \in Nat /\ Len(workers) \in Nat /\ MaxTurns \in Nat
          /\ Len(workers) + Waits <= MaxTurns
      BY <1>3, HandledWaitsNot, WaitsAreCounted, PostedTypes, TerminalAssumption DEF ViewInv
    <2>2. Len(workers) + Waits' <= MaxTurns
      BY <2>1
    <2> QED BY <1>3, <2>1, <2>2, ComposerKeepsView
  <1>4. CASE AttachFile \/ DetachFile \/ EmptyQueue
    BY <1>3, <1>4 DEF AttachFile, DetachFile, EmptyQueue
  <1>5. ASSUME NEW t \in Turns, BeginSend(t) \/ SendLocks(t) PROVE ViewInv'
    BY <1>5, PhaseKeepsView DEF BeginSend, SendLocks, Running, InHand, Live
  <1> QED BY <1>2, <1>4, <1>5, PressEnterKeepsView, SubmitKeepsView, ClearLogKeepsView,
             HandleStreamEventKeepsView, RenderTurnKeepsView, SendRaisesKeepsView, UnwindKeepsView
          DEF TerminalNext

LEMMA TerminalHolds == FilesInv /\ ViewInv => TerminalTypeOK /\ ViewIsSettled
  <1> SUFFICES ASSUME FilesInv, ViewInv PROVE TerminalTypeOK /\ ViewIsSettled
    OBVIOUS
  <1>1. TerminalTypeOK
    <2>1. Len(workers) <= MaxTurns
      <3>1. Len(workers) \in Nat /\ Waits \in Nat /\ MaxTurns \in Nat /\ Len(workers) + Waits <= MaxTurns
        BY PostedTypes, WaitsAreCounted, TerminalAssumption DEF ViewInv
      <3> QED BY <3>1
    <2>2. \A t \in Turns : workers[t].phase \in {"created", "waiting", "streaming", "over"} /\ FilesOf(t) \subseteq Files
      <3>1. \A t \in Turns : workers[t] \in Workers
        BY PostedTypes
      <3>2. \A s \in Seq(Files) : Range(s) \subseteq Files
        BY DEF Range
      <3> QED BY <3>1, <3>2 DEF Workers, FilesOf
    <2>3. \A i \in DOMAIN blocks : blocks[i].text \in {"none", "part", "whole"}
      <3>1. \A i \in DOMAIN blocks : blocks[i] \in Blocks
        BY DEF ViewInv
      <3> QED BY <3>1 DEF Blocks
    <2>4. Range(posted) \subseteq Words \cup {Message} /\ Range(attached) \subseteq Files
      BY DEF Range, FilesInv
    <2> QED BY <2>1, <2>2, <2>3, <2>4 DEF TerminalTypeOK, FilesInv, ViewInv
  <1>2. ASSUME NEW t \in Turns
        PROVE  LET own == {i \in DOMAIN blocks : blocks[i].of = t} IN
               /\ Cardinality(own) <= 1
               /\ workers[t].told => \E i \in own : blocks[i].text = "whole"
               /\ workers[t].phase = "over" => workers[t].cancelled \/ \A i \in own : ~blocks[i].live
    <2> DEFINE own == {i \in DOMAIN blocks : blocks[i].of = t}
    <2>1. own = {} \/ \E i : own = {i}
      <3>1. \A i, j \in own : i = j
        BY DEF ViewInv
      <3> HIDE DEF own
      <3> QED BY <3>1
    <2>2. Cardinality(own) <= 1
      <3> HIDE DEF own
      <3>1. CASE own = {}
        BY <3>1, FS_EmptySet
      <3>2. ASSUME NEW i, own = {i} PROVE Cardinality(own) <= 1
        <4>1. Cardinality({i}) = 1
          BY FS_Singleton
        <4> QED BY <3>2, <4>1
      <3> QED BY <2>1, <3>1, <3>2
    <2>3. workers[t].told => \E i \in own : blocks[i].text = "whole"
      BY DEF ViewInv
    <2>4. workers[t].phase = "over" => workers[t].cancelled \/ \A i \in own : ~blocks[i].live
      BY DEF ViewInv, Live
    <2> QED BY <2>2, <2>3, <2>4
  <1> QED BY <1>1, <1>2 DEF ViewIsSettled

\* Each answer is shown whole and once, and no block stays live when its turn is
\* over, whenever the view is cleared and Enter is pressed again, for any number
\* of messages (_render_turn, _handle_stream_event, action_clear_log of tui.py).
THEOREM ViewStaysSettled == TerminalSpec => [](TerminalTypeOK /\ ViewIsSettled)
  <1>1. TerminalSpec => []FilesInv
    BY FilesStart, FilesStep, PTL DEF TerminalSpec
  <1> QED BY <1>1, ViewStarts, ViewStep, TerminalHolds, PTL DEF TerminalSpec

-----------------------------------------------------------------------------
(* The client and what is behind it: a scene is a behaviour of its part.   *)

LEMMA ScenesStart ==
    MCInit => Init /\ LoopInit /\ WorkspaceInit /\ ShelfInit /\ RouteInit /\ ChunksInit /\ TerminalInit
  BY DEF MCInit, Init

LEMMA ScenesStep ==
    [MCNext]_streamSceneVars =>
        /\ [Next]_vars
        /\ [LoopNext]_loopVars
        /\ [WorkspaceNext]_workspaceVars
        /\ [ShelfNext]_shelfVars
        /\ [RouteNext]_routeVars
        /\ [ChunksNext]_chunkVars
        /\ [TerminalNext]_terminalVars
  <1> SUFFICES ASSUME [MCNext]_streamSceneVars
               PROVE  /\ [Next]_vars
                      /\ [LoopNext]_loopVars
                      /\ [WorkspaceNext]_workspaceVars
                      /\ [ShelfNext]_shelfVars
                      /\ [RouteNext]_routeVars
                      /\ [ChunksNext]_chunkVars
                      /\ [TerminalNext]_terminalVars
    OBVIOUS
  <1>1. UNCHANGED vars => UNCHANGED loopVars
    BY DEF vars
  <1>2. UNCHANGED others => UNCHANGED <<workspaceVars, shelfVars, routeVars, chunkVars, terminalVars>>
    BY DEF others
  <1>3. CASE UNCHANGED streamSceneVars
    <2>1. UNCHANGED <<vars, others>>
      BY <1>3 DEF streamSceneVars
    <2> QED BY <1>1, <1>2, <2>1
  <1>4. CASE scene = "turn" /\ Next /\ UNCHANGED others
    <2>1. [LoopNext]_loopVars
      <3>1. CASE TurnStep
        BY <3>1 DEF TurnStep, LoopNext
      <3>2. CASE Disconnected
        BY <3>2 DEF Disconnected, LoopNext
      <3>3. CASE UNCHANGED loopVars \/ UNCHANGED vars
        BY <1>1, <3>3
      <3> QED BY <1>4, <3>1, <3>2, <3>3 DEF Next
    <2> QED BY <1>2, <1>4, <2>1
  <1>5. CASE MCNext /\ scene # "turn"
    <2>1. UNCHANGED vars
      BY <1>5 DEF MCNext
    <2>2. /\ WorkspaceNext \/ UNCHANGED workspaceVars
          /\ ShelfNext \/ UNCHANGED shelfVars
          /\ RouteNext \/ UNCHANGED routeVars
          /\ ChunksNext \/ UNCHANGED chunkVars
          /\ TerminalNext \/ UNCHANGED terminalVars
      BY <1>5 DEF MCNext
    <2> QED BY <1>1, <2>1, <2>2
  <1> QED BY <1>3, <1>4, <1>5 DEF MCNext

\* A request stays on the route it began with, the calls a model streams are put
\* together as it sent them, the effects of tools are on record and not had
\* twice, and the answer keeps its voice, for any number of rounds, of routes, of
\* pieces and of requests that run beside each other (llm.py, deepseek.py and
\* the tool rounds of interactive.py).
THEOREM ToolsStaySound == StreamSpec => []ToolsAreSound
  <1>1. StreamSpec => LoopSpec /\ RouteSpec /\ ChunksSpec
    BY ScenesStart, ScenesStep, PTL DEF StreamSpec, LoopSpec, RouteSpec, ChunksSpec
  <1>2. ToolsAreAccounted /\ AnswerKeepsVoice /\ RouteIsKept /\ CallsAreWhole => ToolsAreSound
    BY DEF ToolsAreSound
  <1> QED BY <1>1, <1>2, ToolsStayAccounted, RoutesStayKept, CallsStayWhole, PTL

\* What the user wrote in an editor, switched on the shelf of skills and attached
\* to a message stays as it was told, for any number of editors, files and skills
\* (coding_workspace.py, skill_library.py, tui.py).
THEOREM WorkStaysKept == StreamSpec => []WorkIsKept
  <1>1. StreamSpec => WorkspaceSpec /\ ShelfSpec /\ TerminalSpec
    BY ScenesStart, ScenesStep, PTL DEF StreamSpec, WorkspaceSpec, ShelfSpec, TerminalSpec
  <1> QED BY <1>1, EditsStayKept, ShelfStaysKept, FilesStayKept, PTL DEF WorkIsKept
=============================================================================
