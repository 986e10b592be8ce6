------------------------------- MODULE MCStream -------------------------------
(***************************************************************************)
(* What the browser does with the gateway: a turn with its voice           *)
(* (GatewayStream), the files of the coding workspace (Workspace) and the   *)
(* library of skills (SkillShelf); the model behind it: its route          *)
(* (ModelRoute) and the calls it streams (ToolChunks); and the other       *)
(* client, the terminal (Terminal).  scene says which of them a behaviour  *)
(* is about.                                                               *)
(***************************************************************************)
EXTENDS GatewayStream, Workspace, SkillShelf, ModelRoute, ToolChunks, Terminal, TLC

CONSTANTS e1, e2, s1, f1, f2

MCEditors == {e1, e2}
MCShells == {s1}
MCFiles == {f1, f2}

MCIdentifiers == {<<"a", "b">>, <<"a", "a">>}
MCSending == CHOOSE s \in Sendings : TRUE

\* Two styles with a tag that is cut off; one text that fills a segment, one
\* that has to be mended, one that is cut and cannot be mended; a response that
\* is empty; calls that repeat, with a text of their own.
MCReply(calls, text, cut, voice) == [calls |-> calls, text |-> text, cut |-> cut, voice |-> voice]
MCResponses ==
    { MCReply(<<"run">>, <<>>, FALSE, "kept"),
      MCReply(<<"write", "write">>, <<"word">>, FALSE, "kept"),
      MCReply(<<>>, <<>>, FALSE, "kept"),
      MCReply(<<>>, <<"word", "pause", "word", "stop", "word">>, FALSE, "mended"),
      MCReply(<<>>, <<"calm", "word", "glad", "word", "stop", "half">>, FALSE, "kept"),
      MCReply(<<>>, <<"face", "word">>, TRUE, "broken") }
MCLimit == <<"word", "stop">>
MCSchedule == <<"soft", "glad">>

VARIABLE scene

MCArchives == {<<>>, <<"main", "rest">>}

others == <<workspaceVars, shelfVars, routeVars, chunkVars, terminalVars>>
streamSceneVars == <<scene, vars, others>>

MCInit ==
    /\ scene \in {"turn", "workspace", "skills", "route", "chunks", "terminal"}
    /\ Init /\ WorkspaceInit /\ ShelfInit /\ RouteInit /\ ChunksInit /\ TerminalInit
    /\ scene # "turn" => mode = "plain"
    /\ scene # "route" => router.model = "m1" /\ adapters[1].protocol = "none"
    /\ scene # "chunks" => \A i \in 1 .. CallCount : sent[i] = [id |-> MCSending, name |-> MCSending]

MCNext ==
    /\ UNCHANGED scene
    /\ \/ scene = "turn" /\ Next /\ UNCHANGED others
       \/ scene = "workspace" /\ WorkspaceNext /\ UNCHANGED <<vars, shelfVars, routeVars, chunkVars, terminalVars>>
       \/ scene = "skills" /\ ShelfNext /\ UNCHANGED <<vars, workspaceVars, routeVars, chunkVars, terminalVars>>
       \/ scene = "route" /\ RouteNext /\ UNCHANGED <<vars, workspaceVars, shelfVars, chunkVars, terminalVars>>
       \/ scene = "chunks" /\ ChunksNext /\ UNCHANGED <<vars, workspaceVars, shelfVars, routeVars, terminalVars>>
       \/ scene = "terminal" /\ TerminalNext
             /\ UNCHANGED <<vars, workspaceVars, shelfVars, routeVars, chunkVars>>

\* Requests, commands and the services of the voice end or time out; a task of
\* the gateway that can take a step takes one; so do the workers of the terminal,
\* and the send lock is granted in the order in which it was asked for.
StreamSpec ==
    /\ MCInit /\ [][MCNext]_streamSceneVars
    /\ WF_loopVars(scene = "turn" /\ served = "running" /\ LoopStep)
    /\ WF_ttsVars(scene = "turn" /\ TtsStep)
    /\ WF_served(scene = "turn" /\ ServeStep)
    /\ \A c \in Requesters : WF_routeVars(scene = "route" /\ Receive(c))
    /\ WF_terminalVars(scene = "terminal" /\ (InitializeEnds \/ PollEnds))
    /\ WF_terminalVars(scene = "terminal" /\ SendProceeds)
    /\ SF_terminalVars(scene = "terminal" /\ LockGranted)
    /\ WF_terminalVars(scene = "terminal" /\ Unwinds)

\* Every variable keeps its type.
StreamSceneTypeOK ==
    CASE scene = "turn" -> StreamTypeOK
      [] scene = "workspace" -> WorkspaceTypeOK
      [] scene = "skills" -> ShelfTypeOK
      [] scene = "route" -> RouteTypeOK
      [] scene = "chunks" -> ChunksTypeOK
      [] scene = "terminal" -> TerminalTypeOK

\* The model is asked over one route, its calls are put together as it sent
\* them, and they and the answer are accounted for.
ToolsAreSound ==
    CASE scene = "turn" -> ToolsAreAccounted /\ AnswerKeepsVoice
      [] scene = "route" -> RouteIsKept
      [] scene = "chunks" -> CallsAreWhole
      [] OTHER -> TRUE

\* What a client sees is the reply and what it hears is what it sees.
ClientIsTold ==
    CASE scene = "turn" -> StreamIsOrderly /\ ReplyIsShown /\ SpeechFollowsText
      [] scene = "terminal" -> ViewIsSettled
      [] OTHER -> TRUE

\* What the user has written, switched and attached stays as they were told.
WorkIsKept == EditsAreKept /\ ShelfIsKept /\ FilesAreKept

\* Every request for a turn ends, so does every request to the model, and the
\* user can write again.
TurnEnds ==
    /\ scene = "turn" => <>Ended
    /\ RequestsSettle
    /\ scene = "terminal" => ComposerReturns
=============================================================================
