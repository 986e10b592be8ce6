------------------------------- MODULE Workspace -------------------------------
(***************************************************************************)
(* A file of the coding workspace (services/coding_workspace.py): editors  *)
(* in the browser read and save it through the gateway, while commands and *)
(* the tools of a turn write it.                                           *)
(*                                                                         *)
(* The gateway serves one read or save at a time, without interruption by  *)
(* another; a process it has started writes at any point of it.  A version *)
(* of the text is a number, and so is a modification time: no two writes   *)
(* have the same.                                                          *)
(***************************************************************************)
EXTENDS Integers, FiniteSets

CONSTANTS
    Editors,
    Shells,     \* the commands that may run at once
    MaxWrites   \* bound on the writes

ASSUME WorkspaceAssumption == MaxWrites \in Nat \ {0}

VARIABLES
    disk,       \* the text of the file and its mtime_ns
    writes,     \* the number of writes so far
    open,       \* open[e]: the text and the time the editor has; 0 if none
    known,      \* known[e]: the versions it has shown or written
    handler,    \* the read or the save the gateway serves
    shells,     \* the commands that run
    lost,       \* the versions a checked save replaced that its editor did not know
    raced       \* those a process wrote while the gateway served a save

workspaceVars == <<disk, writes, open, known, handler, shells, lost, raced>>

Idle == [op |-> "none"]

WorkspaceInit ==
    /\ disk = [text |-> 0, time |-> 0]
    /\ writes = 0
    /\ open = [e \in Editors |-> [text |-> -1, time |-> -1]]
    /\ known = [e \in Editors |-> {}]
    /\ handler = Idle
    /\ shells = {}
    /\ lost = {}
    /\ raced = {}

-----------------------------------------------------------------------------
\* read_workspace_file: the time is taken before the text.
BeginRead(e) ==
    /\ handler = Idle
    /\ handler' = [op |-> "read", editor |-> e, time |-> disk.time]
    /\ UNCHANGED <<disk, writes, open, known, shells, lost, raced>>

EndRead ==
    /\ handler.op = "read"
    /\ LET e == handler.editor IN
       /\ open' = [open EXCEPT ![e] = [text |-> disk.text, time |-> handler.time]]
       /\ known' = [known EXCEPT ![e] = @ \cup {disk.text}]
    /\ handler' = Idle
    /\ UNCHANGED <<disk, writes, shells, lost, raced>>

\* Mutant of BeginSave: a file that is newer is not refused.
BeginSaveNotOlder(e, insist) ==
    /\ handler = Idle
    /\ open[e].text # -1 /\ writes < MaxWrites
    /\ handler' = IF insist \/ disk.time >= open[e].time
                    THEN [op |-> "save", editor |-> e, insist |-> insist]
                    ELSE Idle
    /\ UNCHANGED <<disk, writes, open, known, shells, lost, raced>>

\* write_workspace_file: refused when the file is not as the editor has it,
\* unless the editor insists (expected_mtime_ns is None).
BeginSave(e, insist) ==
    /\ handler = Idle
    /\ open[e].text # -1 /\ writes < MaxWrites
    /\ handler' = IF insist \/ disk.time = open[e].time
                    THEN [op |-> "save", editor |-> e, insist |-> insist]
                    ELSE Idle
    /\ UNCHANGED <<disk, writes, open, known, shells, lost, raced>>

Write(text) == disk' = [text |-> text, time |-> text] /\ writes' = text

\* os.replace
Replace ==
    /\ handler.op = "save"
    /\ LET e == handler.editor IN
       /\ Write(writes + 1)
       /\ lost' = IF handler.insist \/ disk.text \in known[e] THEN lost ELSE lost \cup {disk.text}
       /\ known' = [known EXCEPT ![e] = @ \cup {writes + 1}]
       /\ handler' = [op |-> "stat", editor |-> e, text |-> writes + 1]
    /\ UNCHANGED <<open, shells, raced>>

\* The editor is told the time of the file it finds after its save.
EndSave ==
    /\ handler.op = "stat"
    /\ open' = [open EXCEPT ![handler.editor] = [text |-> handler.text, time |-> disk.time]]
    /\ handler' = Idle
    /\ UNCHANGED <<disk, writes, known, shells, lost, raced>>

-----------------------------------------------------------------------------
\* run_workspace_command
RunCommand(s) ==
    /\ handler = Idle /\ s \notin shells
    /\ shells' = shells \cup {s}
    /\ UNCHANGED <<disk, writes, open, known, handler, lost, raced>>

CommandWrites ==
    /\ shells # {} /\ writes < MaxWrites - 1
    /\ Write(writes + 1)
    /\ raced' = IF handler.op \in {"save", "stat"} THEN raced \cup {writes + 1} ELSE raced
    /\ UNCHANGED <<open, known, handler, shells, lost>>

\* It exits, or its time is over and it is killed.
CommandReturns(s) ==
    /\ s \in shells
    /\ shells' = shells \ {s}
    /\ UNCHANGED <<disk, writes, open, known, handler, lost, raced>>

\* The tool write_file runs in the gateway, between its requests.
ToolWrites ==
    /\ handler = Idle /\ writes < MaxWrites
    /\ Write(writes + 1)
    /\ UNCHANGED <<open, known, handler, shells, lost, raced>>

WorkspaceNext ==
    \/ \E e \in Editors :
          BeginRead(e) \/ \E insist \in BOOLEAN : BeginSave(e, insist)
    \/ EndRead \/ Replace \/ EndSave
    \/ \E s \in Shells : RunCommand(s) \/ CommandReturns(s)
    \/ CommandWrites \/ ToolWrites

-----------------------------------------------------------------------------
WorkspaceTypeOK ==
    /\ disk \in [text : 0 .. MaxWrites, time : 0 .. MaxWrites]
    /\ writes \in 0 .. MaxWrites
    /\ open \in [Editors -> [text : -1 .. MaxWrites, time : -1 .. MaxWrites]]
    /\ known \in [Editors -> SUBSET (0 .. MaxWrites)]
    /\ shells \subseteq Shells
    /\ lost \subseteq 0 .. MaxWrites /\ raced \subseteq 0 .. MaxWrites

\* A save that is checked against the time the editor holds replaces only text
\* that editor has seen; what a process writes in the instants of a save is the
\* exception, and then it is the only text that is lost.
EditsAreKept == lost \subseteq raced
=============================================================================
