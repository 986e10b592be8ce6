-------------------------------- MODULE Terminal --------------------------------
(***************************************************************************)
(* The terminal application (DigitalLifeApp of interfaces/tui.py): the     *)
(* composer, the queue of files, the workers that send a turn or poll the  *)
(* lifecycle, and the blocks of the conversation.                          *)
(*                                                                         *)
(* The Submitted message of a key press is handled after it was posted, so *)
(* Enter may be pressed twice; the second submit cancels the worker of the *)
(* first (exclusive=True), which unwinds while the second already sends.   *)
(***************************************************************************)
EXTENDS Integers, FiniteSets, SequencesExt

CONSTANTS
    Files,       \* the files that may be attached
    MaxAttached, \* files of a message, 8 in the code
    MaxTurns,    \* bound on the messages that are sent
    Hurried      \* bound on what Enter is pressed twice for

ASSUME TerminalAssumption ==
    /\ MaxAttached \in Nat \ {0}
    /\ MaxTurns \in Nat \ {0}

VARIABLES
    composer,  \* whether the input is enabled
    posted,    \* the Submitted messages that wait for their handler
    attached,  \* _pending_attachments
    workers,   \* the workers of the group chat, in order: files is what one carries or
               \* has lost, told whether it has answered into this view
    blocks,    \* the replies that the conversation shows
    stream,    \* _active_stream: a block, or 0
    polling,   \* the worker of the group lifecycle; off until the index is built
    wanted     \* the files that the user wants sent and has not seen answered

terminalVars == <<composer, posted, attached, workers, blocks, stream, polling, wanted>>

TerminalInit ==
    /\ composer = FALSE
    /\ posted = <<>>
    /\ attached = <<>>
    /\ workers = <<>>
    /\ blocks = <<>>
    /\ stream = 0
    /\ polling = "off"
    /\ wanted = {}

Turns == DOMAIN workers
FilesOf(t) == Range(workers[t].files)

\* _initialize_session: without an index the lifecycle is never polled.
InitializeEnds ==
    /\ polling = "off" /\ ~composer /\ workers = <<>>
    /\ composer' = TRUE
    /\ polling' \in {"off", "idle"}
    /\ UNCHANGED <<posted, attached, workers, blocks, stream, wanted>>

-----------------------------------------------------------------------------
(* The composer.                                                           *)

Words == [word : {"attach"}, what : Files] \cup [word : {"detach"}, what : 1 .. MaxAttached]
                \cup {[word |-> "empty", what |-> 0]}
Message == [word |-> "message", what |-> 0]

Room == Len(workers) + Cardinality({i \in DOMAIN posted : posted[i] = Message}) < MaxTurns

\* The input keeps its value until the first of two presses is handled.
PressEnter(c) ==
    /\ composer
    /\ posted = <<>> \/ (posted = <<c>> /\ c.word \in Hurried)
    /\ c = Message => Room
    /\ posted' = Append(posted, c)
    /\ UNCHANGED <<composer, attached, workers, blocks, stream, polling, wanted>>

Handle(word) == posted # <<>> /\ Head(posted).word = word /\ posted' = Tail(posted)

Sending(files) == [phase |-> "created", files |-> files, cancelled |-> FALSE, told |-> FALSE]

\* A worker that has not begun to run never does.
Cancelled(w) ==
    IF w.phase = "over" THEN w
    ELSE [w EXCEPT !.cancelled = TRUE, !.phase = IF @ = "created" THEN "over" ELSE @]

\* submit_message.
Submit ==
    /\ Handle("message")
    /\ workers' = Append([t \in Turns |-> Cancelled(workers[t])], Sending(attached))
    /\ blocks' = Append(blocks, [of |-> Len(workers) + 1, live |-> TRUE, text |-> "none"])
    /\ stream' = Len(blocks) + 1
    /\ attached' = <<>>
    /\ composer' = FALSE
    /\ UNCHANGED <<polling, wanted>>

\* Mutant of Queueable: the limit is not looked at.
QueueableAlways(f) == ~Contains(attached, f)

Queueable(f) == ~Contains(attached, f) /\ Len(attached) < MaxAttached

\* _queue_attachment.  A path that cannot be resolved is refused.
AttachFile ==
    /\ Handle("attach")
    /\ LET f == Head(posted).what IN
         \/ /\ Queueable(f)
            /\ attached' = Append(attached, f)
            /\ wanted' = wanted \cup {f}
         \/ UNCHANGED <<attached, wanted>>
    /\ UNCHANGED <<composer, workers, blocks, stream, polling>>

\* _remove_attachment.
DetachFile ==
    /\ Handle("detach")
    /\ LET i == Head(posted).what IN
         IF i \in DOMAIN attached
           THEN attached' = RemoveAt(attached, i) /\ wanted' = wanted \ {attached[i]}
           ELSE UNCHANGED <<attached, wanted>>
    /\ UNCHANGED <<composer, workers, blocks, stream, polling>>

\* _command_attachment_clear.
EmptyQueue ==
    /\ Handle("empty")
    /\ attached' = <<>>
    /\ wanted' = wanted \ Range(attached)
    /\ UNCHANGED <<composer, workers, blocks, stream, polling>>

\* Mutant of StreamCleared: what was being streamed goes on into a block that
\* is no longer shown.
StreamClearedNot == Len(blocks) + 1

StreamCleared == 0

\* action_clear_log: a key, also while the composer is disabled.
ClearLog ==
    /\ blocks # <<>>
    /\ blocks' = <<>>
    /\ stream' = IF stream = 0 THEN 0 ELSE StreamCleared
    /\ workers' = [t \in Turns |-> [workers[t] EXCEPT !.told = FALSE]]
    /\ UNCHANGED <<composer, posted, attached, polling, wanted>>

-----------------------------------------------------------------------------
(* The worker of a turn (_send); the session runs one turn or one tick at  *)
(* a time (_send_lock).                                                    *)

Running(t, phase) == workers[t].phase = phase /\ ~workers[t].cancelled

LockFree == polling # "ticking" /\ \A t \in Turns : workers[t].phase # "streaming"

BeginSend(t) ==
    /\ Running(t, "created")
    /\ workers' = [workers EXCEPT ![t].phase = "waiting"]
    /\ UNCHANGED <<composer, posted, attached, blocks, stream, polling, wanted>>

SendLocks(t) ==
    /\ Running(t, "waiting") /\ LockFree
    /\ workers' = [workers EXCEPT ![t].phase = "streaming"]
    /\ UNCHANGED <<composer, posted, attached, blocks, stream, polling, wanted>>

Draw(t, text, live) ==
    LET block == [of |-> t, live |-> live, text |-> text] IN
    IF stream = 0 THEN blocks' = Append(blocks, block)
    ELSE IF stream \in DOMAIN blocks
           THEN blocks' = [blocks EXCEPT ![stream].live = live, ![stream].text = text]
           ELSE UNCHANGED blocks

\* _handle_stream_event and StreamActivity.handle.
HandleStreamEvent(t) ==
    /\ Running(t, "streaming")
    /\ Draw(t, "part", TRUE)
    /\ stream' = IF stream = 0 THEN Len(blocks) + 1 ELSE stream
    /\ UNCHANGED <<composer, posted, attached, workers, polling, wanted>>

\* What the worker has lost, it has lost by being cancelled.
Over(t, told) ==
    /\ workers' = [workers EXCEPT ![t].phase = "over", ![t].told = told,
                                  ![t].files = IF workers[t].cancelled THEN @ ELSE <<>>]
    /\ composer' = TRUE
    /\ UNCHANGED <<posted, polling>>

\* _render_turn.
RenderTurn(t) ==
    /\ Running(t, "streaming")
    /\ Draw(t, "whole", FALSE)
    /\ stream' = 0
    /\ wanted' = wanted \ FilesOf(t)
    /\ Over(t, TRUE)
    /\ UNCHANGED attached

\* The members of s that are in S, in their order.
Chosen(s, S) ==
    LET places == {i \in DOMAIN s : s[i] \in S}
    IN  [n \in 1 .. Cardinality(places) |->
            s[CHOOSE i \in places : Cardinality({j \in places : j <= i}) = n]]

\* Mutant of Restored: what was sent is not queued again.
RestoredNot(t, existing) == attached

\* The files of a turn that failed, if they still exist.
Restored(t, existing) == attached \o Chosen(workers[t].files, existing \ Range(attached))

\* _session.send raises: a block that is live is finished.
SendRaises(t) ==
    /\ Running(t, "streaming")
    /\ blocks' = [i \in DOMAIN blocks |-> IF i = stream THEN [blocks[i] EXCEPT !.live = FALSE] ELSE blocks[i]]
    /\ stream' = 0
    /\ \E existing \in SUBSET FilesOf(t) :
          /\ attached' = Restored(t, existing)
          /\ wanted' = (wanted \ FilesOf(t)) \cup (wanted \cap (existing \cup Range(attached)))
    /\ Over(t, FALSE)

\* CancelledError is no Exception: only the finally clause runs.
Unwind(t) ==
    /\ workers[t].cancelled /\ workers[t].phase # "over"
    /\ Over(t, FALSE)
    /\ UNCHANGED <<attached, blocks, stream, wanted>>

-----------------------------------------------------------------------------
\* _schedule_lifecycle_poll, every two seconds, and _poll_lifecycle, of which
\* there is one at a time; one that waits for the lock shows nothing.
PollLocks ==
    /\ polling = "idle" /\ LockFree
    /\ polling' = "ticking"
    /\ UNCHANGED <<composer, posted, attached, workers, blocks, stream, wanted>>

PollEnds ==
    /\ polling = "ticking"
    /\ polling' = "idle"
    /\ UNCHANGED <<composer, posted, attached, workers, blocks, stream, wanted>>

TerminalNext ==
    \/ InitializeEnds
    \/ \E c \in Words \cup {Message} : PressEnter(c)
    \/ Submit \/ AttachFile \/ DetachFile \/ EmptyQueue \/ ClearLog
    \/ \E t \in Turns :
          \/ BeginSend(t) \/ SendLocks(t) \/ HandleStreamEvent(t)
          \/ RenderTurn(t) \/ SendRaises(t) \/ Unwind(t)
    \/ PollLocks \/ PollEnds

\* The steps of the worker that is not cancelled.
SendProceeds == \E t \in Turns : BeginSend(t) \/ RenderTurn(t) \/ SendRaises(t)
LockGranted == \E t \in Turns : SendLocks(t)
Unwinds == \E t \in Turns : Unwind(t)

-----------------------------------------------------------------------------
TerminalTypeOK ==
    /\ composer \in BOOLEAN
    /\ Len(posted) <= 2 /\ Range(posted) \subseteq Words \cup {Message}
    /\ Range(attached) \subseteq Files
    /\ Len(workers) <= MaxTurns
    /\ \A t \in Turns :
          /\ workers[t].phase \in {"created", "waiting", "streaming", "over"}
          /\ FilesOf(t) \subseteq Files
    /\ \A i \in DOMAIN blocks : blocks[i].of \in Turns /\ blocks[i].text \in {"none", "part", "whole"}
    /\ stream \in 0 .. Len(blocks)
    /\ polling \in {"off", "idle", "ticking"}
    /\ wanted \subseteq Files

\* A file that is attached stays queued or on its way until it is answered,
\* removed or gone, and a failed turn gives its files back once, within the
\* limit; only a turn that a second press of Enter cancelled loses what it took.
FilesAreKept ==
    /\ \A f \in wanted :
          \/ Contains(attached, f)
          \/ \E t \in Turns : f \in FilesOf(t)
    /\ \A i, j \in DOMAIN attached : attached[i] = attached[j] => i = j
    /\ Len(attached) <= MaxAttached \/ \E t \in Turns : workers[t].cancelled

\* Each answer is shown whole, once, until the view is cleared, and no block
\* stays live when its turn is over, whenever the view was cleared between the
\* events of a stream.
ViewIsSettled ==
    \A t \in Turns :
        LET own == {i \in DOMAIN blocks : blocks[i].of = t} IN
        /\ Cardinality(own) <= 1
        /\ workers[t].told => \E i \in own : blocks[i].text = "whole"
        /\ workers[t].phase = "over" => workers[t].cancelled \/ \A i \in own : ~blocks[i].live

\* The user can write again in the end.
ComposerReturns == ~composer ~> composer
=============================================================================
