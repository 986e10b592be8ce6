------------------------------- MODULE ToolLoop -------------------------------
(***************************************************************************)
(* The answer to one message (runtime/interactive.py, from the first tool  *)
(* call of send to the reply): rounds of a model that may call tools, the  *)
(* tools, and the audit of what they did.                                  *)
(*                                                                         *)
(* The turn is cancelled only where it waits, for the model or for a       *)
(* command.  heard is what the step told the listener (on_stream).         *)
(***************************************************************************)
EXTENDS Integers, Sequences, FiniteSets, SequencesExt

CONSTANTS
    Calls,             \* fingerprints of tool calls
    Commands,          \* those that start a process
    Responses,         \* what the model may answer
    LimitReply,        \* the text said when the rounds are used up
    MaxRounds,         \* tools.max_rounds
    MaxContinuations,  \* _MAX_TRUNCATION_CONTINUATIONS
    MaxRewrites        \* the range of the rewrite loop

ASSUME LoopAssumption ==
    /\ Commands \subseteq Calls
    /\ MaxRounds \in Nat \ {0}
    /\ MaxContinuations \in Nat /\ MaxRewrites \in Nat
    /\ \A r \in Responses :
          /\ r = [calls |-> r.calls, text |-> r.text, cut |-> r.cut, voice |-> r.voice]
          /\ r.calls \in Seq(Calls)
          \* no breach of the contract, or what _enforce_relationship_contract
          \* makes of it: a reply that keeps it, one that does not, nothing
          /\ r.voice \in {"kept", "mended", "broken", "hollow"}
          /\ r.cut \in BOOLEAN

VARIABLES
    phase,     \* where the turn is
    round,     \* round_index; 0 is the forced call
    ask,       \* the request that is out: its kind, and the requests of that
               \* kind before it
    response,  \* the response so far
    todo,      \* the calls of the round that are left
    kept,      \* successful_calls
    runs,      \* every execution, in order
    heard

loopVars == <<phase, round, ask, response, todo, kept, runs, heard>>

NoResponse == [calls |-> <<>>, text |-> <<>>, cut |-> FALSE, voice |-> "kept"]
Asking(kind, n) == [kind |-> kind, n |-> n]

LoopInit ==
    /\ phase = "received"
    /\ round = 0
    /\ ask = Asking("native", 0)
    /\ response = NoResponse
    /\ todo = <<>>
    /\ kept = {}
    /\ runs = <<>>
    /\ heard = <<>>

-----------------------------------------------------------------------------
Told(kind) == [kind |-> kind]
Started == Told("assistant_start")
Delta(text) == [kind |-> "assistant_delta", text |-> text]
Done(calls) == [kind |-> "assistant_done", calls |-> calls]
ToolBegins == <<Told("tool_requested"), Told("tool_started")>>
ToolEnds == <<Told("tool_output"), Told("tool_finished")>>

\* The next round: assistant_start, and the first request.
NextRound(told) ==
    /\ round' = round + 1
    /\ phase' = "asking"
    /\ ask' = Asking("native", 0)
    /\ heard' = Append(told, Started)

Continue(rest, told) ==
    /\ todo' = rest
    /\ \/ /\ rest = <<>>
          /\ NextRound(told)
       \/ /\ rest # <<>>
          /\ phase' = "calling"
          /\ heard' = told
          /\ UNCHANGED <<round, ask>>

Fail ==
    /\ phase' = "failed"
    /\ heard' = <<>>
    /\ UNCHANGED <<round, ask, response, todo, kept>>

\* send: the emotion is planned; a message that names a tool calls it at once.
Begin ==
    /\ phase = "received"
    /\ UNCHANGED <<response, kept, runs>>
    /\ \/ /\ todo' = <<>>
          /\ NextRound(<<Told("emotion_plan")>>)
       \/ /\ \E c \in Calls : todo' = <<c>>
          /\ phase' = "calling"
          /\ heard' = <<Told("emotion_plan")>>
          /\ UNCHANGED <<round, ask>>

-----------------------------------------------------------------------------
(* The requests of a round (_complete_once).                               *)

Visible(r) == r.calls # <<>> \/ r.text # <<>>

\* The response is complete: a limit on the rounds, calls, or the reply.
Conclude(r) ==
    IF r.calls # <<>>
      THEN /\ heard' = <<Done(TRUE)>>
                          \o (IF round > MaxRounds /\ r.text = <<>> THEN <<Delta(LimitReply)>> ELSE <<>>)
           /\ phase' = IF round > MaxRounds THEN "answered" ELSE "calling"
           /\ response' = [r EXCEPT !.text = IF round > MaxRounds /\ @ = <<>> THEN LimitReply ELSE @]
           /\ todo' = IF round > MaxRounds THEN <<>> ELSE r.calls
           /\ UNCHANGED ask
      ELSE /\ heard' = (IF Visible(r) THEN <<Delta(r.text)>> ELSE <<>>) \o <<Done(FALSE)>>
           /\ phase' = IF Visible(r) THEN "answered" ELSE "failed"
           /\ response' = r
           /\ UNCHANGED <<ask, todo>>

AskAgain(r, kind, n) ==
    /\ response' = r
    /\ ask' = Asking(kind, n)
    /\ heard' = <<>>
    /\ UNCHANGED <<phase, todo>>

\* A reply that breaks the voice contract is rewritten, and what is left of the
\* breach is mended; one that cannot be mended, or of which nothing is left, is
\* an error.
CheckVoice(r, n) ==
    IF r.calls # <<>> \/ ~Visible(r) \/ r.voice = "kept"
      THEN Conclude(r)
      ELSE IF r.voice \in {"mended", "broken"} /\ n < MaxRewrites
             THEN AskAgain(r, "rewrite", n)
             ELSE IF r.voice = "mended"
                    THEN Conclude([r EXCEPT !.voice = "kept"])
                    ELSE /\ phase' = "failed"
                         /\ response' = r
                         /\ heard' = <<>>
                         /\ UNCHANGED <<ask, todo>>

CheckLength(r, n) ==
    IF r.cut /\ n < MaxContinuations THEN AskAgain(r, "continue", n) ELSE CheckVoice(r, 0)

\* The calls of a response that was cut are those of its continuation.
Merge(r, more) == [more EXCEPT !.text = r.text \o @]

\* No tools are offered in a request of these kinds.
WithoutTools == {"again", "continue", "rewrite"}

\* What may come back: without tools there are no calls, and a text carries at
\* most one (_restore_text_tool_call).
Offered(r) ==
    CASE ask.kind \in WithoutTools -> r.calls = <<>>
      [] ask.kind = "text" -> r.calls = <<>> \/ (Len(r.calls) = 1 /\ r.text = <<>>)
      [] OTHER -> TRUE

Answer(r) ==
    /\ phase = "asking" /\ Offered(r)
    /\ UNCHANGED <<round, kept, runs>>
    /\ CASE ask.kind \in {"native", "text"} ->
              IF Visible(r) THEN CheckLength(r, 0) ELSE AskAgain(r, "again", 0)
         [] ask.kind = "again" -> CheckLength(r, 0)
         [] ask.kind = "continue" ->
              IF Visible(r) THEN CheckLength(Merge(response, r), ask.n + 1) ELSE CheckVoice(response, 0)
         [] ask.kind = "rewrite" ->
              IF Visible(r) THEN CheckVoice(r, ask.n + 1) ELSE CheckVoice(response, MaxRewrites)

\* The provider rejects the tools: they are offered again as text.
ToolsRejected ==
    /\ phase = "asking" /\ ask.kind = "native"
    /\ ask' = Asking("text", 0)
    /\ heard' = <<>>
    /\ UNCHANGED <<phase, round, response, todo, kept, runs>>

\* A timeout, a rejected key, an invalid answer.
ProviderFails == phase = "asking" /\ Fail /\ UNCHANGED runs

-----------------------------------------------------------------------------
(* The tools (_execute_tool_call, ToolKernel.execute).                     *)

Run(c, ok, audited) == [call |-> c, ok |-> ok, audited |-> audited, forced |-> round = 0]

\* A call that has succeeded is answered with what it returned then.
Remembered(c) == c \in kept

\* Mutant of Remember: what the first round did is not remembered.
RememberNextRound(c, ok) == kept' = IF ok /\ round > 1 THEN kept \cup {c} ELSE kept

Remember(c, ok) == kept' = IF ok /\ round > 0 THEN kept \cup {c} ELSE kept

Repeat ==
    /\ phase = "calling"
    /\ Remembered(Head(todo))
    /\ Continue(Tail(todo), ToolBegins \o ToolEnds)
    /\ UNCHANGED <<response, kept, runs>>

\* The result of a call is audited, or the audit raises and so does send.
Return(others, c, ok, told) ==
    \/ /\ runs' = Append(others, Run(c, ok, TRUE))
       /\ Remember(c, ok)
       /\ Continue(Tail(todo), told)
       /\ UNCHANGED response
    \/ /\ runs' = Append(others, Run(c, ok, FALSE))
       /\ Fail

\* A handler that runs to its end at once.  It fails for an unknown tool,
\* rejected arguments and an exception: before, or after, its effect.
CallHandler ==
    /\ phase = "calling"
    /\ ~Remembered(Head(todo)) /\ Head(todo) \notin Commands
    /\ \E ok \in BOOLEAN : Return(runs, Head(todo), ok, ToolBegins \o ToolEnds)

StartCommand ==
    /\ phase = "calling"
    /\ ~Remembered(Head(todo)) /\ Head(todo) \in Commands
    /\ runs' = Append(runs, Run(Head(todo), FALSE, FALSE))
    /\ phase' = "executing"
    /\ heard' = ToolBegins
    /\ UNCHANGED <<round, ask, response, todo, kept>>

\* The process ends, or is killed when its time is over.
CommandEnds ==
    /\ phase = "executing"
    /\ \E ok \in BOOLEAN : Return(Front(runs), Head(todo), ok, ToolEnds)

\* Nothing kills the process of a turn that is cancelled.
Cancel ==
    /\ phase' = "cancelled"
    /\ heard' = <<>>
    /\ UNCHANGED <<round, ask, response, todo, kept, runs>>

\* Where send waits: for the turn before it, the model, or a command.
Waiting == phase \in {"received", "asking", "executing"}

LoopStep ==
    \/ Begin
    \/ \E r \in Responses : Answer(r)
    \/ ToolsRejected \/ ProviderFails
    \/ Repeat \/ CallHandler \/ StartCommand \/ CommandEnds

-----------------------------------------------------------------------------
LoopTypeOK ==
    /\ phase \in {"received", "asking", "calling", "executing", "answered", "failed", "cancelled"}
    /\ round \in 0 .. MaxRounds + 1
    /\ ask.kind \in {"native", "text"} \cup WithoutTools
    /\ ask.n \in 0 .. (MaxContinuations + MaxRewrites)
    /\ todo \in Seq(Calls)
    /\ kept \subseteq Calls
    /\ \A i \in DOMAIN runs : runs[i].call \in Calls

\* No effect of a tool goes unrecorded by a turn that has an answer, and none
\* is had again after it was reported: a call is made again only when it had
\* failed, or when it was forced by the message.
ToolsAreAccounted ==
    /\ \A i \in DOMAIN runs :
          runs[i].audited \/ phase \in {"failed", "cancelled"} \/ (i = Len(runs) /\ phase = "executing")
    /\ \A i, j \in DOMAIN runs :
          i < j /\ runs[i].call = runs[j].call => ~runs[i].ok \/ runs[i].forced

\* An answer that is given keeps the voice contract, unless the rounds were used up.
AnswerKeepsVoice ==
    phase = "answered" => response.voice = "kept" \/ response.calls # <<>>
=============================================================================
