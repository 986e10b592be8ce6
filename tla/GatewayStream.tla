----------------------------- MODULE GatewayStream -----------------------------
(***************************************************************************)
(* POST /api/send of interfaces/web_gateway.py: a turn (ToolLoop), the     *)
(* voice that speaks its reply while it is told, and the events the client *)
(* receives.                                                               *)
(*                                                                         *)
(* on_stream runs inside the steps of the turn; the voice task, the task   *)
(* of the turn and the client run beside each other.  A text is a sequence *)
(* of tokens; the tags are hidden from the client.                         *)
(***************************************************************************)
EXTENDS ToolLoop

CONSTANTS
    VoiceTags,  \* the tags that set a style
    Schedule,   \* the styles of the emotion plan
    MaxChars,   \* max_chars of SpeechSegmenter
    MinSoft,    \* min_soft_chars
    Modes       \* the kinds of client

\* "half" is the beginning of a tag.
PlainTokens == {"word", "stop", "pause", "half"}
Tags == {"face"} \cup VoiceTags
Tokens == PlainTokens \cup Tags

ASSUME StreamAssumption ==
    /\ Modes \subseteq {"plain", "face", "fish", "doubao"}
    /\ MaxChars \in Nat /\ MinSoft \in 1 .. MaxChars
    /\ VoiceTags \cap (PlainTokens \cup {"face", "none"}) = {}
    /\ Schedule \in Seq(STRING) \ {<<>>}
    /\ \A r \in Responses : r.text \in Seq(Tokens)
    /\ LimitReply \in Seq(PlainTokens \ {"half"}) \ {<<>>}

VARIABLES
    mode,       \* with face tags or a voice, or neither
    listener,   \* what on_stream keeps between two events
    queue,      \* every message to the client, in order
    tts,        \* where the voice task is
    pending,    \* the segment that opens the next session of the voice
    inputDone,
    session,    \* the number of sessions
    spoken,     \* what the voice was given
    served      \* where the task of the turn is

ttsVars == <<listener, queue, tts, pending, inputDone, session, spoken>>
streamVars == <<mode, served, ttsVars>>
vars == <<loopVars, streamVars>>

NoSegment == [style |-> "none", text |-> <<>>]
CloseMark == [style |-> "close", text |-> <<>>]

StreamInit ==
    /\ mode \in Modes
    /\ listener = [held |-> <<>>,        \* PresentationTagStripper: an incomplete tag
                   buffer |-> <<>>,      \* SpeechSegmenter: the text of the next segment
                   style |-> "none",
                   styles |-> <<>>,      \* the schedule
                   index |-> 0,          \* the segments so far
                   input |-> <<>>,       \* tts_input
                   closed |-> FALSE,
                   wanted |-> FALSE,     \* there is a voice task
                   out |-> <<>>]         \* what the event adds to the queue
    /\ queue = <<>>
    /\ tts = "none"
    /\ pending = NoSegment
    /\ inputDone = FALSE
    /\ session = 0
    /\ spoken = <<>>
    /\ served = "running"

Init == LoopInit /\ StreamInit

Voiced == mode \in {"fish", "doubao"}

-----------------------------------------------------------------------------
(* SpeechSegmenter.                                                        *)

\* _next_style: a tag prevails over the schedule.
NextStyle(l) ==
    IF l.style # "none" THEN l.style
    ELSE IF l.styles = <<>> THEN "none"
    ELSE l.styles[IF l.index < Len(l.styles) THEN l.index + 1 ELSE Len(l.styles)]

\* The first n tokens of the buffer are a segment.
CutAt(l, n) ==
    [l EXCEPT !.input = Append(@, [style |-> NextStyle(l), text |-> SubSeq(l.buffer, 1, n)]),
              !.index = @ + 1,
              !.wanted = TRUE,
              !.buffer = SubSeq(@, n + 1, Len(@))]

\* A full buffer is cut at the last soft break that leaves enough, if any.
SoftCut(b) ==
    LET breaks == {i \in MinSoft + 1 .. MaxChars : b[i] = "pause"}
    IN  IF breaks = {} THEN MaxChars ELSE CHOOSE i \in breaks : \A j \in breaks : j <= i

\* Mutant of FeedText: a buffer is cut at the end of a sentence only.
FeedTextStopsOnly(l, t) ==
    LET m == [l EXCEPT !.buffer = Append(@, t), !.wanted = TRUE]
    IN  IF t = "stop" THEN CutAt(m, Len(m.buffer)) ELSE m

FeedText(l, t) ==
    LET m == [l EXCEPT !.buffer = Append(@, t), !.wanted = TRUE]
    IN  IF t = "stop" THEN CutAt(m, Len(m.buffer))
        ELSE IF Len(m.buffer) = MaxChars THEN CutAt(m, SoftCut(m.buffer))
        ELSE m

FlushText(l) == IF l.buffer = <<>> THEN l ELSE CutAt(l, Len(l.buffer))

\* Mutant of SetStyle: the text before the tag is not flushed.
SetStyleLate(l, s) == [l EXCEPT !.style = s]

SetStyle(l, s) == IF s = l.style THEN l ELSE [FlushText(l) EXCEPT !.style = s]

\* A text and its tags (feed_tts): the style changes where the tag stood.
Feed(l, t) ==
    IF t \in VoiceTags THEN SetStyle(l, t) ELSE IF t = "face" THEN l ELSE FeedText(l, t)

FeedSpeech(l, tokens) == IF ~Voiced THEN l ELSE FoldLeft(Feed, l, tokens)

CloseInput(l) ==
    IF ~Voiced \/ l.closed THEN l
    ELSE [FlushText(l) EXCEPT !.input = Append(@, CloseMark), !.closed = TRUE]

-----------------------------------------------------------------------------
(* on_stream.                                                              *)

Strips == mode # "plain"

\* The text without its tags.
Clean(tokens) == FlattenSeq([i \in DOMAIN tokens |-> IF tokens[i] \in Tags THEN <<>> ELSE <<tokens[i]>>])

\* A tag that is not complete is held back until the text goes on or ends.
Held(tokens) == IF tokens # <<>> /\ Last(tokens) = "half" THEN <<"half">> ELSE <<>>

Show(l, text) == IF text = <<>> THEN l ELSE [l EXCEPT !.out = Append(@, Delta(text))]

TellDelta(l, text) ==
    IF ~Strips THEN Show(l, text)
    ELSE LET all == l.held \o text
             held == Held(all)
             body == SubSeq(all, 1, Len(all) - Len(held))
         IN  Show(FeedSpeech([l EXCEPT !.held = held], body), Clean(body))

TellDone(l) ==
    IF Strips
      THEN CloseInput(Show(FeedSpeech([l EXCEPT !.held = <<>>], l.held), l.held))
      ELSE l

Tell(l, event) ==
    CASE event.kind = "emotion_plan" ->
           [l EXCEPT !.styles = IF Voiced THEN Schedule ELSE @, !.out = Append(@, event)]
      [] event.kind = "assistant_delta" -> TellDelta(l, event.text)
      [] event.kind = "assistant_done" /\ ~event.calls ->
           [TellDone(l) EXCEPT !.out = Append(@, event)]
      [] OTHER -> [l EXCEPT !.out = Append(@, event)]

\* The events of a step of the turn.
OnStream(events) ==
    LET l == FoldLeft(Tell, listener, events)
    IN  /\ listener' = [l EXCEPT !.out = <<>>]
        /\ queue' = queue \o l.out

-----------------------------------------------------------------------------
(* The voice (run_tts).                                                    *)

Put(kinds) == queue' = queue \o [i \in 1 .. Len(kinds) |-> Told(kinds[i])]

TtsBegins ==
    /\ listener.wanted /\ tts = "none"
    /\ served \notin {"failing", "cancelling"}
    /\ tts' = "opening"
    /\ Put(<<"tts_started">>)
    /\ UNCHANGED <<listener, pending, inputDone, session, spoken>>

TakeInput == listener' = [listener EXCEPT !.input = Tail(@)]
NextInput == Head(listener.input)

\* The adapter is made; that of Doubao connects at once.
Opened ==
    /\ tts = "opening"
    /\ tts' = IF mode = "fish" THEN "collecting" ELSE "between"
    /\ UNCHANGED <<listener, queue, pending, inputDone, session, spoken>>

Speak(s, n) == spoken' = Append(spoken, [session |-> n, style |-> s.style, text |-> s.text])

\* Fish Audio is given the whole text at once.
Collect ==
    /\ tts = "collecting" /\ listener.input # <<>>
    /\ TakeInput
    /\ \/ /\ NextInput # CloseMark
          /\ Speak(NextInput, 1)
          /\ UNCHANGED <<tts, session>>
       \/ /\ NextInput = CloseMark
          /\ tts' = "speaking" /\ session' = 1
          /\ UNCHANGED spoken
    /\ UNCHANGED <<queue, pending, inputDone>>

\* Doubao has a session for each run of segments of one style.
StartSession ==
    /\ tts = "between" /\ ~inputDone
    /\ \/ /\ pending # NoSegment
          /\ Speak(pending, session + 1)
          /\ pending' = NoSegment /\ session' = session + 1 /\ tts' = "sending"
          /\ UNCHANGED <<listener, inputDone>>
       \/ /\ pending = NoSegment /\ listener.input # <<>>
          /\ TakeInput
          /\ \/ /\ NextInput # CloseMark
                /\ Speak(NextInput, session + 1)
                /\ session' = session + 1 /\ tts' = "sending"
                /\ UNCHANGED <<pending, inputDone>>
             \/ /\ NextInput = CloseMark
                /\ inputDone' = TRUE
                /\ UNCHANGED <<tts, pending, session, spoken>>
    /\ UNCHANGED queue

\* matching_segments: the sender takes what is of the style of the session.
SendNext ==
    /\ tts = "sending" /\ listener.input # <<>>
    /\ TakeInput
    /\ \/ /\ NextInput = CloseMark
          /\ inputDone' = TRUE /\ tts' = "speaking"
          /\ UNCHANGED <<pending, spoken>>
       \/ /\ NextInput # CloseMark /\ NextInput.style # spoken[Len(spoken)].style
          /\ pending' = NextInput /\ tts' = "speaking"
          /\ UNCHANGED <<inputDone, spoken>>
       \/ /\ NextInput # CloseMark /\ NextInput.style = spoken[Len(spoken)].style
          /\ Speak(NextInput, session)
          /\ UNCHANGED <<tts, pending, inputDone>>
    /\ UNCHANGED <<queue, session>>

\* The service has returned the audio of the session.
SessionSpoken ==
    /\ tts = "speaking" /\ mode = "doubao"
    /\ tts' = "between"
    /\ Put(<<"tts_audio">>)
    /\ UNCHANGED <<listener, pending, inputDone, session, spoken>>

\* That of the whole reply, perhaps after a second request because the first
\* was too long to be true; an empty text is an error (TtsFails).
ReplySpoken ==
    /\ tts = "speaking" /\ mode = "fish" /\ spoken # <<>>
    /\ tts' = "finished"
    /\ Put(<<"tts_audio", "tts_segment", "tts_finished">>)
    /\ UNCHANGED <<listener, pending, inputDone, session, spoken>>

TtsFinishes ==
    /\ tts = "between" /\ inputDone /\ pending = NoSegment
    /\ tts' = "finished"
    /\ Put(IF session > 0 THEN <<"tts_segment", "tts_finished">> ELSE <<"tts_finished">>)
    /\ UNCHANGED <<listener, pending, inputDone, session, spoken>>

\* No connection, no answer within a minute, no audio, an empty text.
TtsFails ==
    /\ tts \in {"opening", "sending", "speaking"}
    /\ tts' = "broken"
    /\ Put(<<"tts_error", "tts_finished">>)
    /\ UNCHANGED <<listener, pending, inputDone, session, spoken>>

TtsLive == tts \in {"collecting", "opening", "between", "sending", "speaking"}

\* The task is cancelled; one that has not begun never does.
TtsCancelled ==
    /\ served \in {"failing", "cancelling"}
    /\ listener.wanted
    /\ \/ /\ TtsLive
          /\ Put(<<"tts_finished">>)
       \/ /\ tts = "none"
          /\ UNCHANGED queue
    /\ tts' = "cancelled"
    /\ UNCHANGED <<listener, pending, inputDone, session, spoken>>

TtsOver == ~listener.wanted \/ tts \in {"finished", "broken", "cancelled"}

TtsStep ==
    \/ TtsBegins \/ Collect \/ Opened \/ StartSession \/ SendNext
    \/ SessionSpoken \/ ReplySpoken
    \/ TtsFinishes \/ TtsFails \/ TtsCancelled

-----------------------------------------------------------------------------
(* run_turn and event_stream.                                              *)

\* Mutant of Returned: the input of the voice is left open.
ReturnedOpen ==
    /\ phase = "answered" /\ served = "running"
    /\ served' \in {"speaking", "failing"}
    /\ UNCHANGED ttsVars

\* What send does with a reply may still fail; when it returns the text of the
\* voice is complete.
Returned ==
    /\ phase = "answered" /\ served = "running"
    /\ \/ /\ served' = "speaking"
          /\ listener' = CloseInput(listener)
       \/ /\ served' = "failing"
          /\ UNCHANGED listener
    /\ UNCHANGED <<queue, tts, pending, inputDone, session, spoken>>

Raised ==
    /\ phase = "failed" /\ served = "running"
    /\ served' = "failing"
    /\ UNCHANGED <<listener, queue, tts, pending, inputDone, session, spoken>>

Settle(from, to, messages) ==
    /\ served = from /\ TtsOver
    /\ served' = to
    /\ Put(messages)
    /\ UNCHANGED <<listener, tts, pending, inputDone, session, spoken>>

\* The client is gone: the turn and its voice are cancelled where they wait.
Disconnected ==
    /\ served \in {"running", "speaking"}
    /\ served = "running" => Waiting \/ phase = "answered"
    /\ served' = "cancelling"
    /\ IF Waiting THEN Cancel ELSE UNCHANGED loopVars
    /\ UNCHANGED <<listener, queue, tts, pending, inputDone, session, spoken>>

ServeStep ==
    \/ Returned \/ Raised
    \/ Settle("speaking", "result", <<"result">>)
    \/ Settle("failing", "error", <<"error">>)
    \/ Settle("cancelling", "cancelled", <<>>)

TurnStep ==
    /\ served = "running"
    /\ LoopStep /\ OnStream(heard')
    /\ UNCHANGED <<tts, pending, inputDone, session, spoken, served>>

Ended == served \in {"result", "error", "cancelled"}

Next ==
    /\ UNCHANGED mode
    /\ \/ TurnStep
       \/ TtsStep /\ UNCHANGED <<loopVars, served>>
       \/ ServeStep /\ UNCHANGED loopVars
       \/ Disconnected
       \/ Ended /\ UNCHANGED vars

-----------------------------------------------------------------------------
StreamTypeOK ==
    /\ LoopTypeOK
    /\ mode \in Modes
    /\ listener.buffer \in Seq(Tokens) /\ Len(listener.buffer) < MaxChars
    /\ \A i \in DOMAIN listener.input :
          listener.input[i].text \in Seq(Tokens) /\ Len(listener.input[i].text) <= MaxChars
    /\ listener.out = <<>>
    /\ tts \in {"none", "opening", "collecting", "between", "sending", "speaking",
               "finished", "broken", "cancelled"}
    /\ session \in 0 .. Len(spoken)
    /\ served \in {"running", "speaking", "failing", "cancelling", "result", "error", "cancelled"}

Positions(kinds) == {i \in DOMAIN queue : queue[i].kind \in kinds}
AllBefore(S, T) == \A i \in S, j \in T : i < j

\* What the client receives: nothing after the result or the error that ends
\* the stream; a voice that started has finished before that, and what it sent
\* lies in between; a round is told between its start and its end.
StreamIsOrderly ==
    /\ LET ends == Positions({"result", "error"})
       IN  ends \subseteq {Len(queue)}
    /\ LET starts == Positions({"tts_started"})
           ends == Positions({"tts_finished"})
           others == Positions({"tts_audio", "tts_segment", "tts_error"})
       IN  /\ Cardinality(starts) <= 1 /\ Cardinality(ends) <= Cardinality(starts)
           /\ AllBefore(starts, others \cup ends) /\ AllBefore(others, ends)
           /\ Ended => Cardinality(ends) = Cardinality(starts)
    /\ \A i \in Positions({"assistant_delta"}) :
          \E j \in Positions({"assistant_start"}) : j < i

Texts(segments) == FlattenSeq([i \in DOMAIN segments |-> segments[i].text])

\* The text the client was shown.
TextOf(message) == IF message.kind = "assistant_delta" THEN message.text ELSE <<>>

Shown == FlattenSeq([i \in DOMAIN queue |-> TextOf(queue[i])])

Unspoken ==
    (IF pending = NoSegment THEN <<>> ELSE pending.text) \o Texts(listener.input) \o listener.buffer

\* The style of token i of a text: the last tag before it, if there is one.
TagAt(text, i) ==
    LET tags == {j \in 1 .. i : text[j] \in VoiceTags}
    IN  IF tags = {} THEN "none" ELSE text[CHOOSE j \in tags : \A k \in tags : k <= j]

\* The styles the tags give to the text that is shown, token by token.
TagsOf(text) ==
    FlattenSeq([i \in DOMAIN text |-> IF text[i] \in Tags THEN <<>> ELSE <<TagAt(text, i)>>])

StyleOf(segments) ==
    FlattenSeq([i \in DOMAIN segments |-> [j \in DOMAIN segments[i].text |-> segments[i].style]])

\* The voice speaks what the client is shown, in order, all of it when it ends
\* without an error in a turn that has a result, and each part of it in the
\* style of the tag before it.
SpeechFollowsText ==
    Voiced =>
      /\ Texts(spoken) \o Unspoken = Shown
      /\ served = "result" /\ tts = "finished" => Unspoken = <<>>
      /\ phase = "answered" =>
           LET tags == TagsOf(response.text)
               styles == StyleOf(spoken)
           IN  \A i \in DOMAIN styles :
                 IF tags[i] = "none" THEN styles[i] \in ToSet(Schedule) ELSE styles[i] = tags[i]
      /\ \A i, j \in DOMAIN spoken :
           spoken[i].session = spoken[j].session /\ mode = "doubao" => spoken[i].style = spoken[j].style

\* A client that has a result was shown the reply, and nothing but the reply,
\* unless the model spoke while it asked for a tool after the last round.
ReplyIsShown ==
    /\ served = "result" =>
         Shown = (IF Strips THEN Clean(response.text) ELSE response.text)
           \/ (response.calls # <<>> /\ Shown = <<>>)
    /\ Cardinality(Positions({"assistant_delta"})) <= 2

=============================================================================
