------------------------------ MODULE ToolChunks ------------------------------
(***************************************************************************)
(* The tool calls of a streamed response (LiteLLMAdapter._invoke_stream):  *)
(* the provider sends each call in pieces, those of one call between those *)
(* of another, and the adapter puts them together.  An identifier is a     *)
(* sequence of letters.                                                    *)
(***************************************************************************)
EXTENDS Integers, Sequences, SequencesExt

CONSTANTS
    Identifiers,   \* of the calls and of the tools
    CallCount      \* the calls of the response

ASSUME ChunksAssumption ==
    /\ CallCount \in Nat
    /\ \A s \in Identifiers : s \in Seq(ToSet(s)) /\ s # <<>>

VARIABLES
    sent,       \* sent[i]: the identifier and the name of call i, as they are sent
    arrived,    \* the pieces of call i that have arrived
    fragments,  \* tool_fragments
    streamed    \* "open", or how the stream has ended

chunkVars == <<sent, arrived, fragments, streamed>>

\* A provider may send an identifier once, repeat it, or cut it in two.
Ways(s) == {<<s, <<>>>>, <<s, s>>} \cup {<<SubSeq(s, 1, k), SubSeq(s, k + 1, Len(s))>> : k \in 1 .. Len(s) - 1}

\* An identifier and the pieces it is sent in.  That of a call may be missing.
Sendings == UNION {{[whole |-> s, pieces |-> w] : w \in Ways(s)} : s \in Identifiers}
Missing == [whole |-> <<>>, pieces |-> <<<<>>, <<>>>>]

NoFragment == [id |-> <<>>, name |-> <<>>, arguments |-> <<>>]

ChunksInit ==
    /\ sent \in [1 .. CallCount -> [id : Sendings \cup {Missing}, name : Sendings]]
    /\ arrived = [i \in 1 .. CallCount |-> 0]
    /\ fragments = [i \in 1 .. CallCount |-> NoFragment]
    /\ streamed = "open"

\* _merge_stream_identifier
Merged(current, delta) ==
    IF delta = <<>> THEN current
    ELSE IF current = <<>> THEN delta
    ELSE IF IsSuffix(delta, current) THEN current
    ELSE current \o delta

\* The next piece of call i; its arguments are always appended.
Chunk(i) ==
    /\ streamed = "open" /\ arrived[i] < 2
    /\ LET n == arrived[i] + 1 IN
       /\ arrived' = [arrived EXCEPT ![i] = n]
       /\ fragments' = [fragments EXCEPT ![i] =
              [id |-> Merged(@.id, sent[i].id.pieces[n]),
               name |-> Merged(@.name, sent[i].name.pieces[n]),
               arguments |-> Append(@.arguments, <<i, n>>)]]
    /\ UNCHANGED <<sent, streamed>>

\* The stream ends and its calls are parsed, or it breaks and there are none.
StreamEnds ==
    /\ streamed = "open"
    /\ streamed' \in {"parsed", "broken"}
    /\ streamed' = "parsed" => \A i \in 1 .. CallCount : arrived[i] = 2
    /\ UNCHANGED <<sent, arrived, fragments>>

ChunksNext ==
    \/ \E i \in 1 .. CallCount : Chunk(i)
    \/ StreamEnds
    \/ streamed # "open" /\ UNCHANGED chunkVars

-----------------------------------------------------------------------------
ChunksTypeOK ==
    /\ arrived \in [1 .. CallCount -> 0 .. 2]
    /\ streamed \in {"open", "parsed", "broken"}

\* The identifier was cut, and its rest looks like a repetition.
Ambiguous(s) == s.pieces[1] # s.whole /\ IsSuffix(s.pieces[2], s.pieces[1])

\* A response that is parsed has the calls the provider sent, with their
\* arguments in order and none of another call's, however their pieces were
\* mixed; a name or an identifier is whole however it was sent, unless it was
\* cut where its rest repeats the end of its beginning.
CallsAreWhole ==
    streamed = "parsed" =>
      \A i \in 1 .. CallCount :
         /\ fragments[i].id = sent[i].id.whole \/ Ambiguous(sent[i].id)
         /\ fragments[i].name = sent[i].name.whole \/ Ambiguous(sent[i].name)
         /\ fragments[i].arguments = <<<<i, 1>>, <<i, 2>>>>
=============================================================================
