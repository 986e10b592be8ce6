-------------------------------- MODULE SqlScript --------------------------------
(***************************************************************************)
(* How a migration file is taken apart (_split_sql_statements and          *)
(* _find_comment_start in storage/database.py), and what SQL says of it.   *)
(* A character is a quote, a semicolon, a dash or any other.  Line breaks  *)
(* are left out of the statements on both sides: the code puts one after   *)
(* each line of a statement but none after a line that ends in a string.   *)
(***************************************************************************)
EXTENDS Naturals, Sequences, FiniteSets, FiniteSetsExt, SequencesExt

CONSTANT Scripts   \* the files: sequences of lines

Quote == "quote"
Semicolon == "semicolon"
Dash == "dash"
Break == "break"
Characters == {Quote, Semicolon, Dash, "other"}

ASSUME ScriptAssumption == \A lines \in Scripts : lines \in Seq(Seq(Characters))

VARIABLE script

\* The quotes among the first i characters.
Quotes(line, i) == Cardinality({j \in 1 .. i : line[j] = Quote})

\* _find_comment_start: two dashes after an even number of quotes.  0 if none.
CommentStart(line) ==
    LET starts == {i \in 1 .. Len(line) - 1 :
                     /\ line[i] = Dash /\ line[i + 1] = Dash
                     /\ Quotes(line, i - 1) % 2 = 0}
    IN  IF starts = {} THEN 0 ELSE Min(starts)

Fresh == [done |-> <<>>, current |-> <<>>, inString |-> FALSE]

EndStatement(m) ==
    [m EXCEPT !.done = IF m.current = <<>> THEN @ ELSE Append(@, m.current),
              !.current = <<>>]

\* Two quotes in a string leave it and enter it again.
Take(m, c) ==
    LET n == [m EXCEPT !.current = Append(@, c), !.inString = IF c = Quote THEN ~@ ELSE @]
    IN  IF c = Semicolon /\ ~n.inString THEN EndStatement(n) ELSE n

\* The part of a line that is looked at.
CodeOf(m, line) ==
    LET comment == IF m.inString THEN 0 ELSE CommentStart(line)
    IN  IF comment > 0 THEN SubSeq(line, 1, comment - 1) ELSE line

TakeLine(m, line) == FoldLeft(Take, m, CodeOf(m, line))

Split(lines) == EndStatement(FoldLeft(TakeLine, Fresh, lines)).done

-----------------------------------------------------------------------------
(* SQL: a comment ends with its line, a string may go over several.        *)

FreshReader == [mode |-> "code", done |-> <<>>, current |-> <<>>]

ReadString(m, c) ==
    [m EXCEPT !.current = Append(@, c), !.mode = IF c = Quote THEN "code" ELSE @]

\* The second of two dashes takes back the first.
ReadCode(m, c) ==
    IF c = Dash /\ m.mode = "dash" THEN [m EXCEPT !.current = Front(@), !.mode = "remark"]
    ELSE IF c = Semicolon
      THEN [m EXCEPT !.done = Append(@, Append(m.current, c)), !.current = <<>>, !.mode = "code"]
    ELSE [m EXCEPT !.current = Append(@, c),
                   !.mode = IF c = Quote THEN "string" ELSE IF c = Dash THEN "dash" ELSE "code"]

Read(m, c) ==
    IF c = Break THEN [m EXCEPT !.mode = IF @ = "string" THEN @ ELSE "code"]
    ELSE IF m.mode = "remark" THEN m
    ELSE IF m.mode = "string" THEN ReadString(m, c)
    ELSE ReadCode(m, c)

ReadLine(m, line) == FoldLeft(Read, m, Append(line, Break))

Statements(lines) ==
    LET m == FoldLeft(ReadLine, FreshReader, lines)
    IN  IF m.current = <<>> THEN m.done ELSE Append(m.done, m.current)

TwoDashes(line) == \E j \in 1 .. Len(line) - 1 : line[j] = Dash /\ line[j + 1] = Dash

\* A line begins inside a string and has two dashes.
DashesAfterString(lines) ==
    \E i \in DOMAIN lines :
        TwoDashes(lines[i]) /\ FoldLeft(TakeLine, Fresh, SubSeq(lines, 1, i - 1)).inString

ScriptInit == script \in Scripts
ScriptNext == UNCHANGED script

\* A file is taken apart into its statements, without its comments, unless a
\* string goes on over the end of a line and two dashes follow it there.
SplitIsRight == DashesAfterString(script) \/ Split(script) = Statements(script)
=============================================================================
