------------------------------- MODULE SkillShelf -------------------------------
(***************************************************************************)
(* The library of uploaded skills (skill_library.py) behind the gateway: a *)
(* directory for each skill and one file, library.json, that says which    *)
(* are switched on.  One process writes it, a request at a time; a request *)
(* may fail, and the process may stop, between two of its writes and       *)
(* between the last of them and the answer.                                *)
(***************************************************************************)
EXTENDS Naturals, FiniteSets, Sequences, Functions

CONSTANTS
    Skills,
    Archives   \* the files of an upload that belong in a skill, in the order they are
               \* unpacked: "main" is SKILL.md.  Entries beside it or outside the
               \* allowed directories are left out before.

ASSUME ShelfAssumption == \A a \in Archives : a \in Seq(Range(a))

VARIABLES
    dirs,        \* of each directory, the files in it and those to be unpacked
    switches,    \* library.json
    handling,    \* the request the gateway serves, and what the client wants of the skill
    standing,    \* what the client last heard of a skill and still may rely on
    unfinished,  \* directories an installation or a removal has not finished
    misread      \* skills switched off whose entry was lost to a failed read

shelfVars == <<dirs, switches, handling, standing, unfinished, misread>>

AtRest == [op |-> "none"]

ShelfInit ==
    /\ dirs = <<>> /\ switches = <<>>
    /\ handling = AtRest
    /\ standing = [s \in Skills |-> "nothing"]
    /\ unfinished = {} /\ misread = {}

Without(f, s) == Restrict(f, DOMAIN f \ {s})
With(f, s, v) == [x \in DOMAIN f \cup {s} |-> IF x = s THEN v ELSE f[x]]

\* _load_directory succeeds
Loadable(s) == s \in DOMAIN dirs /\ "main" \in dirs[s].have

\* list: a skill without an entry is on.
Available(s) == Loadable(s) /\ (s \in DOMAIN switches => switches[s])

\* _load_state: a file that cannot be read counts as an empty one.
Readings == {switches, <<>>}

\* _save_state: the file is replaced as a whole, with what was read and the
\* entry of one skill.
SaveState(old, new, s) ==
    /\ switches' = new
    /\ misread' = (misread \cup {x \in DOMAIN switches \ DOMAIN old : ~ switches[x]}) \ {s}

-----------------------------------------------------------------------------
\* install: the name is free and a directory is made for it.  A markdown file
\* is written as it is, an archive is unpacked first.
Install(s, archive) ==
    /\ handling = AtRest
    /\ s \notin DOMAIN dirs
    /\ dirs' = With(dirs, s, [have |-> {}, want |-> Range(archive) \cup {"main"}])
    /\ handling' = [op |-> "unpack", skill |-> s, wish |-> "on",
                    left |-> archive, zip |-> archive # <<>>]
    /\ UNCHANGED <<switches, standing, unfinished, misread>>

Unpack ==
    /\ handling.op = "unpack" /\ handling.left # <<>>
    /\ dirs' = [dirs EXCEPT ![handling.skill].have = @ \cup {Head(handling.left)}]
    /\ handling' = [handling EXCEPT !.left = Tail(@)]
    /\ UNCHANGED <<switches, standing, unfinished, misread>>

WriteMain ==
    /\ handling.op = "unpack" /\ handling.left = <<>>
    /\ dirs' = [dirs EXCEPT ![handling.skill].have = @ \cup {"main"}]
    /\ handling' = [op |-> "record", skill |-> handling.skill, wish |-> "on"]
    /\ UNCHANGED <<switches, standing, unfinished, misread>>

\* What the request was for is on disk; the client has yet to hear of it.
Saved == handling' = [handling EXCEPT !.op = "answer"] /\ UNCHANGED <<dirs, standing, unfinished>>

\* Mutant of RecordInstall: an entry that is there is left as it is.
RecordInstallKeepsEntry ==
    /\ handling.op = "record"
    /\ \E old \in Readings :
          SaveState(old, IF handling.skill \in DOMAIN old THEN old ELSE With(old, handling.skill, TRUE),
                    handling.skill)
    /\ Saved

\* _record_install
RecordInstall ==
    /\ handling.op = "record"
    /\ \E old \in Readings : SaveState(old, With(old, handling.skill, TRUE), handling.skill)
    /\ Saved

\* set_enabled: get, then the entry.  The directory is read once more for the
\* answer.
SetEnabled(s, enabled) ==
    /\ handling = AtRest
    /\ Loadable(s)
    /\ handling' = [op |-> "switch", skill |-> s, wish |-> IF enabled THEN "on" ELSE "off"]
    /\ UNCHANGED <<dirs, switches, standing, unfinished, misread>>

SaveSwitch ==
    /\ handling.op = "switch"
    /\ \E old \in Readings :
          SaveState(old, With(old, handling.skill, handling.wish = "on"), handling.skill)
    /\ Saved

\* remove: rmtree, then the entry.
RemoveSkill(s) ==
    /\ handling = AtRest
    /\ Loadable(s)
    /\ handling' = [op |-> "rmtree", skill |-> s, wish |-> "gone"]
    /\ UNCHANGED <<dirs, switches, standing, unfinished, misread>>

DeleteFile ==
    /\ handling.op = "rmtree"
    /\ \E f \in dirs[handling.skill].have :
          dirs' = [dirs EXCEPT ![handling.skill].have = @ \ {f}]
    /\ UNCHANGED <<switches, handling, standing, unfinished, misread>>

DeleteDirectory ==
    /\ handling.op = "rmtree" /\ dirs[handling.skill].have = {}
    /\ dirs' = Without(dirs, handling.skill)
    /\ unfinished' = unfinished \ {handling.skill}
    /\ handling' = [handling EXCEPT !.op = "forget"]
    /\ UNCHANGED <<switches, standing, misread>>

Forget ==
    /\ handling.op = "forget"
    /\ \E old \in Readings : SaveState(old, Without(old, handling.skill), handling.skill)
    /\ Saved

-----------------------------------------------------------------------------
TellClient ==
    /\ handling.op = "answer"
    /\ standing' = [standing EXCEPT ![handling.skill] = handling.wish]
    /\ handling' = AtRest
    /\ UNCHANGED <<dirs, switches, unfinished, misread>>

\* Of a request that is not answered the client does not know how far it came.
\* What it was told before still holds if the request could not undo it: a
\* skill that is off stays off if it was to be switched off or removed.
Unanswered(s) ==
    standing' = [standing EXCEPT ![s] =
        IF (@ = "on" /\ handling.wish = "on") \/ (@ = "off" /\ handling.wish # "on") THEN @
        ELSE "nothing"]

CutShort(s) ==
    unfinished' = IF handling.op \in {"unpack", "rmtree"} THEN unfinished \cup {s} ELSE unfinished

\* The request fails, or the process stops, or the answer is lost, and what was
\* written stays.
RequestStops ==
    /\ handling # AtRest
    /\ Unanswered(handling.skill) /\ CutShort(handling.skill)
    /\ handling' = AtRest
    /\ UNCHANGED <<dirs, switches, misread>>

\* _install_zip removes what it has unpacked when it fails,
UndoUnpack ==
    /\ handling.op = "unpack" /\ handling.zip
    /\ dirs' = Without(dirs, handling.skill)
    /\ handling' = AtRest
    /\ UNCHANGED <<switches, standing, unfinished, misread>>

\* but ignores the errors of that: some of it may stay.
UndoInPart ==
    /\ handling.op = "unpack" /\ handling.zip
    /\ \E kept \in SUBSET dirs[handling.skill].have :
          dirs' = [dirs EXCEPT ![handling.skill].have = kept]
    /\ Unanswered(handling.skill) /\ CutShort(handling.skill)
    /\ handling' = AtRest
    /\ UNCHANGED <<switches, misread>>

\* What is not a skill, or has a name that is taken; a skill that is not there.
Refuse == handling = AtRest /\ UNCHANGED shelfVars

ShelfNext ==
    \/ \E s \in Skills :
          \/ \E archive \in Archives : Install(s, archive)
          \/ \E enabled \in BOOLEAN : SetEnabled(s, enabled)
          \/ RemoveSkill(s)
    \/ Unpack \/ WriteMain \/ RecordInstall \/ SaveSwitch
    \/ DeleteFile \/ DeleteDirectory \/ Forget
    \/ TellClient \/ RequestStops \/ UndoUnpack \/ UndoInPart \/ Refuse

-----------------------------------------------------------------------------
ShelfTypeOK ==
    /\ DOMAIN dirs \subseteq Skills
    /\ \A s \in DOMAIN dirs : dirs[s].have \subseteq dirs[s].want
    /\ DOMAIN switches \subseteq Skills /\ Range(switches) \subseteq BOOLEAN
    /\ standing \in [Skills -> {"nothing", "on", "off", "gone"}]
    /\ unfinished \subseteq DOMAIN dirs /\ misread \subseteq Skills

\* Between two requests a skill is as the client was last told: on, off (unless
\* a failed read lost its entry) or gone, whatever request for this or another
\* skill failed, was cut short or lost its answer since.  A request that ends so
\* leaves open only what it asked to change: a skill that was on and was to be
\* switched off or removed, or was off and was to be installed or switched on,
\* may be either until the client is told again.  A skill that is offered has
\* all the files that were to be unpacked, and a name that is taken is that of
\* such a skill, unless an installation or a removal was cut short.
ShelfIsKept ==
    handling = AtRest =>
        /\ \A s \in Skills :
              /\ standing[s] = "on" => Available(s)
              /\ standing[s] = "off" /\ s \notin misread => ~ Available(s)
              /\ standing[s] = "gone" => s \notin DOMAIN dirs
        /\ \A s \in DOMAIN dirs \ unfinished : dirs[s].have = dirs[s].want
=============================================================================
