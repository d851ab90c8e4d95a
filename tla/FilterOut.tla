------------------------------ MODULE FilterOut -----------------------------
(***************************************************************************)
(* filter_out of build/file_utils.py, which the policy build runs on CIL   *)
(* files: it removes from a file the lines that the pattern files hold,    *)
(* then the line markers left without statements, and replaces the file.   *)
(*                                                                         *)
(* The lines of a file end with a newline, the last one perhaps not; a     *)
(* line is compared with the patterns newline and all.                     *)
(***************************************************************************)
EXTENDS LineMarkers, FiniteSets

CONSTANTS PatternSets,   \* the sets of lines the pattern files may hold, each [line, ended]
          NewLine,       \* the text of an empty line
          MaxRuns        \* bound of the model: calls on the same file

ASSUME NewLineIsText == NewLine \in Text

VARIABLES
  file,      \* the lines of the target file
  ended,     \* whether its last line ends with a newline
  original,  \* history: what the target was at first, [lines, ended]
  given,     \* history: what it was when the last call read it
  patterns,  \* the lines of the pattern files
  step,      \* "idle", "filtering", "failed"
  runs       \* how many calls there were

target == <<file, ended>>
past   == <<original, given>>
vars   == <<markVars, target, past, patterns, step, runs>>

Blank == [kind |-> "stmt", text |-> NewLine]

\* ";;*" lines of the pattern files are not patterns
AllPatterns(ls) == ls   \* (mutant) they are
Patterns(ls)    == {l \in ls : l.line.kind = "stmt"}

Init ==
  /\ file \in Inputs /\ ended \in BOOLEAN /\ (file = <<>> => ended)
  /\ original = [lines |-> file, ended |-> ended] /\ given = original
  /\ \E ls \in PatternSets : patterns = Patterns(ls)
  /\ step = "idle" /\ runs = 0
  /\ MarkInit(<<>>)

\* the line i of a file, as readlines() returns it
AsRead(s, whole, i) == [line |-> s[i], ended |-> whole \/ i < Len(s)]

\* the list comprehension over in_file.readlines()
Unmatched(s, whole)  == {i \in DOMAIN s : AsRead(s, whole, i) \notin patterns /\ s[i] # Blank}
KeepsBlank(s, whole) ==   \* (mutant) no strip()
  Chosen(s, {i \in DOMAIN s : AsRead(s, whole, i) \notin patterns})
NotMatched(s, whole) == Chosen(s, Unmatched(s, whole))

Start ==
  /\ step = "idle" /\ runs < MaxRuns
  /\ lines' = NotMatched(file, ended)
  /\ idx' = 1 /\ stk' = <<>> /\ pc' = "mark"
  /\ valid' = [i \in 1 .. Len(lines') |-> FALSE]
  /\ partner' = [i \in 1 .. Len(lines') |-> 0]
  /\ given' = [lines |-> file, ended |-> ended]
  /\ step' = "filtering" /\ runs' = runs + 1
  /\ UNCHANGED <<target, original, patterns>>

Mark ==
  /\ step = "filtering" /\ MarkNext
  /\ UNCHANGED <<target, past, patterns, step, runs>>

\* whether the last line that is written is one without a newline
Unended == ~ended /\ Len(file) \in Unmatched(file, ended) /\ valid[Len(lines)]

\* A newline is written after the lines, for secilc.  It is an empty line, or
\* the newline that the last line did not have.
Padded(s, open) == IF open THEN s ELSE Append(s, Blank)

\* the temporary file is copied over the input
Replace ==
  /\ step = "filtering" /\ pc = "marked"
  /\ file' = Padded(Kept, Unended) /\ ended' = TRUE
  /\ step' = "idle"
  /\ UNCHANGED <<markVars, past, patterns, runs>>

\* the exception leaves the target as it was
Fail ==
  /\ step = "filtering" /\ pc = "IndexError"
  /\ step' = "failed"
  /\ UNCHANGED <<markVars, target, past, patterns, runs>>

Next == Start \/ Mark \/ Replace \/ Fail
Spec == Init /\ [][Next]_vars

-----------------------------------------------------------------------------
(***************************************************************************)
(* What a file says: its statements, each with the markers around it, the  *)
(* innermost last, and the number of statements since the innermost one.   *)
(***************************************************************************)
\* the positions of the markers that are open behind the first n lines
Outer(open) == {p \in open : \E q \in open : p < q}
Open(s) ==
  LET behind[n \in 0 .. Len(s)] ==
        IF n = 0 THEN {}
        ELSE LET open == behind[n - 1]
             IN  CASE s[n].kind \in Starts -> open \cup {n}
                   [] s[n].kind = "lme"    -> Outer(open)
                   [] s[n].kind = "stmt"   -> open
  IN  behind

Balanced(s) ==
  /\ Open(s)[Len(s)] = {}
  /\ \A n \in DOMAIN s : s[n].kind = "lme" => Open(s)[n - 1] # {}

Told(s) == {n \in DOMAIN s : s[n].kind = "stmt" /\ s[n] # Blank}

\* of those, the ones that no pattern matches
Meant == Told(given.lines) \cap Unmatched(given.lines, given.ended)

Says(s, ns) ==
  LET open == Open(s)
      since(n) == {m \in 1 .. n - 1 : s[m].kind = "stmt" /\ open[m] = open[n]}
      all == [n \in DOMAIN s |-> [line   |-> s[n],
                                  around |-> Chosen(s, open[n]),
                                  since  |-> Cardinality(since(n))]]
  IN  Chosen(all, ns)

Texts(said)    == [i \in DOMAIN said |-> said[i].line]
Contexts(said) == [i \in DOMAIN said |-> <<said[i].line, said[i].around>>]

Done == step = "idle" /\ runs > 0

\* The filtered file has the statements of the file that the call was given which
\* no pattern matches, all of them, in their order, and no other, however the
\* markers of the file are nested, closed or left open.  A last line without a
\* newline is a statement that no pattern with one matches, so it stays.
FilteredExactly ==
  Done => Texts(Says(file, Told(file))) = Texts(Says(given.lines, Meant))

\* In a file whose markers pair up, every statement that is kept has the same
\* markers around it as before, so secilc and the neverallow messages name the
\* same source block; the markers of the result pair up; and no pair of them is
\* left with nothing inside (remove_redundant_line_markers removes all of them).
ContextPreserved ==
  Done /\ Balanced(given.lines) =>
    /\ Balanced(file)
    /\ Contexts(Says(file, Told(file))) = Contexts(Says(given.lines, Meant))
    /\ \A i \in DOMAIN file : file[i].kind \in Starts => file[i + 1].kind # "lme"

\* Filtering a result again with the same patterns changes nothing, the build may
\* filter a file that was already filtered.  Only the second call may, on a file
\* that had no newline at its end: the first one gave it one, so that now a
\* pattern may match its last line, and an empty line is added.
Idempotent == Done /\ runs > 1 /\ (runs = 2 => original.ended) => file = given.lines

\* The same without the exception.
IdempotentAtOnce == Done /\ runs > 1 => file = given.lines

\* The target is replaced in one step by a complete result: before that, and
\* when the markers do not pair up and the function raises, it is what it was;
\* and a result is never an empty file, which "will trip up secilc".
ReplacedWhole ==
  /\ step # "idle" => file = given.lines /\ ended = given.ended
  /\ step = "failed" => ~Balanced(given.lines)
  /\ Done => file # <<>>

\* "lms is used when each of the following CIL statements corresponds to a
\* line in the original file": the line of the source that a statement has by
\* its place in its block is still its line after filtering.
LinesKept ==
  Done /\ Balanced(given.lines) =>
    LET after  == Says(file, Told(file))
        before == Says(given.lines, Meant)
    IN  \A i \in DOMAIN after :
          after[i].around # <<>> /\ after[i].around[Len(after[i].around)].kind = "lms" =>
            after[i].since = before[i].since
=============================================================================
