---------------------------- MODULE LineMarkers -----------------------------
(***************************************************************************)
(* remove_redundant_line_markers of build/file_utils.py.  A CIL file holds *)
(* statements and, around them, nested pairs of line markers that say      *)
(* which source line the statements come from; the function drops the      *)
(* pairs that have no statement inside, in one pass with a stack.          *)
(*                                                                         *)
(* A line is [kind, text]: kind "lms" and "lmx" for the markers that start *)
(* a block, "lme" for the one that ends it, "stmt" for anything else.  One *)
(* action is one turn of the loop.                                         *)
(***************************************************************************)
EXTENDS Integers, Sequences

CONSTANTS Text,    \* the lines' contents
          Inputs   \* the files

Line == [kind : {"lms", "lmx", "lme", "stmt"}, text : Text]

ASSUME InputsAreLines == Inputs \subseteq Seq(Line)

VARIABLES
  lines,    \* the argument
  idx,      \* the line the loop is at
  stk,      \* marker_stk: the positions of the open start markers
  valid,    \* valid: the lines that are kept
  partner,  \* history: for an end marker passed, the start marker it closed
  pc        \* "mark", then "marked" or "IndexError"

markVars == <<lines, idx, stk, valid, partner, pc>>

Kind(i) == lines[i].kind
Starts  == {"lms", "lmx"}
Top     == stk[Len(stk)]
Below   == stk[Len(stk) - 1]   \* the marker that encloses Top
Pop(s)  == SubSeq(s, 1, Len(s) - 1)

MarkInit(input) ==
  /\ lines = input /\ idx = 1 /\ stk = <<>> /\ pc = "mark"
  /\ valid = [i \in 1 .. Len(input) |-> FALSE]
  /\ partner = [i \in 1 .. Len(input) |-> 0]

Advance == idx' = idx + 1 /\ UNCHANGED <<lines, pc>>

PushedZero(s) == Append(s, idx - 1)   \* (mutant) the position is off by one
Pushed(s)     == Append(s, idx)

StartMarker ==
  /\ pc = "mark" /\ idx <= Len(lines) /\ Kind(idx) \in Starts
  /\ stk' = Pushed(stk) /\ Advance
  /\ UNCHANGED <<valid, partner>>

\* a block found valid keeps its end and, when there is one, its parent
PropagatesNot(i) == {i}   \* (mutant) the parent is not told
Propagates(i)    == IF Len(stk) >= 2 THEN {i, Below} ELSE {i}

EndMarker ==
  /\ pc = "mark" /\ idx <= Len(lines) /\ Kind(idx) = "lme" /\ stk # <<>>
  /\ valid' = IF valid[Top] THEN [i \in DOMAIN valid |-> valid[i] \/ i \in Propagates(idx)]
                            ELSE valid
  /\ stk' = Pop(stk)
  /\ partner' = [partner EXCEPT ![idx] = Top]
  /\ Advance

\* marker_stk[-1] of an empty stack
Unbalanced ==
  /\ pc = "mark" /\ idx <= Len(lines) /\ Kind(idx) = "lme" /\ stk = <<>>
  /\ pc' = "IndexError"
  /\ UNCHANGED <<lines, idx, stk, valid, partner>>

\* a statement is valid, and so is the block it is in
SetByTop(i) == IF stk # <<>> THEN {Top} ELSE {i}   \* (mutant) only the block is
SetBy(i)    == IF stk # <<>> THEN {i, Top} ELSE {i}

Statement ==
  /\ pc = "mark" /\ idx <= Len(lines) /\ Kind(idx) = "stmt"
  /\ valid' = [i \in DOMAIN valid |-> valid[i] \/ i \in SetBy(idx)]
  /\ Advance /\ UNCHANGED <<stk, partner>>

EndOfLines ==
  /\ pc = "mark" /\ idx > Len(lines)
  /\ pc' = "marked"
  /\ UNCHANGED <<lines, idx, stk, valid, partner>>

MarkNext == StartMarker \/ EndMarker \/ Unbalanced \/ Statement \/ EndOfLines

\* [s[i] for i in range(len(s)) if i in ks]
Chosen(s, ks) ==
  LET upto[i \in 0 .. Len(s)] ==
        IF i = 0 THEN <<>>
        ELSE IF i \in ks THEN Append(upto[i - 1], s[i]) ELSE upto[i - 1]
  IN  upto[Len(s)]

\* the return value: the valid lines, in order
Kept == Chosen(lines, {i \in DOMAIN lines : valid[i]})

-----------------------------------------------------------------------------
IsStmt(i) == Kind(i) = "stmt"

\* Positions are positions of lines: the stack never holds one that is not.
MarkTypeOK ==
  /\ lines \in Seq(Line) /\ idx \in 1 .. Len(lines) + 1
  /\ stk \in Seq(1 .. Len(lines))
  /\ valid \in [1 .. Len(lines) -> BOOLEAN]
  /\ partner \in [1 .. Len(lines) -> 0 .. Len(lines)]
  /\ pc \in {"mark", "marked", "IndexError"}

\* The stack holds open start markers, in the order of the lines.
StackAscends ==
  /\ \A d \in 1 .. Len(stk) : stk[d] < idx /\ Kind(stk[d]) \in Starts
  /\ \A d, e \in 1 .. Len(stk) : d < e => stk[d] < stk[e]

\* where the part of the block ends that an open marker knows about
Bound(d) == IF d < Len(stk) THEN stk[d + 1] ELSE idx

\* An open marker is valid exactly when there is a statement in its block so
\* far, other than in the blocks inside it that are still open: the information
\* of an inner block reaches the outer one only when the inner one ends.
OpenRight ==
  \A d \in 1 .. Len(stk) :
    valid[stk[d]] <=> \E j \in stk[d] + 1 .. Bound(d) - 1 : IsStmt(j)

\* what is known of the end marker e once the loop has passed it
PairRight(e) ==
  /\ partner[e] \in 1 .. e - 1 /\ Kind(partner[e]) \in Starts
  /\ \A d \in 1 .. Len(stk) : stk[d] # partner[e]
  /\ valid[e] <=> \E j \in partner[e] + 1 .. e - 1 : IsStmt(j)
  /\ valid[partner[e]] <=> valid[e]

\* A pair of markers is kept, both or neither, exactly when there is a statement
\* between the two, at any depth: "Redundant line markers are markers without
\* any statements inside".
ClosedRight == \A e \in 1 .. idx - 1 : Kind(e) = "lme" => PairRight(e)

\* No statement is lost, and nothing is kept before it is seen: whether a line
\* stays in the file depends on the loop having reached it.
StatementsKept ==
  /\ \A i \in 1 .. idx - 1 : IsStmt(i) => valid[i]
  /\ \A i \in idx .. Len(lines) : ~valid[i]

\* Both together: the loop takes out redundant markers, and nothing else.
MarksRight == ClosedRight /\ StatementsKept

MarkInv == MarkTypeOK /\ StackAscends /\ OpenRight /\ ClosedRight /\ StatementsKept
=============================================================================
