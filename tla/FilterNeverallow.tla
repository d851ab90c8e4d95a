-------------------------- MODULE FilterNeverallow --------------------------
(***************************************************************************)
(* sepolicy_filter_neverallow.py: leaves of a policy.conf the markers of   *)
(* the CTS and the neverallow rules.  A file is a sequence of lines, a     *)
(* line a sequence of atoms: words, blanks and single punctuation marks.   *)
(* The atoms in Begins and Ends stand for "BEGIN_x -- this marker is used  *)
(* by CTS --" and the like.                                                *)
(***************************************************************************)
EXTENDS Integers, Sequences, FiniteSets, SequencesExt

CONSTANTS Blocks,       \* the names of blocks
          BeginOf(_), EndOf(_)

Markers == {BeginOf(x) : x \in Blocks} \cup {EndOf(x) : x \in Blocks}

Where(l, atoms) == {i \in DOMAIN l : l[i] \in atoms}
Least(s)        == CHOOSE n \in s : \A m \in s : n <= m
Greatest(s)     == CHOOSE n \in s : \A m \in s : n >= m

HasComment(l) == Where(l, {"#"}) # {}
Code(l)       == IF HasComment(l) THEN SubSeq(l, 1, Least(Where(l, {"#"})) - 1) ELSE l
Solid(l)      == DOMAIN l \ Where(l, {" "})
IsBlank(l)    == Solid(l) = {}
LStrip(l)     == IF IsBlank(l) THEN <<>> ELSE SubSeq(l, Least(Solid(l)), Len(l))
RStrip(l)     == IF IsBlank(l) THEN <<>> ELSE SubSeq(l, 1, Greatest(Solid(l)))

(***************************************************************************)
(* re.sub(r"^([^#]+;)", "\\1\n"): the pattern goes over lines, as far as   *)
(* the last semicolon before a comment, from the first start of a line     *)
(* after the comment before.  That semicolon ends its line.                *)
(***************************************************************************)
Semicolons(l) == Where(Code(l), {";"})
LastOfChunk(file, k) ==
  /\ Semicolons(file[k]) # {}
  /\ \A j \in k + 1 .. Len(file) :
       (\A i \in k .. j - 1 : ~HasComment(file[i])) => Semicolons(file[j]) = {}
  /\ (k = 1 \/ HasComment(file[k - 1])) => Semicolons(file[k]) # {1}

CutLine(file, k) ==
  IF LastOfChunk(file, k)
  THEN LET q == Greatest(Semicolons(file[k]))
       IN  <<SubSeq(file[k], 1, q), SubSeq(file[k], q + 1, Len(file[k]))>>
  ELSE <<file[k]>>

\* ... and re.sub(r"^\s+\n"), re.sub(r"\n+")
Statements(file) ==
  SelectSeq(FlattenSeq([k \in DOMAIN file |-> CutLine(file, k)]), LAMBDA l : ~IsBlank(l))

\* a line that re.search finds the marker's phrase in, and the marker that
\* a line begins with
IsMarker(l) == \E i \in DOMAIN l : l[i] \in Markers /\ \E j \in 1 .. i - 1 : l[j] = "#"
StartsMarker(l, m) ==
  LET s == LStrip(l) IN Len(s) >= 3 /\ s[1] = "#" /\ s[2] = " " /\ s[3] = m

\* (mutant) any two markers that follow one another are redundant
AnyMatch(l1, l2) == IsMarker(l1) /\ IsMarker(l2)

MarkersMatch(l1, l2) ==
  \E x \in Blocks : \/ StartsMarker(l1, BeginOf(x)) /\ StartsMarker(l2, EndOf(x))
                    \/ StartsMarker(l1, EndOf(x)) /\ StartsMarker(l2, BeginOf(x))

Neverallows == {"neverallow", "neverallowxperm"}

\* (mutant) a rule ends with its line
OneLine(st, l) ==
  IF IsMarker(l)
  THEN IF st.outputs # <<>> /\ MarkersMatch(Last(st.outputs), l)
       THEN [st EXCEPT !.outputs = Front(@)]
       ELSE [st EXCEPT !.outputs = Append(@, RStrip(l))]
  ELSE IF IsBlank(Code(l)) \/ LStrip(l)[1] \notin Neverallows THEN st
       ELSE [st EXCEPT !.outputs = Append(@, RStrip(Code(l)))]

\* a turn of the loop over the lines
Turn(st, l) ==
  LET code   == Code(l)
      inside == st.inside \/ LStrip(code)[1] \in Neverallows
  IN  IF IsMarker(l)
      THEN IF st.outputs # <<>> /\ MarkersMatch(Last(st.outputs), l)
           THEN [st EXCEPT !.outputs = Front(@)]
           ELSE [st EXCEPT !.outputs = Append(@, RStrip(l))]
      ELSE IF IsBlank(code) \/ ~inside THEN st
           ELSE [outputs |-> Append(st.outputs, RStrip(code)), inside |-> Last(code) # ";"]

Filtered(file) ==
  FoldLeft(Turn, [outputs |-> <<>>, inside |-> FALSE], Statements(file)).outputs
=============================================================================
