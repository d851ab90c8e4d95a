----------------------------- MODULE MCFilterOut ----------------------------
(***************************************************************************)
(* Three calls on a file, with a newline at its end or without.  Every     *)
(* file of at most 4 lines; every one of 5 or 6 lines whose markers pair   *)
(* up, so that two blocks, one in the other, can each have a statement     *)
(* that is removed and one that is kept; and, of one kind of marker and    *)
(* one statement, every file of up to 6 lines, paired or not.  The last    *)
(* line of a pattern file may have no newline either.                      *)
(***************************************************************************)
EXTENDS FilterOut, SequencesExt

MCText == {"1", "2", "a", "b", "empty"}

A    == [kind |-> "stmt", text |-> "a"]
B    == [kind |-> "stmt", text |-> "b"]
Lms  == [kind |-> "lms", text |-> "1"]
Lmx  == [kind |-> "lmx", text |-> "2"]
Lme  == [kind |-> "lme", text |-> "1"]
Used == {A, B, Lms, Lmx, Lme, [kind |-> "stmt", text |-> "empty"]}

MCInputs ==
  BoundedSeq(Used, 4) \cup BoundedSeq({A, Lms, Lme}, 6)
    \cup {s \in BoundedSeq(Used, 6) : Len(s) > 4 /\ Balanced(s)}
Whole(ls) == [line : ls, ended : {TRUE}]
MCPatternSets ==
  {{}, Whole({A}), Whole({A, Lme}), Whole({A, B}), Whole({B}) \cup [line : {A}, ended : {FALSE}]}
=============================================================================
