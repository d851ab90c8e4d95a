--------------------------- MODULE MCMiniCilParser --------------------------
(***************************************************************************)
(* Every file of at most 5 characters, and of 7 those that begin with a    *)
(* statement: a statement can hold a comment with a parenthesis in it.     *)
(***************************************************************************)
EXTENDS MiniCilParser, SequencesExt

MCFiles == BoundedSeq(Chars, 5) \cup {<<"(", "x">> \o t : t \in [1 .. 5 -> Chars]}
=============================================================================
