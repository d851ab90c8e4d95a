---------------------------- MODULE MiniCilParser ---------------------------
(***************************************************************************)
(* How tests/mini_parser.py cuts a CIL file into statements: _getNextStmt, *)
(* which reads one character at a time, and the loop of __init__ that      *)
(* calls it until it returns nothing.                                      *)
(*                                                                         *)
(* A file is a sequence of characters, "(", ")", ";", "nl" for the end of  *)
(* a line and "x" for all others.  One action is one turn of one of the    *)
(* four loops.                                                             *)
(***************************************************************************)
EXTENDS Integers, Sequences, FiniteSets

CONSTANT Files   \* the contents the file may have

Chars == {"(", ")", ";", "nl", "x"}

ASSUME FilesAreChars == Files \subseteq Seq(Chars)

VARIABLES
  infile,  \* the file that is read
  pos,     \* where c stands in the file, Len(infile) + 1 when c is ''
  parens,  \* parens
  stmt,    \* s: the positions of its characters
  loop,    \* the loop: "seek", "seekComment", "body", "bodyComment"; "done"
  stmts    \* what was returned, before the empty statement that ends the file

parseVars == <<infile, pos, parens, stmt, loop, stmts>>

EOF       == Len(infile) + 1
CharAt(i) == IF i < EOF THEN infile[i] ELSE "eof"
char      == CharAt(pos)

\* infile.read(1), which returns '' over and over at the end
After(i) == IF i < EOF THEN i + 1 ELSE i

ParseInit ==
  /\ infile \in Files /\ pos = 1 /\ parens = 0 /\ stmt = <<>> /\ loop = "seek" /\ stmts = <<>>

\* get to first statement
Seek ==
  /\ loop = "seek" /\ char # "eof" /\ char # "("
  /\ IF char = ";" THEN loop' = "seekComment" /\ UNCHANGED pos
                   ELSE pos' = After(pos) /\ UNCHANGED loop
  /\ UNCHANGED <<infile, parens, stmt, stmts>>

\* rest of the line; the turn of the outer loop reads one more
SeekComment ==
  /\ loop = "seekComment"
  /\ pos' = After(pos)
  /\ loop' = IF char = "nl" THEN "seek" ELSE loop
  /\ UNCHANGED <<infile, parens, stmt, stmts>>

\* the loop is left at "(" or at the end of the file
Open ==
  /\ loop = "seek" /\ char \in {"eof", "("}
  /\ parens' = 1 /\ stmt' = <<>> /\ pos' = After(pos)
  /\ loop' = "body"
  /\ UNCHANGED <<infile, stmts>>

\* (mutant) the character is looked at before it is taken
TakenNext(i) == i + 1
Taken(i)     == i

Delta(ch) == CASE ch = "(" -> 1 [] ch = ")" -> -1 [] OTHER -> 0

Body ==
  /\ loop = "body" /\ char # "eof" /\ parens # 0
  /\ stmt' = Append(stmt, Taken(pos)) /\ pos' = After(pos)
  /\ parens' = parens + Delta(CharAt(pos'))
  /\ loop' = IF CharAt(pos') = ";" THEN "bodyComment" ELSE loop
  /\ UNCHANGED <<infile, stmts>>

KeptComment == pos       \* (mutant) only the ";" is dropped
SkipComment == After(pos)

BodyComment ==
  /\ loop = "bodyComment"
  /\ IF char = "nl" THEN loop' = "body" /\ UNCHANGED pos
                    ELSE pos' = SkipComment /\ UNCHANGED loop
  /\ UNCHANGED <<infile, parens, stmt, stmts>>

\* return s; __init__ parses it and calls again, or stops
Return ==
  /\ loop = "body" /\ (char = "eof" \/ parens = 0)
  /\ IF stmt = <<>> THEN loop' = "done" /\ UNCHANGED <<stmts, pos>>
                    ELSE /\ stmts' = Append(stmts, stmt) /\ pos' = After(pos)
                         /\ loop' = "seek"
  /\ parens' = 0 /\ stmt' = <<>>
  /\ UNCHANGED infile

ParseNext == Seek \/ SeekComment \/ Open \/ Body \/ BodyComment \/ Return
ParseSpec == ParseInit /\ [][ParseNext]_parseVars /\ WF_parseVars(ParseNext)

-----------------------------------------------------------------------------
(***************************************************************************)
(* The statements of a file: what is between a "(" outside all others and  *)
(* the ")" that closes it, without the comments.                           *)
(***************************************************************************)
InComment(i) == \E j \in 1 .. i : infile[j] = ";" /\ \A k \in j .. i : infile[k] # "nl"

Depth ==
  LET D[i \in 0 .. Len(infile)] ==
        IF i = 0 THEN 0
        ELSE IF InComment(i) THEN D[i - 1]
        ELSE LET d == D[i - 1] + Delta(infile[i]) IN IF d < 0 THEN 0 ELSE d
  IN  D

Opens  == {i \in 1 .. Len(infile) : Depth[i] = 1 /\ Depth[i - 1] = 0}
End(i) == CHOOSE j \in i + 1 .. EOF : /\ j = EOF \/ Depth[j] = 0
                                      /\ \A k \in i + 1 .. j - 1 : Depth[k] # 0

\* what is taken for the statement that opens at i, up to each character
TextTo(i) ==
  LET upto[k \in 0 .. Len(infile)] ==
        IF k <= i THEN <<>>
        ELSE IF InComment(k) THEN upto[k - 1] ELSE Append(upto[k - 1], k)
  IN  upto
Text(i) == TextTo(i)[End(i) - 1]

\* the statements that open up to each character
StatementsTo ==
  LET opens == Opens
      upto[i \in 0 .. Len(infile)] ==
        IF i = 0 THEN <<>>
        ELSE IF i \in opens THEN Append(upto[i - 1], Text(i)) ELSE upto[i - 1]
  IN  upto
Statements == StatementsTo[Len(infile)]

\* the files the tools are given: a statement begins with a word
Plain == \A i \in Opens : i < Len(infile) /\ infile[i + 1] = "x"

ParseTypeOK ==
  /\ infile \in Seq(Chars)
  /\ pos \in 1 .. EOF /\ parens \in 0 .. pos /\ stmt \in Seq(1 .. Len(infile))
  /\ loop \in {"seek", "seekComment", "body", "bodyComment", "done"}
  /\ stmts \in Seq(Seq(1 .. Len(infile)))

\* The parser returns the statements of the file, each once, in order, whole
\* and without its comments, whatever parentheses the comments hold.
StatementsRight ==
  Plain => /\ Len(stmts) <= Len(Statements)
           /\ \A n \in DOMAIN stmts : stmts[n] = Statements[n]
           /\ loop = "done" => Len(stmts) = Len(Statements)

\* inside the statement that opens at i: what has been read of it is taken
Inside(i) ==
  /\ i < pos /\ \A k \in i + 1 .. pos - 1 : Depth[k] # 0
  /\ stmt = TextTo(i)[pos - 1] /\ (pos > i + 1 => stmt # <<>>)
  /\ StatementsTo[pos - 1] = Append(stmts, Text(i))

\* each loop: what has been returned, where the next character stands, and what
\* the number of open parentheses is
Outside == parens = 0 /\ stmt = <<>> /\ stmts = StatementsTo[pos - 1]
AtEnd   == pos = EOF /\ stmt = <<>> /\ stmts = Statements
Passing == pos < EOF /\ char # "nl" => InComment(pos)

BodyOf(i)    == Inside(i) /\ (pos < EOF => parens = Depth[pos] /\ ~InComment(pos))
CommentOf(i) == Inside(i) /\ pos > i + 1 /\ Passing /\ (pos < EOF => parens = Depth[pos - 1])

Reading ==
  CASE loop = "seek" ->
         Outside /\ (pos < EOF => Depth[pos - 1] = 0 /\ ~InComment(pos - 1))
    [] loop = "seekComment" ->
         Outside /\ Passing /\ (pos < EOF => Depth[pos - 1] = 0)
    [] loop = "body"        -> AtEnd \/ \E i \in Opens : BodyOf(i)
    [] loop = "bodyComment" -> \E i \in Opens : CommentOf(i)
    [] loop = "done"        -> stmts = Statements

ParseInv == ParseTypeOK /\ (Plain => Reading)

\* a comment in the last line is ended by a newline
Terminated == Len(infile) > 0 => ~InComment(Len(infile))

\* The parser reads a file to its end and stops.
Stops == Terminated => <>(loop = "done")

\* The same of every file: the code says that it only gets "rid of rest of the
\* line", and the last line of a file may have no newline.
AlwaysStops == <>(loop = "done")
=============================================================================
