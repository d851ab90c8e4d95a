------------------------- MODULE NeverallowLanguage -------------------------
(***************************************************************************)
(* What neverallow rules mean in a policy.conf, how they are written, and  *)
(* whether sepolicy-analyze and sepolicy_filter_neverallow.py take them    *)
(* for what they mean.  A file is [lines, statements, at, torn]: its text, *)
(* the neverallow rules that are written in it, in order, the places of    *)
(* their tokens in the text without comments, and whether it ends within   *)
(* the last of them.                                                       *)
(*                                                                         *)
(* A rule is [source, target, classes, comp, perms], of type sets, lists   *)
(* and whether the permissions are complemented; a type set is [comp,      *)
(* list].  A list is a token or tokens in braces, which may have lists in  *)
(* them, as they have where m4 has expanded a macro: { { a b } c -a }.     *)
(***************************************************************************)
EXTENDS NeverallowParser

Named(ids) == UNION {IF id \in Types THEN {id}
                     ELSE IF id \in DOMAIN Members THEN Members[id] ELSE {} : id \in ids}

\* what a list names, and what it takes out
IsTaken(list, i) == i > 1 /\ list[i - 1] = "-"
Put(list)   == {list[i] : i \in {j \in DOMAIN list : ~IsTaken(list, j)}} \ (TypeMarks \cup {"self"})
Taken(list) == {list[i] : i \in {j \in DOMAIN list : IsTaken(list, j)}}
Denoted(e) ==
  LET all == (IF "*" \in Range(e.list) THEN Types ELSE Named(Put(e.list))) \ Named(Taken(e.list))
  IN  IF e.comp THEN Types \ all ELSE all

Granted(s) ==
  UNION {{c} \X (LET ps == IF "*" \in Range(s.perms) THEN Perms[c] ELSE Perms[c] \cap Range(s.perms)
                 IN  IF s.comp THEN Perms[c] \ ps ELSE ps)
         : c \in Range(s.classes) \cap DOMAIN Perms}

Meaning(s) == <<Denoted(s.source), Denoted(s.target), "self" \in Range(s.target.list), Granted(s)>>

-----------------------------------------------------------------------------
\* How they are written.
Tilde(comp) == IF comp THEN <<"~">> ELSE <<>>
Tokens(s) ==
  <<"neverallow">> \o Tilde(s.source.comp) \o s.source.list
  \o Tilde(s.target.comp) \o s.target.list \o <<":">> \o s.classes
  \o Tilde(s.comp) \o s.perms \o <<";">>

\* blanks are needed after the keyword and between words
Together(x, y) ==
  /\ x # "neverallow"
  /\ x \in Brackets \cup {":", "-", "~"} \/ y \in Brackets \cup {":", ";"}

\* one line, with all blanks or only those that are needed
Spaced(tokens, tight) ==
  FlattenSeq([i \in DOMAIN tokens |->
    IF i = Len(tokens) \/ (tight /\ Together(tokens[i], tokens[i + 1]))
    THEN <<tokens[i]>> ELSE <<tokens[i], " ">>])

\* how many braces are open behind the first tokens
Depth(list) ==
  LET open[i \in 0 .. Len(list)] ==
        IF i = 0 THEN 0
        ELSE open[i - 1] + (CASE list[i] = "{" -> 1 [] list[i] = "}" -> -1 [] OTHER -> 0)
  IN  open

\* names are words, which are not marks or keywords
Reserved  == Space \cup TypeMarks \cup {":", ";", "#", "~", "self"}
IsWord(x) == x \notin Reserved

\* it ends where its braces are closed, or without any behind one token
IsList(list, others) ==
  /\ list \in Seq(Range(list)) /\ list # <<>>
  /\ \A x \in Range(list) : IsWord(x) \/ x \in Brackets \cup others
  /\ Depth(list)[Len(list)] = 0
  /\ \A i \in 1 .. Len(list) - 1 : Depth(list)[i] > 0

IsSet(e) ==
  /\ e.comp \in BOOLEAN /\ IsList(e.list, {"*", "-", "self"})
  /\ \A i \in DOMAIN e.list : e.list[i] = "-" => i < Len(e.list) /\ IsWord(e.list[i + 1])
  /\ ~(e.comp /\ "*" \in Range(e.list))
IsStatement(s) ==
  /\ IsSet(s.source) /\ "self" \notin Range(s.source.list) /\ IsSet(s.target)
  /\ IsList(s.classes, {}) /\ s.comp \in BOOLEAN /\ IsList(s.perms, {"*"})

\* The tokens stand in the text at the places a, with nothing but blanks between
\* them; if there are not all of them, nothing but blanks follows.
Stands(txt, tokens, a) ==
  /\ a \in Seq(DOMAIN txt) /\ Len(a) \in 1 .. Len(tokens)
  /\ \A i \in DOMAIN a : txt[a[i]] = tokens[i]
  /\ \A i \in 2 .. Len(a) :
       /\ a[i - 1] < a[i] /\ \A q \in a[i - 1] + 1 .. a[i] - 1 : txt[q] \in Space
       /\ a[i] = a[i - 1] + 1 => Together(tokens[i - 1], tokens[i])
  /\ Len(a) < Len(tokens) => \A q \in a[Len(a)] + 1 .. Len(txt) : txt[q] \in Space

\* a word between blanks
Alone(txt, q) ==
  /\ q = 1 \/ txt[q - 1] \in Space
  /\ q = Len(txt) \/ txt[q + 1] \in Space

\* Rules are written one after the other, each with blanks around its keyword, and
\* only they have the keyword like that; all of them are whole unless the file is
\* torn.
IsWritten(f, txt) ==
  /\ f.statements \in Seq({s \in Range(f.statements) : IsStatement(s)})
  /\ f.at \in Seq(Range(f.at)) /\ Len(f.at) = Len(f.statements)
  /\ \A k \in DOMAIN f.at :
       /\ Stands(txt, Tokens(f.statements[k]), f.at[k])
       /\ Len(f.at[k]) < Len(Tokens(f.statements[k])) <=> (f.torn /\ k = Len(f.at))
       /\ f.at[k][1] = 1 \/ txt[f.at[k][1] - 1] \in Space
       /\ \A m \in k + 1 .. Len(f.at) : f.at[k][Len(f.at[k])] < f.at[m][1]
  /\ \A q \in DOMAIN txt :
       txt[q] = "neverallow" /\ Alone(txt, q) => \E k \in DOMAIN f.at : q = f.at[k][1]
  /\ f.torn => f.at # <<>>

\* What is written in another way is none of the statements: a rule that follows the
\* semicolon before it, or has its first brace behind the keyword, with nothing between
\* them.  Type sets that no file of the repository has are left out: ~*, and a - b.
ASSUME FilesAreWritten ==
  \A f \in Files : /\ f.lines \in Seq(Seq(STRING)) /\ f.torn \in BOOLEAN
                   /\ IsWritten(f, Uncommented(f.lines))
ASSUME NamesAreWords ==
  /\ \A c \in DOMAIN Perms : ({c} \cup Perms[c]) \cap Reserved = {}
  /\ \A x \in DOMAIN Members : Members[x] \subseteq Types

-----------------------------------------------------------------------------
Contents(rs) == [i \in DOMAIN rs |-> <<rs[i].stypes, rs[i].ttypes, rs[i].self, rs[i].perms>>]

\* The program stays within its text, and holds names of the policy only.
TypeOK ==
  /\ stage \in {"whole", "filtered", "done"} /\ Len(results) \in 0 .. 2
  /\ pos \in 1 .. End /\ openparens \in 0 .. End
  /\ rule.stypes \cup rule.ttypes \subseteq Types /\ rule.classes \subseteq DOMAIN Perms
  /\ rule.perms \subseteq AllPerms

\* README: sepolicy-analyze reads "neverallow statements in the same format as
\* the SELinux policy.conf file", however they are laid out, and ignores
\* "everything except for the neverallows": of the rules with blanks around their
\* keywords it reads what they mean, and names that the policy does not have
\* count for nothing.  Other rules it passes over.  A file that ends within a rule
\* is an error, and a file with none.
ReadRight ==
  results # <<>> =>
    /\ results[1][1] <=> (conf.statements # <<>> /\ ~conf.torn)
    /\ results[1][1] => Contents(results[1][2]) =
                         Reverse([k \in DOMAIN conf.statements |-> Meaning(conf.statements[k])])

\* the blocks that are open at a line, and at each rule
OpenBlocks(lines, k) ==
  {x \in Blocks : \E i \in 1 .. k - 1 :
     /\ StartsMarker(lines[i], BeginOf(x))
     /\ \A j \in i + 1 .. k - 1 : ~StartsMarker(lines[j], EndOf(x))}
RuleBlocks(lines) ==
  FlattenSeq([k \in DOMAIN lines |->
    [i \in 1 .. Cardinality(Where(Code(lines[k]), {"neverallow"})) |-> OpenBlocks(lines, k)]])

\* Every rule is one that sepolicy-analyze reads, and in its line there are only rules
\* before it, or parts of them.
RulesLead ==
  LET txt == Uncommented(conf.lines)
  IN  \A q \in DOMAIN txt : txt[q] = "neverallow" =>
        /\ \E k \in DOMAIN conf.at : conf.at[k][1] = q
        /\ \A p \in 1 .. q - 1 :
             \/ txt[p] \in Space \/ (\E k \in DOMAIN conf.at : p \in Range(conf.at[k]))
             \/ \E n \in p .. q : txt[n] = LineEnd

\* What the CTS has of a file in which rules lead their lines has the same rules, in
\* the same order and in the same blocks: the CTS leaves out those in the blocks of
\* conditions that a device does not fulfil.  A rule behind another statement in its
\* line is lost.
FilterPreserves ==
  stage = "done" /\ RulesLead =>
    /\ results[2] = results[1]
    /\ RuleBlocks(Filtered(conf.lines)) = RuleBlocks(conf.lines)

\* The same of every file.
FilterPreservesAll == stage = "done" => results[2] = results[1]

\* sepolicy_filter_neverallow.py says that it separates statements with newlines
\* (only the last one before a comment is separated from what is behind it) ...
OneStatementPerLine ==
  \A k \in DOMAIN conf.lines :
    \A l \in ToSet(CutLine(conf.lines, k)) : \A i \in Semicolons(l) : i = Len(Code(l))

\* ... and that it leaves only markers and neverallow rules.
OnlyNeverallows ==
  \A l \in ToSet(Filtered(conf.lines)) : Where(Code(l), {"type", "allow"}) = {}
=============================================================================
