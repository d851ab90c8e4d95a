---------------------------- MODULE MCNeverallow ----------------------------
(***************************************************************************)
(* Small files of neverallow rules for NeverallowLanguage: each form of a  *)
(* set in each place, with braces in braces, each layout of a rule, files  *)
(* that end anywhere, and rules between other statements, comments and     *)
(* markers, or on one line with them.                                      *)
(***************************************************************************)
EXTENDS NeverallowLanguage

MCTypes   == {"a", "b", "d"}
MCMembers == [ab |-> {"a", "b"}]
MCPerms   == [file |-> {"read", "write"}, fd |-> {"use", "read"}]
MCBegin(x) == IF x = "x" THEN "BEGIN_x" ELSE "BEGIN_y"
MCEnd(x)   == IF x = "x" THEN "END_x" ELSE "END_y"

Set(comp, list) == [comp |-> comp, list |-> list]
One(id)     == Set(FALSE, <<id>>)
Braced(ids) == IF Len(ids) = 1 THEN ids ELSE <<"{">> \o ids \o <<"}">>

\* "none" is a name that the policy does not have
Names   == {"a", "d", "ab", "none"}
Pluses  == {<<n>> : n \in Names} \cup {<<n, m>> : n, m \in Names}
Minuses == {<<>>} \cup {<<"-", n>> : n \in Names}
Nested  == {<<"{", "{", "a", "}", "}">>,
            <<"{", "{", "a", "d", "}", "-", "ab", "}">>, <<"{", "-", "a", "{", "ab", "}", "d", "}">>,
            <<"{", "d", "{", "-", "a", "{", "none", "ab", "}", "}", "}">>, <<"{", "{", "*", "}", "-", "a", "}">>}
Sources == {Set(comp, Braced(plus \o minus)) : comp \in BOOLEAN, plus \in Pluses, minus \in Minuses}
      \cup {Set(FALSE, Braced(<<"*">> \o minus)) : minus \in Minuses}
      \cup {e \in [comp : BOOLEAN, list : Nested] : ~(e.comp /\ "*" \in Range(e.list))}
Targets == Sources \cup {Set(FALSE, list) : list \in
                           {<<"self">>, <<"{", "self", "a", "}">>, <<"{", "-", "a", "{", "d", "self", "}", "}">>}}

Statement(source, target, classes, comp, perms) ==
  [source |-> source, target |-> target, classes |-> classes, comp |-> comp, perms |-> perms]
ClassLists == {<<"file">>, <<"none">>} \cup {Braced(<<c, "fd">>) : c \in {"file", "none"}}
         \cup {<<"{", "{", "fd", "}", "file", "}">>}
PermLists  == {<<"*">>, <<"read">>, <<"write">>, <<"{", "read", "use", "}">>, <<"none">>,
               <<"{", "{", "read", "}", "{", "write", "}", "}">>, <<"{", "*", "}">>}

Simple == Statement(One("a"), One("d"), <<"file">>, FALSE, <<"read">>)
Rich   == Statement(Set(TRUE, <<"{", "{", "ab", "d", "}", "-", "a", "}">>),
                    Set(FALSE, <<"{", "*", "-", "none", "}">>), <<"{", "file", "fd", "}">>,
                    TRUE, <<"{", "{", "read", "}", "use", "}">>)

\* the tokens of a statement are all atoms from its keyword on that are no blanks
Places(ls, ss) ==
  LET txt      == Uncommented(ls)
      solid    == SelectSeq([q \in DOMAIN txt |-> q], LAMBDA q : txt[q] \notin Space)
      keywords == SelectSeq([i \in DOMAIN solid |-> i],
                            LAMBDA i : txt[solid[i]] = "neverallow" /\ Alone(txt, solid[i]))
      last(k)  == keywords[k] + Len(Tokens(ss[k])) - 1
  IN  [k \in DOMAIN ss |-> SubSeq(solid, keywords[k], IF last(k) > Len(solid) THEN Len(solid) ELSE last(k))]

File(ls, ss) == [lines |-> ls, statements |-> ss, at |-> Places(ls, ss), torn |-> FALSE]
Written(s, tight) == File(<<Spaced(Tokens(s), tight)>>, <<s>>)

Forms ==
  {Written(s, tight) : tight \in BOOLEAN, s \in
     {Statement(e, One("d"), <<"file">>, FALSE, <<"read">>) : e \in Sources}
     \cup {Statement(One("a"), e, <<"fd">>, FALSE, <<"use">>) : e \in Targets}
     \cup {Statement(One("a"), One("d"), cs, comp, ps) :
             cs \in ClassLists, comp \in BOOLEAN, ps \in PermLists}}

\* a rule on two lines, and with a comment between them
Layouts ==
  LET tokens == Tokens(Rich)
      Upper(i) == Spaced(SubSeq(tokens, 1, i), TRUE)
      Lower(i) == <<" ", " ">> \o Spaced(SubSeq(tokens, i + 1, Len(tokens)), TRUE)
  IN  {File(<<Upper(i) \o note, Lower(i)>>, <<Rich>>) :
         i \in 1 .. Len(tokens) - 1, note \in {<<>>, <<" ", "#", "}", ";", "a">>}}

\* a simple rule, then the beginning of another
Torn ==
  LET l == Spaced(Tokens(Rich), FALSE)
  IN  {[File(<<Spaced(Tokens(Simple), TRUE), SubSeq(l, 1, i)>>, <<Simple, Rich>>)
        EXCEPT !.torn = TRUE] : i \in 1 .. Len(l) - 1}

(***************************************************************************)
(* Lines of a file, with the rules they hold: rules with a blank or a      *)
(* comment behind them, two rules, a rule behind another statement, rules  *)
(* that sepolicy-analyze passes over, other statements, blank lines and    *)
(* comments.                                                               *)
(***************************************************************************)
Line(l, ss) == [lines |-> <<l>>, statements |-> ss]
Other(l)    == Line(l, <<>>)
Mark(m)     == Other(<<"#", " ", m, " ">>)
Short       == Spaced(Tokens(Simple), TRUE)
Long        == Spaced(Tokens(Rich), TRUE)
Pieces ==
  {Line(Short, <<Simple>>), Line(<<" ">> \o Long \o <<" ">>, <<Rich>>),
   Line(Short \o <<" ", "#", " ", "a", ";">>, <<Simple>>),
   Line(Short \o <<" ">> \o Long, <<Simple, Rich>>),
   Line(<<"type", " ", "a", ";", " ">> \o Short, <<Simple>>),
   Line(Short \o Long, <<Simple>>),
   [lines |-> <<Short \o <<"neverallow", " ", "a", "#", ";">>, <<"d", ":", "file", " ", "read", ";">>>>,
    statements |-> <<Simple>>],
   Other(<<"neverallow", "{", "a", "}", "d", ":", "file", " ", "read", ";">>),
   [lines |-> <<<<"neverallow", " ", "a">>, <<"d", ":", "file", " ", "read", ";">>>>, statements |-> <<Simple>>],
   Other(<<"allow", " ", "a", " ", "d", ":", "file", " ", "read", ";">>),
   Other(<<"neverallowxperm", " ", "a", " ", "d", ":", "file", " ", "read", ";">>),
   Other(<<"type", " ", "a", ";", "type", " ", "b", ";">>),
   Other(<<" ">>), Other(<<"#", " ", "a", ";">>)}
Marks == {Mark(m) : m \in {"BEGIN_x", "END_x", "BEGIN_y", "END_y"}}

\* blocks of one name begin and end by turns
WellFormed(ps) ==
  \A x \in {"x", "y"} :
    LET ms == SelectSeq(ps, LAMBDA p : p \in {Mark(MCBegin(x)), Mark(MCEnd(x))})
    IN  \A i \in DOMAIN ms : ms[i] = Mark(IF i % 2 = 1 THEN MCBegin(x) ELSE MCEnd(x))

Joined(ps) == File(FlattenSeq([i \in DOMAIN ps |-> ps[i].lines]), FlattenSeq([i \in DOMAIN ps |-> ps[i].statements]))

Sequences(s, n) == UNION {[1 .. k -> s] : k \in 0 .. n}
Mixed == {Joined(ps) : ps \in Sequences(Pieces, 3)}
Marked ==
  LET some == Marks \cup {Line(Short, <<Simple>>), Line(Long, <<Rich>>),
                          Other(<<"allow", " ", "a", " ", "d", ":", "file", " ", "read", ";">>)}
  IN  {Joined(ps) : ps \in {qs \in Sequences(some, 5) : WellFormed(qs)}}

MCFiles == Forms \cup Layouts \cup Torn \cup Mixed \cup Marked
=============================================================================
