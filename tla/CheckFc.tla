------------------------------ MODULE CheckFc -------------------------------
(***************************************************************************)
(* checkfc (tools/checkfc.c): are the contexts of a contexts file valid in *)
(* a policy and of the attributes that such a file is for (usage 1), how   *)
(* do two files compare (usage 2), does a file give the paths of a test    *)
(* file the types that are expected (usage 3)?                             *)
(*                                                                         *)
(* libselinux reads a contexts file and looks up paths; libsepol holds the *)
(* policy.                                                                 *)
(***************************************************************************)
EXTENDS Naturals, Sequences, SequencesExt

CONSTANTS Attributes(_),   \* CHECK_FC_ASSERT_ATTRS, ... of a mode
          Exempt,          \* hal_power_stats_vendor_service
          Cases            \* what the program may be given: records
                           \*   args    the options, a sequence of letters
                           \*   two     whether there are two other arguments
                           \*   policy  flavor: names to "type" or "attribute";
                           \*           attrs: types to sets of attributes; ok:
                           \*           whether it can be read
                           \*   file    size, ok (readable, no syntax error) and
                           \*           entries: sequence of [paths, static, type]
                           \*   tests   sequence of lines, [path, type], Comment
                           \*           or Garbled

ASSUME CasesAreCases ==
  \A c \in Cases : /\ c.args \in Seq(Range(c.args)) /\ c.tests \in Seq(Range(c.tests))
                   /\ c.file.entries \in Seq(Range(c.file.entries)) /\ c.file.size \in Nat

Comment == [comment |-> TRUE]
Garbled == [garbled |-> TRUE]

VARIABLES
  given,
  i,              \* the option, entry or line that is next
  mode, compare, test, empty,   \* the options
  wrong,          \* non_matching_entries
  hit,            \* the entries that a lookup has found
  pc, status

vars == <<given, i, mode, compare, test, empty, wrong, hit, pc, status>>

Running == 99

Init ==
  /\ given \in Cases
  /\ i = 1 /\ mode = "file" /\ compare = FALSE /\ test = FALSE /\ empty = FALSE
  /\ wrong = FALSE /\ hit = {} /\ pc = "options" /\ status = Running

Exit(n) == pc' = "done" /\ status' = n
Goto(l) == pc' = l /\ i' = 1 /\ UNCHANGED status

-----------------------------------------------------------------------------
ModeOf == [p |-> "property", s |-> "service", l |-> "hwservice", v |-> "vndservice"]

Option ==
  /\ pc = "options" /\ i <= Len(given.args)
  /\ LET c == given.args[i]
     IN  /\ c \in {"c", "e", "t"} \cup DOMAIN ModeOf
         /\ compare' = (compare \/ c = "c") /\ empty' = (empty \/ c = "e")
         /\ test' = (test \/ c = "t")
         /\ mode' = IF c \in DOMAIN ModeOf THEN ModeOf[c] ELSE mode
  /\ i' = i + 1
  /\ UNCHANGED <<given, wrong, hit, pc, status>>

\* the two functions that have nothing to do with a policy are for file_contexts
Usage == \/ i <= Len(given.args) /\ given.args[i] \notin {"c", "e", "t"} \cup DOMAIN ModeOf
         \/ i > Len(given.args) /\ (~given.two \/ ((compare \/ test) /\ mode # "file"))

ShowUsage ==
  /\ pc = "options" /\ Usage
  /\ Exit(1)
  /\ UNCHANGED <<given, i, mode, compare, test, empty, wrong, hit>>

Dispatch ==
  /\ pc = "options" /\ i > Len(given.args) /\ ~Usage
  /\ Goto(IF compare THEN "compare" ELSE IF test THEN "opentest" ELSE "stat")
  /\ UNCHANGED <<given, mode, compare, test, empty, wrong, hit>>

Quiet == UNCHANGED <<given, mode, compare, test, empty>>

\* do_compare_and_die_on_error; what it prints comes from libselinux
Compare ==
  /\ pc = "compare"
  /\ Exit(IF given.file.ok THEN 0 ELSE 1)
  /\ Quiet /\ UNCHANGED <<i, wrong, hit>>

-----------------------------------------------------------------------------
(***************************************************************************)
(* do_fc_check_and_die_on_error                                            *)
(***************************************************************************)
Stat ==
  /\ pc = "stat"
  /\ IF given.file.size = 0 /\ empty THEN Exit(0) /\ UNCHANGED i ELSE Goto("policy")
  /\ Quiet /\ UNCHANGED <<wrong, hit>>

Names   == DOMAIN given.policy.flavor
IsType(n) == n \in Names /\ given.policy.flavor[n] = "type"

\* ebitmap_attribute_assertion_init
AttributesThere == \A a \in Attributes(mode) : a \in Names /\ given.policy.flavor[a] = "attribute"

ReadPolicy ==
  /\ pc = "policy"
  /\ IF given.policy.ok /\ AttributesThere THEN Goto("entries") ELSE Exit(1) /\ UNCHANGED i
  /\ Quiet /\ UNCHANGED <<wrong, hit>>

\* is_type_of_attribute_set: one of them is enough
OfAll(t)          == Attributes(mode) \subseteq given.policy.attrs[t]     \* (mutant) all of them
OfAttributeSet(t) == Attributes(mode) \cap given.policy.attrs[t] # {}

Validate(t) == IsType(t) /\ (t = Exempt \/ OfAttributeSet(t))

\* selabel_open calls validate for each entry
ValidateEntry ==
  /\ pc = "entries" /\ given.file.ok /\ i <= Len(given.file.entries)
  /\ IF Validate(given.file.entries[i].type)
       THEN i' = i + 1 /\ UNCHANGED <<pc, status>> ELSE Exit(1) /\ UNCHANGED i
  /\ Quiet /\ UNCHANGED <<wrong, hit>>

\* the backend refuses a file that has nothing in it
Opened ==
  /\ pc = "entries" /\ (given.file.ok => i > Len(given.file.entries))
  /\ Exit(IF given.file.ok /\ given.file.size > 0 THEN 0 ELSE 1)
  /\ Quiet /\ UNCHANGED <<i, wrong, hit>>

-----------------------------------------------------------------------------
(***************************************************************************)
(* do_test_data_and_die_on_error                                           *)
(***************************************************************************)
OpenTest ==
  /\ pc = "opentest"
  /\ IF given.file.ok /\ given.file.size > 0 THEN Goto("tests") ELSE Exit(1) /\ UNCHANGED i
  /\ Quiet /\ UNCHANGED <<wrong, hit>>

\* selabel_lookup: entries that are no regular expressions come first, and of
\* entries that are alike the last one is used
Matching(path)   == {k \in DOMAIN given.file.entries : path \in given.file.entries[k].paths}
Static(ks)       == {k \in ks : given.file.entries[k].static}
Lookup(path)     == LET m == Matching(path)
                        s == IF Static(m) # {} THEN Static(m) ELSE m
                    IN  CHOOSE k \in s : \A j \in s : j <= k

SkipLine ==
  /\ pc = "tests" /\ i <= Len(given.tests) /\ given.tests[i] = Comment
  /\ i' = i + 1
  /\ Quiet /\ UNCHANGED <<wrong, hit, pc, status>>

IsTest(line) == line \notin {Comment, Garbled}

Unusable ==
  /\ pc = "tests" /\ i <= Len(given.tests) /\ given.tests[i] # Comment
  /\ IsTest(given.tests[i]) => Matching(given.tests[i].path) = {}
  /\ Exit(1)
  /\ Quiet /\ UNCHANGED <<i, wrong, hit>>

WrongEver(mismatch) == wrong \/ mismatch

TestLine ==
  /\ pc = "tests" /\ i <= Len(given.tests) /\ IsTest(given.tests[i])
  /\ Matching(given.tests[i].path) # {}
  /\ LET k == Lookup(given.tests[i].path)
     IN  /\ hit' = hit \cup {k}
         /\ wrong' = WrongEver(given.file.entries[k].type # given.tests[i].type)
  /\ i' = i + 1
  /\ Quiet /\ UNCHANGED <<pc, status>>

\* selabel_stats warns of the entries that were never found
Warnings == DOMAIN given.file.entries \ hit

\* (mutant) coverage is looked at first
StatusCoverage == IF Warnings # {} THEN 2 ELSE IF wrong THEN 1 ELSE 0
TestStatus     == IF wrong THEN 1 ELSE IF Warnings # {} THEN 2 ELSE 0

EndOfTests ==
  /\ pc = "tests" /\ i > Len(given.tests)
  /\ Exit(TestStatus)
  /\ Quiet /\ UNCHANGED <<i, wrong, hit>>

Next == \/ Option \/ ShowUsage \/ Dispatch \/ Compare
        \/ Stat \/ ReadPolicy \/ ValidateEntry \/ Opened
        \/ OpenTest \/ SkipLine \/ Unusable \/ TestLine \/ EndOfTests
Spec == Init /\ [][Next]_vars

-----------------------------------------------------------------------------
Modes == {"file"} \cup Range(ModeOf)

TypeOK ==
  /\ i \in Nat \ {0} /\ mode \in Modes
  /\ compare \in BOOLEAN /\ test \in BOOLEAN /\ empty \in BOOLEAN /\ wrong \in BOOLEAN
  /\ hit \subseteq DOMAIN given.file.entries /\ status \in {Running, 0, 1, 2}
  /\ pc = "done" <=> status # Running

\* What the options ask for: the last mode is the one that counts, and comparing
\* comes before testing, in whatever order they are given.
ModeOptions == {k \in DOMAIN given.args : given.args[k] \in DOMAIN ModeOf}
LastOf(ks)  == CHOOSE k \in ks : \A j \in ks : j <= k
LastMode    == IF ModeOptions = {} THEN "file" ELSE ModeOf[given.args[LastOf(ModeOptions)]]
Asked(c) == c \in Range(given.args)
Checks   == given.two /\ ~Asked("c") /\ ~Asked("t")
Tests    == given.two /\ ~Asked("c") /\ Asked("t")

\* A file is accepted exactly if the policy knows all its types and each of them
\* is of an attribute that the mode asks for (one type is exempt), wherever the
\* entry stands; or if it is empty and may be.
AcceptedRight ==
  pc = "done" /\ Checks /\ Range(given.args) \subseteq {"e"} \cup DOMAIN ModeOf =>
    ( status = 0 <=>
        IF given.file.size = 0 THEN Asked("e")
        ELSE /\ given.file.ok /\ given.policy.ok
             /\ \A a \in Attributes(LastMode) : a \in Names /\ given.policy.flavor[a] = "attribute"
             /\ \A e \in Range(given.file.entries) :
                  /\ e.type \in Names /\ given.policy.flavor[e.type] = "type"
                  /\ \/ e.type = Exempt
                     \/ \E a \in Attributes(LastMode) : a \in given.policy.attrs[e.type] )

\* The status that testAospFileContexts may ignore says that every test line was
\* right: it never hides a wrong type behind missing tests.
TwoMeansRight ==
  status = 2 =>
    /\ Tests /\ \A line \in Range(given.tests) : IsTest(line) =>
                  /\ Matching(line.path) # {}
                  /\ given.file.entries[Lookup(line.path)].type = line.type
    /\ Warnings # {}
=============================================================================
