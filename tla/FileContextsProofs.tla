------------------------- MODULE FileContextsProofs -------------------------
(***************************************************************************)
(* For all options, files, policies and test files: which files checkfc    *)
(* accepts, and what its exit status 2 can be relied on for.  For all      *)
(* sources of the partitions and all regular expressions: what is in       *)
(* file_contexts.bin, which of its lines labels a path, and what a test    *)
(* that passes means for these labels.                                     *)
(*                                                                         *)
(* The first part is about checkfc, the second about fc_sort, the third    *)
(* about the lines that an output is made of, the fourth about the build,  *)
(* the fifth about file_contexts.bin, and the last about sepolicy_test.    *)
(***************************************************************************)
EXTENDS PathTests, FiniteSetTheorems, SequenceTheorems, TLAPS

-----------------------------------------------------------------------------
(***************************************************************************)
(* checkfc.                                                                *)
(***************************************************************************)
\* The flags are those of the options read so far, and testing begins with all of
\* them read; of the lines that have been tested none was wrong, if wrong says so.
AskedBefore(c) == \E k \in 1 .. i - 1 : k \in DOMAIN given.args /\ given.args[k] = c
OptionsRead == pc = "options" => /\ compare <=> AskedBefore("c")
                                 /\ test <=> AskedBefore("t")
ForTests    == pc \in {"opentest", "tests"} => Tests
LineRight(line) == IsTest(line) => /\ Matching(line.path) # {}
                                   /\ given.file.entries[Lookup(line.path)].type = line.type
LinesRight  == pc = "tests" /\ ~wrong =>
                 \A k \in 1 .. i - 1 : k \in DOMAIN given.tests => LineRight(given.tests[k])
\* What the program is given, by its options and files or by a rule of the build.
IsCase(c) == /\ c.args \in Seq(Range(c.args)) /\ c.tests \in Seq(Range(c.tests))
             /\ c.file.entries \in Seq(Range(c.file.entries)) /\ c.file.size \in Nat
Begin == /\ IsCase(given)
         /\ i = 1 /\ mode = "file" /\ compare = FALSE /\ test = FALSE /\ empty = FALSE
         /\ wrong = FALSE /\ hit = {} /\ pc = "options" /\ status = Running

Typed == /\ IsCase(given) /\ i \in Nat \ {0} /\ wrong \in BOOLEAN
         /\ compare \in BOOLEAN /\ test \in BOOLEAN
Open  == pc # "done" => status = Running
IInv  == Typed /\ Open /\ OptionsRead /\ ForTests /\ LinesRight /\ TwoMeansRight

-----------------------------------------------------------------------------
\* What has been seen before position n, n being behind the end, is the sequence.
LEMMA AllRead ==
  ASSUME NEW S, NEW s \in Seq(S), NEW n \in Nat, n > Len(s)
  PROVE  /\ DOMAIN s \subseteq 1 .. n - 1
         /\ \A c : (\E k \in 1 .. n - 1 : k \in DOMAIN s /\ s[k] = c) <=> c \in Range(s)
<1>1. DOMAIN s = 1 .. Len(s) /\ Len(s) \in Nat
  OBVIOUS
<1>2. DOMAIN s \subseteq 1 .. n - 1
  BY <1>1
<1> QED
  BY <1>2, Zenon DEF Range

\* Whether a line of tests is right depends on what the program is given alone.
LEMMA SameLine ==
  ASSUME given' = given, NEW line
  PROVE  LineRight(line)' <=> LineRight(line)
<1>1. Matching(line.path)' = Matching(line.path)
  BY DEF Matching
<1>2. Static(Matching(line.path))' = Static(Matching(line.path))
  BY <1>1 DEF Static
<1>3. Lookup(line.path)' = Lookup(line.path)
  BY <1>1, <1>2 DEF Lookup
<1> QED
  BY <1>1, <1>3 DEF LineRight

\* Nor does it change what is asked for.
LEMMA SameTests == ASSUME given' = given PROVE Tests' <=> Tests
BY DEF Tests, Asked

\* Initially no option is read.
LEMMA InitBegins == Init => Begin
BY CasesAreCases DEF Init, Begin, IsCase

\* When it begins no option is read.
LEMMA InitInv == Begin => IInv
<1> SUFFICES ASSUME Begin PROVE IInv
  OBVIOUS
<1>1. /\ IsCase(given) /\ i = 1 /\ compare = FALSE /\ test = FALSE /\ wrong = FALSE
      /\ pc = "options" /\ status = Running
  BY DEF Begin
<1>2. ~AskedBefore("c") /\ ~AskedBefore("t")
  BY <1>1 DEF AskedBefore
<1>3. OptionsRead
  BY <1>1, <1>2, Zenon DEF OptionsRead
<1>4. Typed
  <2>1. i \in Nat \ {0}
    BY <1>1
  <2> QED
    BY <1>1, <2>1, Zenon DEF Typed
<1>5. Open /\ ForTests /\ LinesRight /\ TwoMeansRight
  BY <1>1 DEF Open, ForTests, LinesRight, TwoMeansRight, Running
<1> QED
  BY <1>3, <1>4, <1>5 DEF IInv

\* A step that ends the program with another status, or goes on to a phase that is
\* neither of the options nor of the tests, has nothing to show.
LEMMA OtherStep ==
  ASSUME IInv, given' = given, i' \in Nat \ {0}, wrong' = wrong,
         compare' = compare, test' = test, pc' \notin {"options", "opentest", "tests"},
         status' # 2, pc' # "done" => status' = Running
  PROVE  IInv'
BY DEF IInv, Typed, Open, OptionsRead, ForTests, LinesRight, TwoMeansRight

\* Every step keeps the invariant.
LEMMA StepInv == IInv /\ [Next]_vars => IInv'
<1> SUFFICES ASSUME IInv, [Next]_vars PROVE IInv'
  OBVIOUS
<1> USE DEF IInv, Quiet
<1>a. /\ given.args \in Seq(Range(given.args)) /\ given.tests \in Seq(Range(given.tests))
      /\ DOMAIN given.args = 1 .. Len(given.args) /\ DOMAIN given.tests = 1 .. Len(given.tests)
  BY DEF Typed, IsCase
<1>r. pc # "done" => status = Running /\ status # 2
  BY DEF Open, Running
<1>1. CASE Option
  <2>1. /\ pc = "options" /\ pc' = "options" /\ given' = given /\ i' = i + 1
        /\ i \in DOMAIN given.args /\ wrong' = wrong /\ status' = status
    BY <1>1, <1>a DEF Option, Typed
  <2>2. /\ compare' <=> (compare \/ given.args[i] = "c")
        /\ test' <=> (test \/ given.args[i] = "t")
        /\ compare' \in BOOLEAN /\ test' \in BOOLEAN
    BY <1>1 DEF Option
  <2>3. \A c : AskedBefore(c)' <=> AskedBefore(c) \/ given.args[i] = c
    BY <2>1 DEF AskedBefore, Typed
  <2>4. OptionsRead'
    BY <2>1, <2>2, <2>3 DEF OptionsRead
  <2> QED
    BY <2>1, <2>2, <2>4, <1>r DEF Typed, Open, ForTests, LinesRight, TwoMeansRight
<1>2. CASE ShowUsage
  BY <1>2, OtherStep DEF ShowUsage, Exit, Typed
<1>3. CASE Dispatch
  <2>1. /\ given' = given /\ i' = 1 /\ wrong' = wrong /\ compare' = compare /\ test' = test
        /\ status' = status /\ pc = "options" /\ i > Len(given.args)
        /\ pc' = IF compare THEN "compare" ELSE IF test THEN "opentest" ELSE "stat"
    BY <1>3 DEF Dispatch, Goto, Usage
  <2>2. (compare <=> Asked("c")) /\ (test <=> Asked("t"))
    <3>1. i \in Nat
      BY DEF Typed
    <3>2. \A c : AskedBefore(c) <=> Asked(c)
      BY <2>1, <3>1, <1>a, AllRead DEF AskedBefore, Asked
    <3>3. (compare <=> AskedBefore("c")) /\ (test <=> AskedBefore("t"))
      BY <2>1, Zenon DEF OptionsRead
    <3>4. (AskedBefore("c") <=> Asked("c")) /\ (AskedBefore("t") <=> Asked("t"))
      BY <3>2, Zenon
    <3> QED
      BY <3>3, <3>4, Zenon
  <2>3. given.two
    BY <1>3, Zenon DEF Dispatch, Usage
  <2>4. ForTests'
    <3>1. pc' \in {"opentest", "tests"} => ~compare /\ test
      BY <2>1
    <3>2. pc' \in {"opentest", "tests"} => Tests
      BY <2>2, <2>3, <3>1, Zenon DEF Tests
    <3> QED
      BY <2>1, <3>2, SameTests DEF ForTests
  <2> QED
    BY <2>1, <2>4, <1>r DEF Typed, Open, OptionsRead, LinesRight, TwoMeansRight
<1>4. CASE Compare \/ Stat \/ ReadPolicy \/ ValidateEntry \/ Opened
  <2>1. /\ pc \in {"compare", "stat", "policy", "entries"}
        /\ given' = given /\ wrong' = wrong /\ compare' = compare /\ test' = test
        /\ i' \in {1, i, i + 1}
        /\ \/ pc' = "done" /\ status' \in {0, 1}
           \/ pc' \in {"policy", "entries"} /\ status' = status
    BY <1>4 DEF Compare, Stat, ReadPolicy, ValidateEntry, Opened, Exit, Goto
  <2> QED
    BY <2>1, <1>r, OtherStep DEF Typed
<1>5. CASE OpenTest
  <2>1. /\ pc = "opentest" /\ given' = given /\ wrong' = wrong
        /\ compare' = compare /\ test' = test
        /\ \/ pc' = "done" /\ status' = 1 /\ i' = i
           \/ pc' = "tests" /\ status' = status /\ i' = 1
    BY <1>5 DEF OpenTest, Exit, Goto
  <2> QED
    BY <2>1, <1>r, SameTests DEF Typed, Open, OptionsRead, ForTests, LinesRight, TwoMeansRight
<1>6. CASE SkipLine \/ TestLine
  <2>1. /\ pc = "tests" /\ pc' = "tests" /\ given' = given /\ i' = i + 1
        /\ compare' = compare /\ test' = test /\ status' = status
        /\ i \in DOMAIN given.tests
    BY <1>6, <1>a DEF SkipLine, TestLine, Typed
  <2>2. wrong' \in BOOLEAN /\ (~wrong' => ~wrong /\ LineRight(given.tests[i]))
    <3>1. CASE SkipLine
      BY <3>1 DEF SkipLine, LineRight, IsTest, Typed
    <3>2. CASE TestLine
      BY <3>2 DEF TestLine, WrongEver, LineRight, Typed
    <3> QED
      BY <1>6, <3>1, <3>2
  <2>3. LinesRight'
    BY <2>1, <2>2, SameLine DEF LinesRight, Typed
  <2> QED
    BY <2>1, <2>2, <2>3, <1>r, SameTests DEF Typed, Open, OptionsRead, ForTests, TwoMeansRight
<1>7. CASE Unusable
  BY <1>7, OtherStep DEF Unusable, Exit, Typed
<1>8. CASE EndOfTests
  <2>1. /\ pc = "tests" /\ i > Len(given.tests) /\ pc' = "done" /\ status' = TestStatus
        /\ given' = given /\ i' = i /\ wrong' = wrong /\ hit' = hit
        /\ compare' = compare /\ test' = test
    BY <1>8 DEF EndOfTests, Exit
  <2>2. CASE status' # 2
    BY <2>1, <2>2, OtherStep DEF Typed
  <2>3. CASE status' = 2
    <3>1. ~wrong /\ Warnings # {}
      BY <2>1, <2>3 DEF TestStatus
    <3>2. \A line \in Range(given.tests) : LineRight(line)
      <4>1. \A k \in DOMAIN given.tests : LineRight(given.tests[k])
        BY <2>1, <3>1, <1>a, AllRead DEF LinesRight, Typed
      <4> QED
        BY <4>1 DEF Range
    <3>3. TwoMeansRight'
      <4>1. (\A line \in Range(given.tests) : LineRight(line))'
        BY <2>1, <3>2, SameLine
      <4>2. (Warnings # {})'
        BY <2>1, <3>1 DEF Warnings
      <4>3. Tests'
        BY <2>1, SameTests DEF ForTests
      <4> QED
        BY <4>1, <4>2, <4>3 DEF TwoMeansRight, LineRight
    <3> QED
      BY <2>1, <3>3 DEF Typed, Open, OptionsRead, ForTests, LinesRight
  <2> QED
    BY <2>2, <2>3
<1>9. CASE UNCHANGED vars
  <2>1. /\ given' = given /\ i' = i /\ compare' = compare /\ test' = test /\ wrong' = wrong
        /\ hit' = hit /\ pc' = pc /\ status' = status
    BY <1>9 DEF vars
  <2>2. OptionsRead'
    BY <2>1 DEF OptionsRead, AskedBefore
  <2>3. LinesRight'
    BY <2>1, SameLine DEF LinesRight
  <2>4. TwoMeansRight'
    <3>1. (\A line \in Range(given.tests) : LineRight(line))' <=>
          (\A line \in Range(given.tests) : LineRight(line))
      BY <2>1, SameLine
    <3> QED
      BY <2>1, <3>1, SameTests DEF TwoMeansRight, LineRight, Warnings
  <2> QED
    BY <2>1, <2>2, <2>3, <2>4, SameTests DEF Typed, Open, ForTests
<1> QED
  BY <1>1, <1>2, <1>3, <1>4, <1>5, <1>6, <1>7, <1>8, <1>9 DEF Next

-----------------------------------------------------------------------------
\* When checkfc exits with 2, which testAospFileContexts takes for a success with a
\* warning, every path of the test file has the type that is expected of it.
THEOREM TwoIsRight == Spec => []TwoMeansRight
<1>1. IInv => TwoMeansRight
  BY DEF IInv
<1> QED
  BY InitBegins, InitInv, StepInv, <1>1, PTL DEF Spec

-----------------------------------------------------------------------------
(***************************************************************************)
(* Accepting.                                                              *)
(***************************************************************************)
\* While options are read, mode is that of the last one before i that is one of a
\* mode; a check has begun with all options read, and has come to its entries with a
\* policy that it can use and a file that is not excused.
ModesBefore == {k \in ModeOptions : k < i}
ModeRead    == \/ ModesBefore = {} /\ mode = "file"
               \/ ModesBefore # {} /\ mode = ModeOf[given.args[LastOf(ModesBefore)]]
FlagsRead   == pc = "options" => ModeRead /\ (empty <=> AskedBefore("e"))
ForComparing == pc = "compare" => Asked("c")
ForChecking == pc \in {"stat", "policy", "entries"} => mode = LastMode /\ (empty <=> Asked("e"))
NotExcused  == pc \in {"policy", "entries"} => ~(given.file.size = 0 /\ empty)
EntriesRight ==
  pc = "entries" =>
    /\ given.policy.ok /\ AttributesThere
    /\ \A k \in 1 .. i - 1 : k \in DOMAIN given.file.entries =>
                               Validate(given.file.entries[k].type)
AInv == FlagsRead /\ ForComparing /\ ForChecking /\ NotExcused /\ EntriesRight /\ AcceptedRight

\* When it begins there is no option that says what is asked for.
LEMMA AInit == Begin => AInv
<1> SUFFICES ASSUME Begin PROVE AInv
  OBVIOUS
<1>1. i = 1 /\ mode = "file" /\ empty = FALSE /\ pc = "options"
  BY DEF Begin
<1>2. ~AskedBefore("e")
  BY <1>1 DEF AskedBefore
<1>3. ModesBefore = {}
  <2>1. IsCase(given)
    BY DEF Begin
  <2>2. DOMAIN given.args = 1 .. Len(given.args)
    BY <2>1 DEF IsCase
  <2> QED
    BY <1>1, <2>2 DEF ModesBefore, ModeOptions
<1>4. FlagsRead
  BY <1>1, <1>2, <1>3, Zenon DEF FlagsRead, ModeRead
<1> QED
  BY <1>1, <1>4 DEF AInv, ForComparing, ForChecking, NotExcused, EntriesRight, AcceptedRight

\* The last of some positions and one behind them is that one.
LEMMA LastIsNew ==
  ASSUME NEW ks \in SUBSET Nat, NEW n \in Nat, \A k \in ks : k < n
  PROVE  LastOf(ks \cup {n}) = n
<1>1. \A j \in ks \cup {n} : j <= n
  OBVIOUS
<1>2. \A k \in ks \cup {n} : (\A j \in ks \cup {n} : j <= k) => k = n
  OBVIOUS
<1> QED
  BY <1>1, <1>2 DEF LastOf

\* A step to somewhere outside of a check has nothing to show.
LEMMA Elsewhere ==
  ASSUME given' = given, AInv, pc' \notin {"options", "compare", "stat", "policy", "entries"},
         pc' = "done" => AcceptedRight'
  PROVE  AInv'
<1>1. AcceptedRight'
  BY DEF AcceptedRight
<1> QED
  BY <1>1 DEF AInv, FlagsRead, ForComparing, ForChecking, NotExcused, EntriesRight

\* What is asked for depends on what the program is given alone.
LEMMA SameGiven ==
  ASSUME given' = given
  PROVE  /\ LastMode' = LastMode /\ ModeOptions' = ModeOptions
         /\ (Checks' <=> Checks) /\ (Tests' <=> Tests)
         /\ \A c : Asked(c)' <=> Asked(c)
<1>1. ModeOptions' = ModeOptions
  BY DEF ModeOptions
<1>2. LastMode' = LastMode
  BY <1>1 DEF LastMode
<1> QED
  BY <1>1, <1>2 DEF Checks, Tests, Asked

\* An option is added to those that are read.
LEMMA OptionKeeps == IInv /\ AInv /\ Option => AInv'
<1> SUFFICES ASSUME IInv, AInv, Option PROVE AInv'
  OBVIOUS
<1>1. /\ pc = "options" /\ pc' = "options" /\ given' = given /\ i' = i + 1
      /\ IsCase(given) /\ i \in Nat \ {0} /\ i <= Len(given.args)
      /\ mode' = (IF given.args[i] \in DOMAIN ModeOf THEN ModeOf[given.args[i]] ELSE mode)
      /\ empty' = (empty \/ given.args[i] = "e")
  BY DEF Option, IInv, Typed
<1>2. DOMAIN given.args = 1 .. Len(given.args) /\ i \in DOMAIN given.args
  BY <1>1 DEF IsCase
<1>3. ModeOptions' = ModeOptions
  BY <1>1, SameGiven
<1>4. ModesBefore' = IF given.args[i] \in DOMAIN ModeOf THEN ModesBefore \cup {i}
                                                         ELSE ModesBefore
  BY <1>1, <1>2, <1>3 DEF ModesBefore, ModeOptions
<1>5. ModesBefore \in SUBSET Nat /\ \A k \in ModesBefore : k < i
  BY <1>2 DEF ModesBefore, ModeOptions
<1>6. ModeRead'
  <2>1. CASE given.args[i] \in DOMAIN ModeOf
    <3>1. LastOf(ModesBefore') = i
      BY <1>1, <1>4, <1>5, <2>1, LastIsNew
    <3> QED
      BY <1>1, <1>4, <2>1, <3>1 DEF ModeRead
  <2>2. CASE given.args[i] \notin DOMAIN ModeOf
    <3>1. ModesBefore' = ModesBefore /\ mode' = mode
      BY <1>1, <1>4, <2>2
    <3>2. ModeRead
      BY <1>1 DEF AInv, FlagsRead
    <3> QED
      BY <1>1, <3>1, <3>2 DEF ModeRead
  <2> QED
    BY <2>1, <2>2
<1>7. AskedBefore("e")' <=> (AskedBefore("e") \/ given.args[i] = "e")
  BY <1>1, <1>2 DEF AskedBefore
<1>8. (empty <=> AskedBefore("e")) /\ (empty' <=> (empty \/ given.args[i] = "e"))
  BY <1>1, Zenon DEF AInv, FlagsRead
<1>9. empty' <=> AskedBefore("e")'
  BY <1>7, <1>8, Zenon
<1>10. FlagsRead'
  BY <1>6, <1>9, Zenon DEF FlagsRead
<1> QED
  BY <1>1, <1>10 DEF AInv, ForComparing, ForChecking, NotExcused, EntriesRight, AcceptedRight

\* With all options read, the flags are those that are asked for.
LEMMA FlagsAreAsked ==
  ASSUME IInv, AInv, pc = "options", i > Len(given.args)
  PROVE  /\ mode = LastMode /\ (empty <=> Asked("e"))
         /\ (compare <=> Asked("c")) /\ (test <=> Asked("t"))
<1>1. /\ given.args \in Seq(Range(given.args)) /\ i \in Nat
      /\ DOMAIN given.args = 1 .. Len(given.args)
  BY DEF IInv, Typed, IsCase
<1>2. \A c : AskedBefore(c) <=> Asked(c)
  BY <1>1, AllRead DEF AskedBefore, Asked
<1>3. ModesBefore = ModeOptions
  BY <1>1 DEF ModesBefore, ModeOptions
<1>4. ModeRead /\ (empty <=> AskedBefore("e"))
  BY Zenon DEF AInv, FlagsRead
<1>5. mode = LastMode
  BY <1>3, <1>4 DEF ModeRead, LastMode
<1>6. (compare <=> AskedBefore("c")) /\ (test <=> AskedBefore("t"))
  BY Zenon DEF IInv, OptionsRead
<1> QED
  BY <1>2, <1>4, <1>5, <1>6, Zenon

\* Options that are refused are not those of a check.
LEMMA UsageKeeps == IInv /\ AInv /\ ShowUsage => AInv'
<1> SUFFICES ASSUME IInv, AInv, ShowUsage PROVE AInv'
  OBVIOUS
<1>1. given' = given /\ pc' = "done" /\ pc = "options" /\ Usage
  BY DEF ShowUsage, Exit
<1>2. /\ given.args \in Seq(Range(given.args)) /\ i \in Nat \ {0}
      /\ DOMAIN given.args = 1 .. Len(given.args)
  BY DEF IInv, Typed, IsCase
<1>3. ~(Checks /\ Range(given.args) \subseteq {"e"} \cup DOMAIN ModeOf)
  <2>1. CASE i <= Len(given.args) /\ given.args[i] \notin {"c", "e", "t"} \cup DOMAIN ModeOf
    <3>1. given.args[i] \in Range(given.args)
      BY <1>2, <2>1 DEF Range
    <3> QED
      BY <2>1, <3>1
  <2>2. CASE i > Len(given.args) /\ (~given.two \/ ((compare \/ test) /\ mode # "file"))
    <3>1. (compare <=> Asked("c")) /\ (test <=> Asked("t"))
      BY <1>1, <2>2, FlagsAreAsked
    <3> QED
      BY <2>2, <3>1, Zenon DEF Checks
  <2> QED
    BY <1>1, <2>1, <2>2 DEF Usage
<1>4. ~(Checks' /\ Range(given.args)' \subseteq {"e"} \cup DOMAIN ModeOf)
  BY <1>1, <1>3, SameGiven
<1>5. AcceptedRight'
  BY <1>1, <1>4 DEF AcceptedRight
<1> QED
  BY <1>1, <1>5, Elsewhere

\* With all options read, the usage is the one that is asked for.
LEMMA DispatchKeeps == IInv /\ AInv /\ Dispatch => AInv'
<1> SUFFICES ASSUME IInv, AInv, Dispatch PROVE AInv'
  OBVIOUS
<1>1. /\ given' = given /\ mode' = mode /\ empty' = empty /\ pc = "options"
      /\ i > Len(given.args)
      /\ pc' = IF compare THEN "compare" ELSE IF test THEN "opentest" ELSE "stat"
  BY DEF Dispatch, Goto
<1>2. mode = LastMode /\ (empty <=> Asked("e")) /\ (compare <=> Asked("c"))
  BY <1>1, FlagsAreAsked
<1>3. pc' = "compare" => compare
  BY <1>1
<1>4. pc' = "compare" => Asked("c")'
  BY <1>1, <1>2, <1>3, SameGiven, Zenon
<1>5. mode' = LastMode' /\ (empty' <=> Asked("e")')
  BY <1>1, <1>2, SameGiven
<1> QED
  BY <1>1, <1>4, <1>5
     DEF AInv, FlagsRead, ForComparing, ForChecking, NotExcused, EntriesRight, AcceptedRight

\* What is compared or tested is not checked.
LEMMA NotACheck ==
  ASSUME AInv, given' = given, ~Checks,
         pc' \notin {"options", "compare", "stat", "policy", "entries"}
  PROVE  AInv'
<1>1. ~Checks'
  BY SameGiven
<1>2. AcceptedRight'
  BY <1>1, Zenon DEF AcceptedRight
<1> QED
  BY <1>2, Elsewhere

\* AcceptedRight in terms of the functions of the program.
Acceptable ==
  IF given.file.size = 0 THEN Asked("e")
  ELSE /\ given.file.ok /\ given.policy.ok /\ AttributesThere
       /\ \A k \in DOMAIN given.file.entries : Validate(given.file.entries[k].type)

\* A verdict that is right in terms of the functions is right.
LEMMA InOtherWords ==
  ASSUME given' = given, mode = LastMode, (status' = 0) <=> Acceptable
  PROVE  AcceptedRight'
<1>1. LastMode' = mode /\ Asked("e")' = Asked("e") /\ Names' = Names
  BY SameGiven DEF Names, Asked
<1>2. (\A k \in DOMAIN given.file.entries : Validate(given.file.entries[k].type)) <=>
      (\A e \in Range(given.file.entries) :
         /\ e.type \in Names /\ given.policy.flavor[e.type] = "type"
         /\ (e.type = Exempt \/ \E a \in Attributes(mode) : a \in given.policy.attrs[e.type]))
  BY DEF Validate, IsType, OfAttributeSet, Range
<1> QED
  BY <1>1, <1>2 DEF AcceptedRight, Acceptable, AttributesThere

\* The steps of a check.
LEMMA CheckKeeps == IInv /\ AInv /\ (Stat \/ ReadPolicy \/ ValidateEntry \/ Opened) => AInv'
<1> SUFFICES ASSUME IInv, AInv, Stat \/ ReadPolicy \/ ValidateEntry \/ Opened PROVE AInv'
  OBVIOUS
<1>1. /\ given' = given /\ mode' = mode /\ empty' = empty
      /\ pc \in {"stat", "policy", "entries"} /\ pc' \in {"policy", "entries", "done"}
  BY DEF Stat, ReadPolicy, ValidateEntry, Opened, Quiet, Exit, Goto
<1>2. mode = LastMode /\ (empty <=> Asked("e"))
  BY <1>1, Zenon DEF AInv, ForChecking
<1>3. IsCase(given) /\ i \in Nat \ {0}
  BY DEF IInv, Typed
<1>4. /\ DOMAIN given.file.entries = 1 .. Len(given.file.entries)
      /\ given.file.size \in Nat /\ Len(given.file.entries) \in Nat
  BY <1>3 DEF IsCase
<1>5. (AttributesThere' <=> AttributesThere) /\ \A t : Validate(t)' <=> Validate(t)
  BY <1>1 DEF AttributesThere, Validate, IsType, OfAttributeSet, Names
<1>6. ForChecking'
  BY <1>1, <1>2, SameGiven DEF ForChecking
<1>7. ASSUME pc' = "done", (status' = 0) <=> Acceptable PROVE AInv'
  BY <1>1, <1>2, <1>7, InOtherWords, Elsewhere
<1>8. ASSUME pc' # "done", NotExcused', EntriesRight' PROVE AInv'
  BY <1>1, <1>6, <1>8 DEF AInv, FlagsRead, ForComparing, AcceptedRight
<1>9. CASE Stat
  <2>1. CASE given.file.size = 0 /\ empty
    <3>1. pc' = "done" /\ status' = 0 /\ Acceptable
      BY <1>2, <1>9, <2>1 DEF Stat, Exit, Acceptable
    <3> QED
      BY <1>7, <3>1
  <2>2. CASE ~(given.file.size = 0 /\ empty)
    <3>1. pc' = "policy"
      BY <1>9, <2>2 DEF Stat, Goto
    <3> QED
      BY <1>1, <1>8, <2>2, <3>1 DEF NotExcused, EntriesRight
  <2> QED
    BY <2>1, <2>2
<1>10. CASE ReadPolicy
  <2>0. ~(given.file.size = 0 /\ empty)
    BY <1>10 DEF AInv, NotExcused, ReadPolicy
  <2>1. CASE given.policy.ok /\ AttributesThere
    <3>1. pc' = "entries" /\ i' = 1
      BY <1>10, <2>1 DEF ReadPolicy, Goto
    <3> QED
      BY <1>1, <1>5, <1>8, <2>0, <2>1, <3>1 DEF NotExcused, EntriesRight
  <2>2. CASE ~(given.policy.ok /\ AttributesThere)
    <3>1. pc' = "done" /\ status' = 1
      BY <1>10, <2>2 DEF ReadPolicy, Exit
    <3>2. ~Acceptable
      BY <1>2, <2>0, <2>2 DEF Acceptable
    <3> QED
      BY <1>7, <3>1, <3>2
  <2> QED
    BY <2>1, <2>2
<1>11. CASE ValidateEntry
  <2>0. /\ ~(given.file.size = 0 /\ empty) /\ EntriesRight /\ pc = "entries"
        /\ i \in DOMAIN given.file.entries
    BY <1>3, <1>4, <1>11 DEF AInv, NotExcused, ValidateEntry
  <2>1. CASE Validate(given.file.entries[i].type)
    <3>1. pc' = "entries" /\ i' = i + 1
      BY <1>11, <2>0, <2>1 DEF ValidateEntry
    <3>2. EntriesRight'
      BY <1>1, <1>3, <1>5, <2>0, <2>1, <3>1 DEF EntriesRight
    <3> QED
      BY <1>1, <1>8, <2>0, <3>1, <3>2 DEF NotExcused
  <2>2. CASE ~Validate(given.file.entries[i].type)
    <3>1. pc' = "done" /\ status' = 1
      BY <1>11, <2>2 DEF ValidateEntry, Exit
    <3>2. ~Acceptable
      BY <1>2, <2>0, <2>2 DEF Acceptable
    <3> QED
      BY <1>7, <3>1, <3>2
  <2> QED
    BY <2>1, <2>2
<1>12. CASE Opened
  <2>0. /\ ~(given.file.size = 0 /\ empty) /\ EntriesRight /\ pc = "entries"
        /\ (given.file.ok => i > Len(given.file.entries))
        /\ pc' = "done"
        /\ status' = IF given.file.ok /\ given.file.size > 0 THEN 0 ELSE 1
    BY <1>12 DEF AInv, NotExcused, Opened, Exit
  <2>1. CASE given.file.ok /\ given.file.size > 0
    <3>1. \A k \in DOMAIN given.file.entries : Validate(given.file.entries[k].type)
      BY <1>3, <1>4, <2>0, <2>1 DEF EntriesRight
    <3>2. Acceptable
      BY <1>4, <2>0, <2>1, <3>1 DEF Acceptable, EntriesRight
    <3> QED
      BY <1>7, <2>0, <2>1, <3>2
  <2>2. CASE ~(given.file.ok /\ given.file.size > 0)
    <3>1. ~Acceptable
      BY <1>2, <1>4, <2>0, <2>2 DEF Acceptable
    <3> QED
      BY <1>7, <2>0, <2>2, <3>1
  <2> QED
    BY <2>1, <2>2
<1> QED
  BY <1>9, <1>10, <1>11, <1>12

\* Every step keeps the invariant of accepting.
LEMMA StepAInv == IInv /\ AInv /\ [Next]_vars => AInv'
<1> SUFFICES ASSUME IInv, AInv, [Next]_vars PROVE AInv'
  OBVIOUS
<1>1. CASE Compare
  <2>1. pc = "compare" /\ pc' = "done" /\ given' = given
    BY <1>1 DEF Compare, Exit, Quiet
  <2>2. ~Checks
    BY <2>1 DEF AInv, ForComparing, Checks
  <2> QED
    BY <2>1, <2>2, NotACheck
<1>2. CASE OpenTest \/ SkipLine \/ Unusable \/ TestLine \/ EndOfTests
  <2>1. pc \in {"opentest", "tests"} /\ pc' \in {"tests", "done"} /\ given' = given
    BY <1>2 DEF OpenTest, SkipLine, Unusable, TestLine, EndOfTests, Exit, Goto, Quiet
  <2>2. ~Checks
    BY <2>1 DEF IInv, ForTests, Tests, Checks
  <2> QED
    BY <2>1, <2>2, NotACheck
<1>3. CASE UNCHANGED vars
  BY <1>3 DEF vars, AInv, FlagsRead, ForComparing, ForChecking, NotExcused, EntriesRight,
       AcceptedRight, ModeRead, ModesBefore, ModeOptions, LastMode, AskedBefore, Asked, Checks,
       AttributesThere, Validate, IsType, OfAttributeSet, Names
<1> QED
  BY <1>1, <1>2, <1>3, OptionKeeps, UsageKeeps, DispatchKeeps, CheckKeeps DEF Next

\* A file is accepted exactly if all its types are right, or if it is empty and may be.
THEOREM AcceptedIsRight == Spec => []AcceptedRight
<1>1. AInv => AcceptedRight
  BY DEF AInv
<1> QED
  BY InitBegins, InitInv, StepInv, AInit, StepAInv, <1>1, PTL DEF Spec

-----------------------------------------------------------------------------
(***************************************************************************)
(* fc_sort.                                                                *)
(***************************************************************************)
\* What Less compares.
IsNode(n) == n.meta \in BOOLEAN /\ n.stem_len \in Nat /\ n.str_len \in Nat /\ n.typed \in BOOLEAN

\* Less is an order, and so is what is not less.
LEMMA LessIsStrict ==
  ASSUME NEW a, NEW b, NEW c, IsNode(a), IsNode(b), IsNode(c)
  PROVE  /\ ~(Less(a, b) /\ Less(b, a))
         /\ Less(a, b) /\ Less(b, c) => Less(a, c)
         /\ ~Less(b, a) /\ ~Less(c, b) => ~Less(c, a)
BY DEF IsNode, Less

\* The order of a stable sort.
Precedes(nodes, j, k) ==
  Less(nodes[j], nodes[k]) \/ (~Less(nodes[k], nodes[j]) /\ j <= k)

AreNodes(nodes) == /\ nodes \in Seq(Range(nodes))
                   /\ \A k \in DOMAIN nodes : IsNode(nodes[k])

\* It puts any two positions in one order.
LEMMA OrderIsTotal ==
  ASSUME NEW nodes, AreNodes(nodes),
         NEW j \in DOMAIN nodes, NEW k \in DOMAIN nodes, NEW l \in DOMAIN nodes
  PROVE  /\ Precedes(nodes, j, k) \/ Precedes(nodes, k, j)
         /\ Precedes(nodes, j, k) /\ Precedes(nodes, k, j) => j = k
         /\ Precedes(nodes, j, k) /\ Precedes(nodes, k, l) => Precedes(nodes, j, l)
<1>1. j \in Nat /\ k \in Nat /\ l \in Nat
  BY DEF AreNodes
<1>2. IsNode(nodes[j]) /\ IsNode(nodes[k]) /\ IsNode(nodes[l])
  BY DEF AreNodes
<1>3. Precedes(nodes, j, k) \/ Precedes(nodes, k, j)
  BY <1>1 DEF Precedes
<1>4. Precedes(nodes, j, k) /\ Precedes(nodes, k, j) => j = k
  BY <1>1, <1>2, LessIsStrict DEF Precedes
<1>5. Precedes(nodes, j, k) /\ Precedes(nodes, k, l) => Precedes(nodes, j, l)
  <2>1. /\ ~(Less(nodes[j], nodes[k]) /\ Less(nodes[k], nodes[j]))
        /\ Less(nodes[j], nodes[k]) /\ Less(nodes[k], nodes[l]) => Less(nodes[j], nodes[l])
        /\ Less(nodes[l], nodes[j]) /\ Less(nodes[j], nodes[k]) => Less(nodes[l], nodes[k])
        /\ Less(nodes[k], nodes[l]) /\ Less(nodes[l], nodes[j]) => Less(nodes[k], nodes[j])
        /\ ~Less(nodes[k], nodes[j]) /\ ~Less(nodes[l], nodes[k]) => ~Less(nodes[l], nodes[j])
        /\ ~Less(nodes[l], nodes[k]) /\ ~Less(nodes[j], nodes[l]) => ~Less(nodes[j], nodes[k])
        /\ ~Less(nodes[j], nodes[l]) /\ ~Less(nodes[k], nodes[j]) => ~Less(nodes[k], nodes[l])
        /\ ~(Less(nodes[l], nodes[k]) /\ Less(nodes[k], nodes[l]))
    BY <1>2, LessIsStrict
  <2>2. j <= k /\ k <= l => j <= l
    BY <1>1
  <2> QED
    BY <2>1, <2>2, Zenon DEF Precedes
<1> QED
  BY <1>3, <1>4, <1>5

\* So a place is the place of one node, and of a node before another one the place is less.
LEMMA PlacesAre ==
  ASSUME NEW nodes, AreNodes(nodes)
  PROVE  /\ \A k \in DOMAIN nodes : Place(nodes, k) \in DOMAIN nodes
         /\ \A j, k \in DOMAIN nodes : j # k /\ Precedes(nodes, j, k) =>
                                         Place(nodes, j) < Place(nodes, k)
         /\ \A n \in DOMAIN nodes : \E k \in DOMAIN nodes : Place(nodes, k) = n
<1> DEFINE K == DOMAIN nodes
           To(k) == {j \in K : Precedes(nodes, j, k)}
<1>1. PICK n \in Nat : K = 1 .. n
  BY DEF AreNodes
<1>2. IsFiniteSet(K) /\ Cardinality(K) = n
  BY <1>1, FS_Interval
<1>3. \A k : Place(nodes, k) = Cardinality(To(k))
  BY DEF Place, Precedes
<1>4. \A k \in K : /\ IsFiniteSet(To(k)) /\ k \in To(k)
                   /\ Cardinality(To(k)) \in Nat /\ Cardinality(To(k)) <= n
  <2> SUFFICES ASSUME NEW k \in K
               PROVE  /\ IsFiniteSet(To(k)) /\ k \in To(k)
                      /\ Cardinality(To(k)) \in Nat /\ Cardinality(To(k)) <= n
    OBVIOUS
  <2>1. k \in To(k)
    BY OrderIsTotal
  <2>2. To(k) \in SUBSET K
    OBVIOUS
  <2> HIDE DEF To, K
  <2> QED
    BY <1>2, <2>1, <2>2, FS_Subset, FS_CardinalityType
<1>5. \A k \in K : Place(nodes, k) \in 1 .. n
  <2> SUFFICES ASSUME NEW k \in K PROVE Place(nodes, k) \in 1 .. n
    OBVIOUS
  <2>1. Cardinality(To(k)) # 0
    BY <1>4, FS_EmptySet
  <2> HIDE DEF To
  <2> QED
    BY <1>3, <1>4, <2>1
<1>6. ASSUME NEW j \in K, NEW k \in K, j # k, Precedes(nodes, j, k)
      PROVE  Place(nodes, j) < Place(nodes, k)
  <2>1. To(j) \in SUBSET To(k)
    BY <1>6, OrderIsTotal
  <2>2. k \notin To(j)
    BY <1>6, OrderIsTotal
  <2>3. k \in To(k) /\ IsFiniteSet(To(k))
    BY <1>4
  <2>4. Cardinality(To(j)) <= Cardinality(To(k)) /\ Cardinality(To(j)) # Cardinality(To(k))
    <3> HIDE DEF To
    <3> QED
      BY <2>1, <2>2, <2>3, FS_Subset
  <2>5. Cardinality(To(j)) \in Nat /\ Cardinality(To(k)) \in Nat
    BY <1>4
  <2> HIDE DEF To
  <2> QED
    BY <1>3, <2>4, <2>5
<1>7. \A m \in K : \E k \in K : Place(nodes, k) = m
  <2> DEFINE f == [k \in K |-> Place(nodes, k)]
  <2>1. f \in [K -> K]
    BY <1>1, <1>5
  <2>2. \A j, k \in K : j # k => f[j] # f[k]
    <3> SUFFICES ASSUME NEW j \in K, NEW k \in K, j # k PROVE Place(nodes, j) # Place(nodes, k)
      OBVIOUS
    <3>1. Precedes(nodes, j, k) \/ Precedes(nodes, k, j)
      BY OrderIsTotal
    <3>2. Place(nodes, j) < Place(nodes, k) \/ Place(nodes, k) < Place(nodes, j)
      BY <1>6, <3>1
    <3> QED
      BY <1>5, <3>2
  <2> HIDE DEF f
  <2>3. f \in Injection(K, K)
    BY <2>1, <2>2 DEF Injection, IsInjective
  <2>4. f \in Surjection(K, K)
    BY <1>2, <2>3, FS_Injection
  <2>5. \A m \in K : \E k \in K : f[k] = m
    BY <2>4 DEF Surjection
  <2> QED
    BY <2>5 DEF f
<1> QED
  BY <1>1, <1>5, <1>6, <1>7

\* fc_sort keeps each node, once, in the order of a stable sort.
LEMMA SortNodesIs ==
  ASSUME NEW nodes, AreNodes(nodes)
  PROVE  \E g \in [DOMAIN nodes -> DOMAIN nodes] :
           /\ DOMAIN SortNodes(nodes) = DOMAIN nodes
           /\ \A n \in DOMAIN nodes : SortNodes(nodes)[n] = nodes[g[n]]
           /\ \A k \in DOMAIN nodes : \E n \in DOMAIN nodes : g[n] = k
           /\ \A m, n \in DOMAIN nodes : m < n => Precedes(nodes, g[m], g[n]) /\ g[m] # g[n]
<1> DEFINE K == DOMAIN nodes
           g == [n \in K |-> CHOOSE k \in K : Place(nodes, k) = n]
<1>1. \A n \in K : g[n] \in K /\ Place(nodes, g[n]) = n
  BY PlacesAre
<1>2. DOMAIN SortNodes(nodes) = K /\ \A n \in K : SortNodes(nodes)[n] = nodes[g[n]]
  <2> DEFINE place == [k \in K |-> Place(nodes, k)]
  <2>1. ASSUME NEW n
        PROVE  (CHOOSE k \in K : place[k] = n) = (CHOOSE k \in K : Place(nodes, k) = n)
    <3>1. \A k : (k \in K /\ place[k] = n) <=> (k \in K /\ Place(nodes, k) = n)
      OBVIOUS
    <3> QED
      BY <3>1
  <2>2. SortNodes(nodes) = [n \in K |-> nodes[CHOOSE k \in K : place[k] = n]]
    BY DEF SortNodes
  <2>3. ASSUME NEW n \in K PROVE SortNodes(nodes)[n] = nodes[g[n]]
    <3>1. g[n] = CHOOSE k \in K : Place(nodes, k) = n
      OBVIOUS
    <3>2. SortNodes(nodes)[n] = nodes[CHOOSE k \in K : place[k] = n]
      <4> HIDE DEF place
      <4> QED
        BY <2>2
    <3> QED
      BY <2>1, <3>1, <3>2, Zenon
  <2>4. DOMAIN SortNodes(nodes) = K
    <3> HIDE DEF place
    <3> QED
      BY <2>2
  <2> QED
    BY <2>3, <2>4
<1>3. \A k \in K : Place(nodes, k) \in K /\ g[Place(nodes, k)] = k
  <2> SUFFICES ASSUME NEW k \in K PROVE Place(nodes, k) \in K /\ g[Place(nodes, k)] = k
    OBVIOUS
  <2>1. Place(nodes, k) \in K
    BY PlacesAre
  <2>2. g[Place(nodes, k)] \in K /\ Place(nodes, g[Place(nodes, k)]) = Place(nodes, k)
    BY <1>1, <2>1
  <2> HIDE DEF g
  <2>3. ASSUME NEW j \in K, Place(nodes, j) = Place(nodes, k) PROVE j = k
    <3> SUFFICES ASSUME j # k PROVE FALSE
      OBVIOUS
    <3>1. Precedes(nodes, j, k) \/ Precedes(nodes, k, j)
      BY OrderIsTotal
    <3>2. Place(nodes, j) < Place(nodes, k) \/ Place(nodes, k) < Place(nodes, j)
      BY <3>1, PlacesAre
    <3>3. Place(nodes, k) \in Nat
      BY <2>1 DEF AreNodes
    <3> QED
      BY <2>3, <3>2, <3>3
  <2> QED
    BY <2>1, <2>2, <2>3
<1>4. ASSUME NEW m \in K, NEW n \in K, m < n PROVE Precedes(nodes, g[m], g[n]) /\ g[m] # g[n]
  <2>1. m \in Nat /\ n \in Nat
    BY DEF AreNodes
  <2>2. g[m] \in K /\ g[n] \in K /\ Place(nodes, g[m]) = m /\ Place(nodes, g[n]) = n
    BY <1>1
  <2> HIDE DEF g
  <2>3. g[m] # g[n]
    BY <1>4, <2>1, <2>2
  <2>4. ~Precedes(nodes, g[n], g[m])
    <3> SUFFICES ASSUME Precedes(nodes, g[n], g[m]) PROVE FALSE
      OBVIOUS
    <3>1. Place(nodes, g[n]) < Place(nodes, g[m])
      BY <2>2, <2>3, PlacesAre
    <3> QED
      BY <1>4, <2>1, <2>2, <3>1
  <2> QED
    BY <2>2, <2>3, <2>4, OrderIsTotal
<1>5. g \in [K -> K]
  BY <1>1
<1> HIDE DEF g
<1> QED
  BY <1>2, <1>3, <1>4, <1>5

\* A set of numbers has a least one: of the intervals up to them, one has no other in it.
LEMMA LeastNat ==
  ASSUME NEW T, T \in SUBSET Nat, T # {}
  PROVE  \E x \in T : \A y \in T : x <= y
<1> DEFINE F == {1 .. x : x \in T}
<1>1. \A x \in T : 1 .. x \in FiniteSubsetsOf(Nat)
  BY FS_Interval DEF FiniteSubsetsOf
<1>2. F \subseteq FiniteSubsetsOf(Nat) /\ F # {}
  BY <1>1
<1>3. PICK f \in F : \A g \in F : ~(<<g, f>> \in StrictSubsetOrdering(Nat))
  BY <1>2, FS_StrictSubsetOrderingWellFounded, WFMin
<1>4. PICK x \in T : f = 1 .. x
  BY <1>3
<1>5. ASSUME NEW y \in T, ~(x <= y) PROVE FALSE
  <2>1. 1 .. y \in F /\ 1 .. y \in SUBSET Nat /\ 1 .. x \in SUBSET Nat
    OBVIOUS
  <2>2. x \in 1 .. x /\ x \notin 1 .. y /\ 1 .. y \subseteq 1 .. x
    BY <1>5
  <2> QED
    BY <1>3, <1>4, <2>1, <2>2 DEF StrictSubsetOrdering
<1> QED
  BY <1>5

\* What holds of 0, and of every number behind one of which it holds.
LEMMA Upward ==
  ASSUME NEW n \in Nat, NEW S, S \subseteq 0 .. n, 0 \notin S,
         \A k \in 0 .. n : k # n /\ k \notin S => k + 1 \notin S
  PROVE  S = {}
<1> SUFFICES ASSUME S # {} PROVE FALSE
  OBVIOUS
<1>1. S \in SUBSET Nat
  OBVIOUS
<1>2. PICK x \in S : \A y \in S : x <= y
  BY <1>1, LeastNat, Zenon
<1>3. x \in 1 .. n
  OBVIOUS
<1>4. x - 1 \notin S
  BY <1>2, <1>3
<1> QED
  BY <1>3, <1>4

-----------------------------------------------------------------------------
IsSeq(s) == s \in Seq(Range(s))

\* What the prover has to be told of a sequence.
LEMMA SeqFacts ==
  ASSUME NEW s, IsSeq(s)
  PROVE  Len(s) \in Nat /\ DOMAIN s = 1 .. Len(s) /\ \A k \in DOMAIN s : s[k] \in Range(s)
BY DEF IsSeq, Range

\* The function that NotBlank is defined with exists.
Follows(lines, f, n) ==
  f = [k \in 0 .. n |-> IF k = 0 THEN <<>>
                        ELSE IF lines[k] = Blank THEN f[k - 1] ELSE Append(f[k - 1], lines[k])]

\* By induction on how many lines it is defined for, as a set of numbers has a least one.
LEMMA SomeFollows ==
  ASSUME NEW lines, NEW n \in Nat
  PROVE  \E f : Follows(lines, f, n)
<1> DEFINE S == {k \in 0 .. n : ~\E f : Follows(lines, f, k)}
<1>1. 0 \notin S
  <2>1. Follows(lines, [k \in 0 .. 0 |-> <<>>], 0)
    BY DEF Follows
  <2> QED
    BY <2>1
<1>2. ASSUME NEW k \in 0 .. n, k # n, k \notin S PROVE k + 1 \notin S
  <2>1. PICK f : Follows(lines, f, k)
    BY <1>2
  <2> DEFINE last == IF lines[k + 1] = Blank THEN f[k] ELSE Append(f[k], lines[k + 1])
             h == [j \in 0 .. k + 1 |-> IF j = k + 1 THEN last ELSE f[j]]
             next == [j \in 0 .. k + 1 |->
                        IF j = 0 THEN <<>>
                        ELSE IF lines[j] = Blank THEN h[j - 1] ELSE Append(h[j - 1], lines[j])]
  <2>2. \A j \in 0 .. k : f[j] = IF j = 0 THEN <<>> ELSE IF lines[j] = Blank THEN f[j - 1]
                                 ELSE Append(f[j - 1], lines[j])
    BY <2>1 DEF Follows
  <2>3. ASSUME NEW j \in 0 .. k + 1 PROVE h[j] = next[j]
    <3>1. CASE j = k + 1
      <4>1. j # 0 /\ j - 1 = k /\ h[j - 1] = f[k]
        BY <3>1
      <4> QED
        BY <3>1, <4>1
    <3>2. CASE j # k + 1
      <4>1. j \in 0 .. k /\ (j # 0 => h[j - 1] = f[j - 1])
        BY <3>2
      <4>2. h[j] = f[j]
        BY <3>2
      <4> QED
        BY <2>2, <4>1, <4>2
    <3> QED
      BY <3>1, <3>2
  <2>4. h = next
    BY <2>3
  <2>5. Follows(lines, h, k + 1)
    BY <2>4 DEF Follows
  <2> QED
    BY <2>5
<1>3. S \subseteq 0 .. n
  OBVIOUS
<1>4. S = {}
  <2> HIDE DEF S
  <2> QED
    BY <1>1, <1>2, <1>3, Upward
<1>5. n \in 0 .. n
  OBVIOUS
<1> QED
  BY <1>4, <1>5

\* What a filter like NotBlank leaves: some of the positions, in their order.
Keeps(new, old, g, n) ==
  /\ new \in Seq(Range(old)) /\ g \in [1 .. Len(new) -> 1 .. n]
  /\ \A k \in 1 .. Len(new) : new[k] = old[g[k]] /\ old[g[k]] # Blank
  /\ \A k \in 1 .. n : old[k] # Blank => \E m \in 1 .. Len(new) : g[m] = k
  /\ \A j, k \in 1 .. Len(new) : j < k => g[j] < g[k]

\* What is left of some lines are those that are not blank, each once, and in their order.
LEMMA NotBlankIs ==
  ASSUME NEW lines, IsSeq(lines)
  PROVE  \E g : Keeps(NotBlank(lines), lines, g, Len(lines))
<1> DEFINE n == Len(lines)
<1>0. n \in Nat /\ \A k \in 1 .. n : lines[k] \in Range(lines)
  BY SeqFacts
<1> DEFINE f == CHOOSE f : Follows(lines, f, n)
<1>1. Follows(lines, f, n)
  BY <1>0, SomeFollows
<1>2. NotBlank(lines) = f[n]
  BY DEF NotBlank, Follows
<1> HIDE DEF f
<1>3. /\ f[0] = <<>>
      /\ \A k \in 1 .. n : f[k] = IF lines[k] = Blank THEN f[k - 1] ELSE Append(f[k - 1], lines[k])
  <2> HIDE DEF n
  <2>1. \A k \in 0 .. n : f[k] = IF k = 0 THEN <<>> ELSE IF lines[k] = Blank THEN f[k - 1]
                                 ELSE Append(f[k - 1], lines[k])
    BY <1>1 DEF Follows
  <2> QED
    BY <1>0, <2>1
<1> DEFINE S == {k \in 0 .. n : ~\E g : Keeps(f[k], lines, g, k)}
<1>4. 0 \notin S
  <2>1. <<>> \in Seq(Range(lines)) /\ Len(<<>>) = 0
    OBVIOUS
  <2>2. Keeps(<<>>, lines, [k \in 1 .. 0 |-> k], 0)
    BY <2>1 DEF Keeps
  <2> QED
    BY <1>3, <2>2
<1>5. ASSUME NEW k \in 0 .. n, k # n, k \notin S PROVE k + 1 \notin S
  <2>1. PICK g : Keeps(f[k], lines, g, k)
    BY <1>5
  <2>2. k + 1 \in 1 .. n /\ k \in Nat /\ k + 1 - 1 = k
    BY <1>0, <1>5
  <2>3. f[k + 1] = IF lines[k + 1] = Blank THEN f[k] ELSE Append(f[k], lines[k + 1])
    BY <1>3, <2>2
  <2>4. CASE lines[k + 1] = Blank
    <3>1. Keeps(f[k], lines, g, k + 1)
      <4>1. g \in [1 .. Len(f[k]) -> 1 .. k + 1]
        BY <2>1, <2>2 DEF Keeps
      <4>2. \A j \in 1 .. k + 1 : j = k + 1 \/ j \in 1 .. k
        BY <2>2
      <4> QED
        BY <2>1, <2>4, <4>1, <4>2 DEF Keeps
    <3> QED
      BY <2>3, <2>4, <3>1
  <2>5. CASE lines[k + 1] # Blank
    <3> DEFINE new == Append(f[k], lines[k + 1])
               l == Len(f[k])
               h == [m \in 1 .. l + 1 |-> IF m = l + 1 THEN k + 1 ELSE g[m]]
    <3>1. /\ f[k] \in Seq(Range(lines)) /\ l \in Nat /\ lines[k + 1] \in Range(lines)
          /\ g \in [1 .. l -> 1 .. k]
      BY <1>0, <2>1, <2>2 DEF Keeps
    <3>2. /\ new \in Seq(Range(lines)) /\ Len(new) = l + 1
          /\ \A m \in 1 .. l + 1 : new[m] = IF m = l + 1 THEN lines[k + 1] ELSE f[k][m]
      BY <3>1
    <3>3. /\ h[l + 1] = k + 1 /\ \A m \in 1 .. l : h[m] = g[m] /\ h[m] \in 1 .. k
      <4> HIDE DEF l
      <4> QED
        BY <3>1
    <3>4. \A m \in 1 .. l + 1 : m = l + 1 \/ m \in 1 .. l
      BY <3>1
    <3>5. h \in [1 .. l + 1 -> 1 .. k + 1]
      BY <2>2, <3>1
    <3> HIDE DEF new, l, h
    <3>6. \A m \in 1 .. l + 1 : new[m] = lines[h[m]] /\ lines[h[m]] # Blank
      BY <2>1, <2>5, <3>2, <3>3, <3>4 DEF Keeps, l
    <3>7. ASSUME NEW j \in 1 .. k + 1, lines[j] # Blank PROVE \E m \in 1 .. l + 1 : h[m] = j
      <4>1. CASE j = k + 1
        <5>1. l + 1 \in 1 .. l + 1
          BY <3>1
        <5> QED
          BY <3>3, <4>1, <5>1
      <4>2. CASE j # k + 1
        <5>1. j \in 1 .. k
          BY <2>2, <4>2
        <5>2. PICK m \in 1 .. l : g[m] = j
          BY <2>1, <3>7, <5>1 DEF Keeps, l
        <5> QED
          BY <3>1, <3>3, <5>2
      <4> QED
        BY <4>1, <4>2
    <3>8. ASSUME NEW i1 \in 1 .. l + 1, NEW i2 \in 1 .. l + 1, i1 < i2 PROVE h[i1] < h[i2]
      <4>1. i1 \in 1 .. l
        BY <3>1, <3>8
      <4>2. CASE i2 = l + 1
        BY <2>2, <3>3, <4>1, <4>2
      <4>3. CASE i2 # l + 1
        <5>1. i2 \in 1 .. l
          BY <3>4, <4>3
        <5> QED
          BY <2>1, <3>3, <3>8, <4>1, <5>1 DEF Keeps, l
      <4> QED
        BY <4>2, <4>3
    <3>9. Keeps(new, lines, h, k + 1)
      BY <3>2, <3>5, <3>6, <3>7, <3>8 DEF Keeps
    <3> QED
      BY <2>3, <2>5, <3>9 DEF new
  <2> QED
    BY <2>4, <2>5
<1>6. S \subseteq 0 .. n
  OBVIOUS
<1>7. S = {}
  <2> HIDE DEF S, n
  <2> QED
    BY <1>0, <1>4, <1>5, <1>6, Upward
<1>8. n \in 0 .. n
  BY <1>0
<1> QED
  BY <1>2, <1>7, <1>8

-----------------------------------------------------------------------------
\* A few sequences one after the other.
LEMMA FlattenIs ==
  ASSUME NEW s, NEW n \in 1 .. 3, Len(s) = n
  PROVE  FlattenSeq(s) = IF n = 1 THEN s[1] ELSE IF n = 2 THEN s[1] \o s[2]
                         ELSE (s[1] \o s[2]) \o s[3]
<1> DEFINE Joint(m) == IF m = 1 THEN s[1] ELSE IF m = 2 THEN s[1] \o s[2]
                       ELSE (s[1] \o s[2]) \o s[3]
           f == [m \in 1 .. n |-> Joint(m)]
           Body(h) == [m \in 1 .. n |-> IF m = 1 THEN s[m] ELSE h[m - 1] \o s[m]]
           flatten == CHOOSE h : h = Body(h)
<1>1. FlattenSeq(s) = flatten[n]
  BY DEF FlattenSeq
<1>2. f = Body(f)
  <2>1. ASSUME NEW m \in 1 .. n
        PROVE  f[m] = IF m = 1 THEN s[m] ELSE f[m - 1] \o s[m]
    <3>1. m = 1 \/ m = 2 \/ m = 3
      OBVIOUS
    <3>2. m # 1 => m - 1 \in 1 .. n
      OBVIOUS
    <3>3. f[m] = Joint(m) /\ (m # 1 => f[m - 1] = Joint(m - 1))
      BY <3>2
    <3>4. Joint(1) = s[1] /\ Joint(2) = s[1] \o s[2] /\ Joint(3) = (s[1] \o s[2]) \o s[3]
      OBVIOUS
    <3> HIDE DEF f, Joint
    <3>5. CASE m = 1
      BY <3>3, <3>4, <3>5
    <3>6. CASE m = 2
      <4>1. m # 1 /\ f[m - 1] = s[1] /\ f[m] = s[1] \o s[2]
        BY <3>3, <3>4, <3>6
      <4> QED
        BY <3>6, <4>1, Zenon
    <3>7. CASE m = 3
      <4>1. m # 1 /\ f[m - 1] = s[1] \o s[2] /\ f[m] = (s[1] \o s[2]) \o s[3]
        <5>1. m # 1 /\ m - 1 = 2
          BY <3>7
        <5>2. f[m - 1] = Joint(2) /\ f[m] = Joint(3)
          BY <3>3, <3>7, <5>1, Zenon
        <5> QED
          BY <3>4, <5>1, <5>2, Zenon
      <4> QED
        BY <3>7, <4>1, Zenon
    <3> QED
      BY <3>1, <3>5, <3>6, <3>7
  <2> QED
    BY <2>1
<1>3. flatten = Body(flatten)
  <2> HIDE DEF f, Body
  <2> QED
    BY <1>2
<1>4. \A m \in 1 .. n : flatten[m] = IF m = 1 THEN s[m] ELSE flatten[m - 1] \o s[m]
  <2> HIDE DEF flatten
  <2> QED
    BY <1>3
<1> HIDE DEF flatten
<1>5. CASE n = 1
  BY <1>1, <1>4, <1>5
<1>6. CASE n = 2
  <2>1. 1 \in 1 .. n /\ 2 \in 1 .. n
    BY <1>6
  <2>2. flatten[1] = s[1] /\ flatten[2] = flatten[2 - 1] \o s[2] /\ 2 - 1 = 1
    <3>1. /\ flatten[1] = IF 1 = 1 THEN s[1] ELSE flatten[1 - 1] \o s[1]
          /\ flatten[2] = IF 2 = 1 THEN s[2] ELSE flatten[2 - 1] \o s[2]
      BY <1>4, <2>1, Zenon
    <3> QED
      BY <3>1
  <2>3. flatten[n] = s[1] \o s[2]
    BY <1>6, <2>2
  <2> QED
    BY <1>1, <1>6, <2>3
<1>7. CASE n = 3
  <2>1. 1 \in 1 .. n /\ 2 \in 1 .. n /\ 3 \in 1 .. n
    BY <1>7
  <2>2. /\ flatten[1] = s[1] /\ flatten[2] = flatten[2 - 1] \o s[2] /\ 2 - 1 = 1
        /\ flatten[3] = flatten[3 - 1] \o s[3] /\ 3 - 1 = 2
    <3>1. /\ flatten[1] = IF 1 = 1 THEN s[1] ELSE flatten[1 - 1] \o s[1]
          /\ flatten[2] = IF 2 = 1 THEN s[2] ELSE flatten[2 - 1] \o s[2]
          /\ flatten[3] = IF 3 = 1 THEN s[3] ELSE flatten[3 - 1] \o s[3]
      BY <1>4, <2>1, Zenon
    <3> QED
      BY <3>1
  <2>3. flatten[n] = (s[1] \o s[2]) \o s[3]
    BY <1>7, <2>2
  <2> QED
    BY <1>1, <1>7, <2>3
<1>8. n = 1 \/ n = 2 \/ n = 3
  OBVIOUS
<1> QED
  BY <1>5, <1>6, <1>7, <1>8

\* A line is sorted by what is computed from it.
IsLine(line) == line # Blank => IsSeq(line.path)
AreLines(lines) == IsSeq(lines) /\ \A k \in DOMAIN lines : IsLine(lines[k])

\* What is computed of a line is what Less compares.
LEMMA NodeIs == ASSUME NEW line, IsSeq(line.path) PROVE IsNode(Node(line)) /\ Node(line).line = line
<1> DEFINE D == DOMAIN line.path
<1>1. IsFiniteSet(D)
  BY SeqFacts, FS_Interval
<1>2. \A T \in SUBSET D : Cardinality(T) \in Nat
  <2> HIDE DEF D
  <2> QED
    BY <1>1, FS_Subset, FS_CardinalityType
<1>3. StemLen(line.path) \in Nat
  <2> DEFINE T == {k \in D \ Escapes(line.path) : \A o \in Operators(line.path) : k < o}
  <2>1. T \in SUBSET D /\ StemLen(line.path) = Cardinality(T)
    BY DEF StemLen
  <2> HIDE DEF T, D
  <2> QED
    BY <1>2, <2>1
<1>4. StrLen(line.path) \in Nat
  <2> DEFINE T == {k \in D : line.path[k] # "\\"}
  <2>1. T \in SUBSET D /\ StrLen(line.path) = Cardinality(T)
    BY DEF StrLen
  <2> HIDE DEF T, D
  <2> QED
    BY <1>2, <2>1
<1>5. IsMeta(line.path) \in BOOLEAN
  BY DEF IsMeta
<1>6. (line.filetype # "") \in BOOLEAN
  OBVIOUS
<1>7. /\ Node(line).meta = IsMeta(line.path) /\ Node(line).stem_len = StemLen(line.path)
      /\ Node(line).str_len = StrLen(line.path) /\ Node(line).typed = (line.filetype # "")
      /\ Node(line).line = line
  BY DEF Node
<1> QED
  BY <1>3, <1>4, <1>5, <1>6, <1>7, Zenon DEF IsNode

\* The order of the lines that fc_sort makes of them.
LineLess(a, b) == Less(Node(a), Node(b))
InTurn(lines, j, k) ==
  LineLess(lines[j], lines[k]) \/ (~LineLess(lines[k], lines[j]) /\ j < k)

\* Sorting lines gives each of them once, but no blank one: by what is compared, and those
\* that compare alike as they were.
THEOREM SortedIs ==
  ASSUME NEW lines, AreLines(lines)
  PROVE  \E g \in [1 .. Len(Sorted(<<lines>>)) -> 1 .. Len(lines)] :
           /\ Sorted(<<lines>>) \in Seq(Range(lines))
           /\ \A k \in 1 .. Len(Sorted(<<lines>>)) :
                Sorted(<<lines>>)[k] = lines[g[k]] /\ lines[g[k]] # Blank
           /\ \A k \in 1 .. Len(lines) : lines[k] # Blank =>
                \E m \in 1 .. Len(Sorted(<<lines>>)) : g[m] = k
           /\ \A j, k \in 1 .. Len(Sorted(<<lines>>)) : j < k => InTurn(lines, g[j], g[k])
<1> DEFINE new == NotBlank(lines)
           l == Len(new)
           nodes == Nodes(<<lines>>)
           t == Sorted(<<lines>>)
<1>1. PICK h : Keeps(new, lines, h, Len(lines))
  BY NotBlankIs DEF AreLines
<1>2. Lines(<<lines>>) = new
  <2>1. Len(<<lines>>) = 1 /\ <<lines>>[1] = lines
    OBVIOUS
  <2>2. FlattenSeq(<<lines>>) = lines
    <3>1. 1 \in 1 .. 3
      OBVIOUS
    <3> QED
      BY <2>1, <3>1, FlattenIs
  <2> QED
    BY <2>2 DEF Lines
<1>3. /\ new \in Seq(Range(lines)) /\ l \in Nat /\ DOMAIN new = 1 .. l
      /\ h \in [1 .. l -> 1 .. Len(lines)]
  BY <1>1 DEF Keeps
<1>4. nodes = [k \in 1 .. l |-> Node(new[k])]
  BY <1>2, <1>3 DEF Nodes
<1>5. \A k \in 1 .. l : /\ new[k] = lines[h[k]] /\ new[k] # Blank /\ h[k] \in 1 .. Len(lines)
                        /\ IsSeq(new[k].path)
  <2>1. DOMAIN lines = 1 .. Len(lines)
    BY SeqFacts DEF AreLines
  <2> QED
    BY <1>1, <1>3, <2>1 DEF Keeps, AreLines, IsLine
<1>6. \A k \in 1 .. l : IsNode(nodes[k]) /\ nodes[k].line = new[k] /\ nodes[k] = Node(new[k])
  <2> HIDE DEF new, nodes, l
  <2> QED
    BY <1>4, <1>5, NodeIs
<1>7. AreNodes(nodes) /\ DOMAIN nodes = 1 .. l
  <2> HIDE DEF new, nodes, l
  <2>1. DOMAIN nodes = 1 .. l
    BY <1>4
  <2>2. nodes \in Seq(Range(nodes))
    <3>1. \A k \in 1 .. l : nodes[k] \in Range(nodes)
      BY <2>1 DEF Range
    <3>2. nodes = [k \in 1 .. l |-> nodes[k]]
      BY <1>4
    <3> QED
      BY <1>3, <3>1, <3>2
  <2> QED
    BY <1>6, <2>1, <2>2 DEF AreNodes
<1> DEFINE s == SortNodes(nodes)
<1>8. PICK g \in [1 .. l -> 1 .. l] :
        /\ DOMAIN s = 1 .. l
        /\ \A n \in 1 .. l : s[n] = nodes[g[n]]
        /\ \A k \in 1 .. l : \E n \in 1 .. l : g[n] = k
        /\ \A m, n \in 1 .. l : m < n => Precedes(nodes, g[m], g[n]) /\ g[m] # g[n]
  <2>1. PICK g \in [DOMAIN nodes -> DOMAIN nodes] :
           /\ DOMAIN SortNodes(nodes) = DOMAIN nodes
           /\ \A n \in DOMAIN nodes : SortNodes(nodes)[n] = nodes[g[n]]
           /\ \A k \in DOMAIN nodes : \E n \in DOMAIN nodes : g[n] = k
           /\ \A m, n \in DOMAIN nodes : m < n => Precedes(nodes, g[m], g[n]) /\ g[m] # g[n]
    BY <1>7, SortNodesIs
  <2>2. DOMAIN nodes = 1 .. l
    BY <1>7
  <2> HIDE DEF new, nodes, l, s
  <2>3. /\ g \in [1 .. l -> 1 .. l] /\ DOMAIN s = 1 .. l
        /\ \A n \in 1 .. l : s[n] = nodes[g[n]]
    BY <2>1, <2>2 DEF s
  <2>4. /\ \A k \in 1 .. l : \E n \in 1 .. l : g[n] = k
        /\ \A m, n \in 1 .. l : m < n => Precedes(nodes, g[m], g[n]) /\ g[m] # g[n]
    BY <2>1, <2>2
  <2> QED
    BY <2>3, <2>4
<1>9. t = [k \in 1 .. l |-> s[k].line]
  BY <1>8 DEF Sorted
<1> HIDE DEF new, l, nodes, s, t
<1>10. /\ \A k \in 1 .. l : t[k] = new[g[k]]
       /\ t \in Seq(Range(lines)) /\ Len(t) = l
  <2>1. \A k \in 1 .. l : t[k] = new[g[k]]
    BY <1>6, <1>8, <1>9
  <2>2. \A k \in 1 .. l : new[k] \in Range(lines)
    BY <1>3
  <2> QED
    <3>1. \A k \in 1 .. l : t[k] \in Range(lines)
      BY <1>8, <2>1, <2>2
    <3>2. t = [k \in 1 .. l |-> t[k]]
      BY <1>9
    <3>3. t \in Seq(Range(lines))
      BY <1>3, <3>1, <3>2
    <3>4. Len(t) = l
      BY <1>3, <3>2
    <3> QED
      BY <2>1, <3>3, <3>4
<1> DEFINE f == [k \in 1 .. l |-> h[g[k]]]
<1>11. f \in [1 .. l -> 1 .. Len(lines)]
  BY <1>3, <1>8
<1>12. \A k \in 1 .. l : t[k] = lines[f[k]] /\ lines[f[k]] # Blank
  <2> SUFFICES ASSUME NEW k \in 1 .. l PROVE t[k] = lines[f[k]] /\ lines[f[k]] # Blank
    OBVIOUS
  <2>1. g[k] \in 1 .. l /\ f[k] = h[g[k]]
    BY <1>8
  <2> HIDE DEF f
  <2> QED
    BY <1>5, <1>10, <2>1
<1>13. ASSUME NEW k \in 1 .. Len(lines), lines[k] # Blank PROVE \E m \in 1 .. l : f[m] = k
  <2>1. PICK j \in 1 .. l : h[j] = k
    BY <1>1, <1>13 DEF Keeps, l
  <2>2. PICK m \in 1 .. l : g[m] = j
    BY <1>8
  <2> QED
    BY <2>1, <2>2
<1>14. ASSUME NEW j \in 1 .. l, NEW k \in 1 .. l, j < k PROVE InTurn(lines, f[j], f[k])
  <2>1. g[j] \in 1 .. l /\ g[k] \in 1 .. l /\ Precedes(nodes, g[j], g[k]) /\ g[j] # g[k]
    BY <1>8, <1>14
  <2>2. /\ nodes[g[j]] = Node(lines[f[j]]) /\ nodes[g[k]] = Node(lines[f[k]])
    BY <1>5, <1>6, <2>1
  <2>3. g[j] <= g[k] => f[j] < f[k]
    <3>1. g[j] <= g[k] => g[j] < g[k]
      BY <2>1
    <3> QED
      BY <1>1, <2>1, <3>1 DEF Keeps, l
  <2> HIDE DEF f
  <2> QED
    BY <2>1, <2>2, <2>3 DEF Precedes, InTurn, LineLess
<1> HIDE DEF f
<1> QED
  BY <1>10, <1>11, <1>12, <1>13, <1>14 DEF t

-----------------------------------------------------------------------------
(***************************************************************************)
(* Where the lines of an output come from: a line of a source is a         *)
(* partition and a place.                                                  *)
(***************************************************************************)
Ids(src, P)     == UNION {{p} \X {n \in DOMAIN src[p] : src[p][n] # Blank} : p \in P}
LineOf(src, l)  == src[l[1]][l[2]]
Index(p)        == CHOOSE k \in 1 .. 5 : (Local \o Device)[k] = p
OfDevice(l)     == l[1] \in Range(Device)
Earlier(l, o)   == Index(l[1]) < Index(o[1]) \/ (l[1] = o[1] /\ l[2] < o[2])

\* the order in file_contexts.bin, and the one that sorting needs to find
BinOrder(src, l, o) ==
  IF OfDevice(l) /\ OfDevice(o)
  THEN \/ LineLess(LineOf(src, l), LineOf(src, o))
       \/ ~LineLess(LineOf(src, o), LineOf(src, l)) /\ Earlier(l, o)
  ELSE Earlier(l, o)
TieOrder(src, l, o) == \/ LineLess(LineOf(src, l), LineOf(src, o))
                       \/ LineLess(LineOf(src, o), LineOf(src, l))
                       \/ Earlier(l, o)

\* Lines that are those of the partitions P; f says which is which.
MadeOf(lines, src, P, f) ==
  /\ IsSeq(lines) /\ f \in [1 .. Len(lines) -> Ids(src, P)]
  /\ \A k \in 1 .. Len(lines) : lines[k] = LineOf(src, f[k])
  /\ \A l \in Ids(src, P) : \E k \in 1 .. Len(lines) : f[k] = l
InBinOrder(lines, src, P) ==
  \E f : MadeOf(lines, src, P, f)
         /\ \A j, k \in 1 .. Len(lines) : j < k => BinOrder(src, f[j], f[k])
InTieOrder(lines, src, P) ==
  \E f : MadeOf(lines, src, P, f)
         /\ \A j, k \in 1 .. Len(lines) : j < k => TieOrder(src, f[j], f[k])

\* The order of the partitions, one by one.
LEMMA Indices ==
  /\ Index("plat") = 1 /\ Index("system_ext") = 2 /\ Index("product") = 3
  /\ Index("vendor") = 4 /\ Index("odm") = 5
  /\ Range(Local) = {"plat", "system_ext", "product"} /\ Range(Device) = {"vendor", "odm"}
  /\ Partitions = {"plat", "system_ext", "product", "vendor", "odm"}
<1>1. /\ (Local \o Device)[1] = "plat" /\ (Local \o Device)[2] = "system_ext"
      /\ (Local \o Device)[3] = "product" /\ (Local \o Device)[4] = "vendor"
      /\ (Local \o Device)[5] = "odm"
  BY DEF Local, Device
<1>2. \A k \in 1 .. 5 : k = 1 \/ k = 2 \/ k = 3 \/ k = 4 \/ k = 5
  OBVIOUS
<1>3. /\ Index("plat") = 1 /\ Index("system_ext") = 2 /\ Index("product") = 3
      /\ Index("vendor") = 4 /\ Index("odm") = 5
  BY <1>1, <1>2 DEF Index
<1>4. Range(Local) = {"plat", "system_ext", "product"}
  BY DEF Local, Range
<1>5. Range(Device) = {"vendor", "odm"}
  BY DEF Device, Range
<1> QED
  BY <1>3, <1>4, <1>5 DEF Partitions

\* A line of a source is a partition of it, a place in it, and not blank.
LEMMA IdFacts ==
  ASSUME NEW src \in Inputs, NEW P \in SUBSET Partitions, NEW l \in Ids(src, P)
  PROVE  /\ l = <<l[1], l[2]>> /\ l[1] \in P /\ l[2] \in Nat
         /\ l[2] \in 1 .. Len(src[l[1]]) /\ LineOf(src, l) # Blank
         /\ IsSeq(LineOf(src, l).path)
<1>1. PICK p \in P : l \in {p} \X {n \in DOMAIN src[p] : src[p][n] # Blank}
  BY DEF Ids
<1>2. l = <<l[1], l[2]>> /\ l[1] = p /\ l[2] \in DOMAIN src[p] /\ src[p][l[2]] # Blank
  BY <1>1
<1>3. /\ IsSeq(src[p])
      /\ \A line \in Range(src[p]) : line # Blank => IsSeq(line.path)
  BY InputsAreFiles DEF IsSeq
<1>4. src[p][l[2]] \in Range(src[p]) /\ l[2] \in 1 .. Len(src[p]) /\ Len(src[p]) \in Nat
  BY <1>2, <1>3, SeqFacts
<1> QED
  BY <1>2, <1>3, <1>4 DEF LineOf

\* A file without its comments.
LEMMA NotBlankMade ==
  ASSUME NEW src \in Inputs, NEW p \in Partitions
  PROVE  \E f : /\ MadeOf(NotBlank(src[p]), src, {p}, f)
                /\ \A j, k \in 1 .. Len(NotBlank(src[p])) : j < k => Earlier(f[j], f[k])
<1> DEFINE new == NotBlank(src[p])
           l == Len(new)
<1>0. IsSeq(src[p])
  BY InputsAreFiles DEF IsSeq
<1>1. PICK g : Keeps(new, src[p], g, Len(src[p]))
  BY <1>0, NotBlankIs
<1>2. DOMAIN src[p] = 1 .. Len(src[p])
  BY <1>0, SeqFacts
<1> DEFINE f == [k \in 1 .. l |-> <<p, g[k]>>]
<1>3. \A k \in 1 .. l : f[k] \in Ids(src, {p}) /\ LineOf(src, f[k]) = new[k]
  <2> SUFFICES ASSUME NEW k \in 1 .. l PROVE f[k] \in Ids(src, {p}) /\ LineOf(src, f[k]) = new[k]
    OBVIOUS
  <2>1. g[k] \in DOMAIN src[p] /\ new[k] = src[p][g[k]] /\ src[p][g[k]] # Blank
    BY <1>1, <1>2 DEF Keeps
  <2>2. f[k] = <<p, g[k]>> /\ p \in {p}
    OBVIOUS
  <2> HIDE DEF f, new
  <2> QED
    <3>1. <<p, g[k]>> \in Ids(src, {p}) /\ LineOf(src, <<p, g[k]>>) = src[p][g[k]]
      BY <2>1 DEF Ids, LineOf
    <3> QED
      BY <2>1, <2>2, <3>1
<1>4. ASSUME NEW o \in Ids(src, {p}) PROVE \E k \in 1 .. l : f[k] = o
  <2>1. {p} \in SUBSET Partitions
    OBVIOUS
  <2>2. o = <<p, o[2]>> /\ o[2] \in 1 .. Len(src[p]) /\ src[p][o[2]] # Blank
    BY <2>1, IdFacts DEF LineOf
  <2>3. PICK k \in 1 .. l : g[k] = o[2]
    BY <1>1, <2>2 DEF Keeps
  <2> QED
    BY <2>2, <2>3
<1>5. IsSeq(new)
  BY <1>1 DEF Keeps, IsSeq, Range
<1>6. \A j, k \in 1 .. l : j < k => Earlier(f[j], f[k])
  BY <1>1 DEF Keeps, Earlier
<1>7. f \in [1 .. l -> Ids(src, {p})]
  BY <1>3
<1>8. MadeOf(new, src, {p}, f)
  <2> HIDE DEF f, new
  <2> QED
    BY <1>3, <1>4, <1>5, <1>7 DEF MadeOf
<1> HIDE DEF f
<1> QED
  BY <1>6, <1>8

\* Sorting what comes from the device.
LEMMA SortMade ==
  ASSUME NEW src \in Inputs, NEW P \in SUBSET Range(Device), NEW lines, InTieOrder(lines, src, P)
  PROVE  InBinOrder(Sorted(<<lines>>), src, P)
<1>1. PICK f : MadeOf(lines, src, P, f)
               /\ \A j, k \in 1 .. Len(lines) : j < k => TieOrder(src, f[j], f[k])
  BY DEF InTieOrder
<1>2. P \in SUBSET Partitions
  BY DEF Partitions
<1>3. IsSeq(lines) /\ DOMAIN lines = 1 .. Len(lines)
  BY <1>1, SeqFacts DEF MadeOf
<1>4. \A k \in 1 .. Len(lines) : /\ f[k] \in Ids(src, P) /\ lines[k] = LineOf(src, f[k])
                                 /\ lines[k] # Blank /\ IsSeq(lines[k].path) /\ OfDevice(f[k])
  BY <1>1, <1>2, IdFacts DEF MadeOf, OfDevice
<1>5. AreLines(lines)
  BY <1>3, <1>4 DEF AreLines, IsLine
<1> DEFINE t == Sorted(<<lines>>)
<1>6. PICK g \in [1 .. Len(t) -> 1 .. Len(lines)] :
        /\ t \in Seq(Range(lines))
        /\ \A k \in 1 .. Len(t) : t[k] = lines[g[k]] /\ lines[g[k]] # Blank
        /\ \A k \in 1 .. Len(lines) : lines[k] # Blank => \E m \in 1 .. Len(t) : g[m] = k
        /\ \A j, k \in 1 .. Len(t) : j < k => InTurn(lines, g[j], g[k])
  BY <1>5, SortedIs
<1> HIDE DEF t
<1> DEFINE h == [k \in 1 .. Len(t) |-> f[g[k]]]
<1>7. IsSeq(t)
  BY <1>6 DEF IsSeq, Range
<1>8. h \in [1 .. Len(t) -> Ids(src, P)]
  BY <1>4, <1>6
<1>9. \A k \in 1 .. Len(t) : t[k] = LineOf(src, h[k])
  BY <1>4, <1>6
<1>10. ASSUME NEW l \in Ids(src, P) PROVE \E k \in 1 .. Len(t) : h[k] = l
  <2>1. PICK k \in 1 .. Len(lines) : f[k] = l
    BY <1>1 DEF MadeOf
  <2>2. PICK m \in 1 .. Len(t) : g[m] = k
    BY <1>4, <1>6
  <2> QED
    BY <2>1, <2>2
<1>11. ASSUME NEW j \in 1 .. Len(t), NEW k \in 1 .. Len(t), j < k
       PROVE  BinOrder(src, h[j], h[k])
  <2>1. h[j] = f[g[j]] /\ h[k] = f[g[k]] /\ g[j] \in 1 .. Len(lines) /\ g[k] \in 1 .. Len(lines)
    BY <1>6
  <2>2. InTurn(lines, g[j], g[k])
    BY <1>6, <1>11
  <2>3. g[j] < g[k] => TieOrder(src, f[g[j]], f[g[k]])
    BY <1>1, <2>1
  <2>4. /\ lines[g[j]] = LineOf(src, f[g[j]]) /\ lines[g[k]] = LineOf(src, f[g[k]])
        /\ OfDevice(f[g[j]]) /\ OfDevice(f[g[k]])
    BY <1>4, <2>1
  <2> HIDE DEF h
  <2> QED
    BY <2>1, <2>2, <2>3, <2>4, Zenon DEF InTurn, TieOrder, BinOrder
<1> HIDE DEF h
<1>12. MadeOf(t, src, P, h)
  BY <1>7, <1>8, <1>9, <1>10 DEF MadeOf
<1> QED
  BY <1>11, <1>12 DEF InBinOrder, t

\* What is sorted, or has only lines of the platform, and what may be.
LEMMA BinIsTie ==
  ASSUME NEW src, NEW P, NEW lines, InBinOrder(lines, src, P)
  PROVE  InTieOrder(lines, src, P)
<1>1. PICK f : MadeOf(lines, src, P, f)
               /\ \A j, k \in 1 .. Len(lines) : j < k => BinOrder(src, f[j], f[k])
  BY DEF InBinOrder
<1>2. \A l, o : BinOrder(src, l, o) => TieOrder(src, l, o)
  BY DEF BinOrder, TieOrder
<1> QED
  BY <1>1, <1>2 DEF InTieOrder

\* What the rule of a partition writes.
LEMMA FileMade ==
  ASSUME NEW src \in Inputs, NEW p \in Partitions
  PROVE  /\ InTieOrder(NotBlank(src[p]), src, {p})
         /\ p \notin Range(Device) => InBinOrder(NotBlank(src[p]), src, {p})
         /\ p \in Range(Device) => InBinOrder(Sorted(<<NotBlank(src[p])>>), src, {p})
<1> DEFINE new == NotBlank(src[p])
<1>1. PICK f : /\ MadeOf(new, src, {p}, f)
               /\ \A j, k \in 1 .. Len(new) : j < k => Earlier(f[j], f[k])
  BY NotBlankMade
<1> HIDE DEF new
<1>2. InTieOrder(new, src, {p})
  <2>1. \A j, k \in 1 .. Len(new) : j < k => TieOrder(src, f[j], f[k])
    BY <1>1 DEF TieOrder
  <2> QED
    BY <1>1, <2>1 DEF InTieOrder
<1>3. ASSUME p \notin Range(Device) PROVE InBinOrder(new, src, {p})
  <2>1. \A k \in 1 .. Len(new) : ~OfDevice(f[k])
    <3> SUFFICES ASSUME NEW k \in 1 .. Len(new) PROVE ~OfDevice(f[k])
      OBVIOUS
    <3>1. f[k] \in Ids(src, {p}) /\ {p} \in SUBSET Partitions
      BY <1>1 DEF MadeOf
    <3>2. f[k][1] = p
      BY <3>1, IdFacts
    <3> QED
      BY <1>3, <3>2 DEF OfDevice
  <2>2. \A j, k \in 1 .. Len(new) : j < k => BinOrder(src, f[j], f[k])
    BY <1>1, <2>1 DEF BinOrder
  <2> QED
    BY <1>1, <2>2 DEF InBinOrder
<1>4. ASSUME p \in Range(Device) PROVE InBinOrder(Sorted(<<new>>), src, {p})
  <2>1. {p} \in SUBSET Range(Device)
    BY <1>4
  <2> QED
    BY <1>2, <2>1, SortMade
<1> QED
  BY <1>2, <1>3, <1>4 DEF new

\* One file after the other.
Spliced(h, f, g, a, b, src, P, Q) ==
  \A j, k \in 1 .. Len(a \o b) : j < k =>
    \/ j \in 1 .. Len(a) /\ k \in 1 .. Len(a) /\ h[j] = f[j] /\ h[k] = f[k]
    \/ /\ j - Len(a) \in 1 .. Len(b) /\ k - Len(a) \in 1 .. Len(b)
       /\ h[j] = g[j - Len(a)] /\ h[k] = g[k - Len(a)]
    \/ h[j] \in Ids(src, P) /\ h[k] \in Ids(src, Q) /\ Earlier(h[j], h[k])

\* The lines of two outputs, of partitions of which one are before the others.
LEMMA JoinMade ==
  ASSUME NEW src \in Inputs, NEW P \in SUBSET Partitions, NEW Q \in SUBSET Partitions,
         \A p \in P, q \in Q : Index(p) < Index(q),
         NEW a, NEW b, NEW f, NEW g, MadeOf(a, src, P, f), MadeOf(b, src, Q, g)
  PROVE  \E h : /\ MadeOf(a \o b, src, P \cup Q, h)
                /\ Spliced(h, f, g, a, b, src, P, Q)
<1> DEFINE c == a \o b
           la == Len(a)
           lb == Len(b)
           h == [k \in 1 .. la + lb |-> IF k <= la THEN f[k] ELSE g[k - la]]
<1>1. IsSeq(a) /\ IsSeq(b) /\ f \in [1 .. la -> Ids(src, P)] /\ g \in [1 .. lb -> Ids(src, Q)]
  BY DEF MadeOf
<1>2. la \in Nat /\ lb \in Nat
  BY <1>1, SeqFacts
<1>3. /\ c \in Seq(Range(a) \cup Range(b)) /\ Len(c) = la + lb
      /\ \A k \in 1 .. la + lb : c[k] = IF k <= la THEN a[k] ELSE b[k - la]
  <2>1. a \in Seq(Range(a) \cup Range(b)) /\ b \in Seq(Range(a) \cup Range(b))
    BY <1>1 DEF IsSeq
  <2> QED
    BY <1>2, <2>1
<1> HIDE DEF c, la, lb, h
<1>4. IsSeq(c)
  BY <1>3 DEF IsSeq, Range
<1>5. Ids(src, P \cup Q) = Ids(src, P) \cup Ids(src, Q)
  BY DEF Ids
<1>6. \A k \in 1 .. la + lb : /\ k <= la => k \in 1 .. la /\ h[k] = f[k]
                              /\ ~(k <= la) => k - la \in 1 .. lb /\ h[k] = g[k - la]
  BY <1>2 DEF h
<1>7. h \in [1 .. la + lb -> Ids(src, P \cup Q)]
  <2>1. \A k \in 1 .. la + lb : h[k] \in Ids(src, P \cup Q)
    BY <1>1, <1>5, <1>6
  <2> QED
    BY <2>1 DEF h
<1>8. \A k \in 1 .. la + lb : c[k] = LineOf(src, h[k])
  <2>1. /\ \A k \in 1 .. la : a[k] = LineOf(src, f[k])
        /\ \A k \in 1 .. lb : b[k] = LineOf(src, g[k])
    BY DEF MadeOf, la, lb
  <2> QED
    BY <1>3, <1>6, <2>1
<1>9. ASSUME NEW l \in Ids(src, P \cup Q) PROVE \E k \in 1 .. la + lb : h[k] = l
  <2>1. CASE l \in Ids(src, P)
    <3>1. PICK k \in 1 .. la : f[k] = l
      BY <2>1 DEF MadeOf, la
    <3>2. k \in 1 .. la + lb /\ k <= la
      BY <1>2
    <3> QED
      BY <1>6, <3>1, <3>2
  <2>2. CASE l \in Ids(src, Q)
    <3>1. PICK k \in 1 .. lb : g[k] = l
      BY <2>2 DEF MadeOf, lb
    <3>2. PICK m \in 1 .. la + lb : ~(m <= la) /\ m - la = k
      <4> DEFINE m == k + la
      <4>1. m \in 1 .. la + lb /\ ~(m <= la) /\ m - la = k
        BY <1>2
      <4> HIDE DEF m
      <4> QED
        BY <4>1
    <3>3. h[m] = g[m - la]
      BY <1>6, <3>2, Zenon
    <3> QED
      BY <3>1, <3>2, <3>3
  <2> QED
    BY <1>5, <2>1, <2>2
<1>10. ASSUME NEW j \in 1 .. la + lb, NEW k \in 1 .. la + lb, j < k
       PROVE  \/ j \in 1 .. la /\ k \in 1 .. la /\ h[j] = f[j] /\ h[k] = f[k]
              \/ /\ j - la \in 1 .. lb /\ k - la \in 1 .. lb
                 /\ h[j] = g[j - la] /\ h[k] = g[k - la]
              \/ h[j] \in Ids(src, P) /\ h[k] \in Ids(src, Q) /\ Earlier(h[j], h[k])
  <2>1. CASE k <= la
    <3>1. j <= la
      BY <1>2, <1>10, <2>1
    <3> QED
      BY <1>6, <2>1, <3>1
  <2>2. CASE ~(j <= la)
    <3>1. ~(k <= la)
      BY <1>2, <1>10, <2>2
    <3> QED
      BY <1>6, <2>2, <3>1
  <2>3. CASE j <= la /\ ~(k <= la)
    <3>1. h[j] \in Ids(src, P) /\ h[k] \in Ids(src, Q)
      BY <1>1, <1>6, <2>3
    <3>2. h[j][1] \in P /\ h[k][1] \in Q
      BY <3>1, IdFacts
    <3> QED
      BY <3>1, <3>2 DEF Earlier
  <2> QED
    BY <2>1, <2>2, <2>3
<1>11. MadeOf(c, src, P \cup Q, h)
  BY <1>3, <1>4, <1>7, <1>8, <1>9 DEF MadeOf
<1> QED
  BY <1>3, <1>10, <1>11 DEF c, la, lb, Spliced

\* The second file may be one of the device, as its lines come after those of the platform.
LEMMA JoinBin ==
  ASSUME NEW src \in Inputs, NEW P \in SUBSET Partitions, NEW Q \in SUBSET Partitions,
         \A p \in P, q \in Q : Index(p) < Index(q), P \cap Range(Device) = {},
         NEW a, NEW b, InBinOrder(a, src, P), InBinOrder(b, src, Q)
  PROVE  InBinOrder(a \o b, src, P \cup Q)
<1>1. PICK f : MadeOf(a, src, P, f)
               /\ \A j, k \in 1 .. Len(a) : j < k => BinOrder(src, f[j], f[k])
  BY DEF InBinOrder
<1>2. PICK g : MadeOf(b, src, Q, g)
               /\ \A j, k \in 1 .. Len(b) : j < k => BinOrder(src, g[j], g[k])
  BY DEF InBinOrder
<1>3. PICK h : /\ MadeOf(a \o b, src, P \cup Q, h)
               /\ Spliced(h, f, g, a, b, src, P, Q)
  BY <1>1, <1>2, JoinMade, Zenon
<1>4. ASSUME NEW j \in 1 .. Len(a \o b), NEW k \in 1 .. Len(a \o b), j < k
      PROVE  BinOrder(src, h[j], h[k])
  <2>1. \A l \in Ids(src, P) : ~OfDevice(l)
    BY IdFacts DEF OfDevice
  <2>2. CASE h[j] \in Ids(src, P) /\ h[k] \in Ids(src, Q) /\ Earlier(h[j], h[k])
    BY <2>1, <2>2 DEF BinOrder
  <2>3. CASE j \in 1 .. Len(a) /\ k \in 1 .. Len(a) /\ h[j] = f[j] /\ h[k] = f[k]
    BY <1>1, <1>4, <2>3
  <2>4. CASE /\ j - Len(a) \in 1 .. Len(b) /\ k - Len(a) \in 1 .. Len(b)
             /\ h[j] = g[j - Len(a)] /\ h[k] = g[k - Len(a)]
    <3>1. j - Len(a) < k - Len(a)
      <4>1. Len(a) \in Nat /\ j \in Int /\ k \in Int
        BY <1>1, SeqFacts DEF MadeOf
      <4> QED
        BY <1>4, <4>1
    <3> QED
      BY <1>2, <2>4, <3>1
  <2> QED
    BY <1>3, <1>4, <2>2, <2>3, <2>4 DEF Spliced
<1> QED
  BY <1>3, <1>4 DEF InBinOrder

\* Two files of the device are in no order but that of their lines that sorting cannot tell apart.
LEMMA JoinTie ==
  ASSUME NEW src \in Inputs, NEW P \in SUBSET Partitions, NEW Q \in SUBSET Partitions,
         \A p \in P, q \in Q : Index(p) < Index(q),
         NEW a, NEW b, InTieOrder(a, src, P), InTieOrder(b, src, Q)
  PROVE  InTieOrder(a \o b, src, P \cup Q)
<1>1. PICK f : MadeOf(a, src, P, f)
               /\ \A j, k \in 1 .. Len(a) : j < k => TieOrder(src, f[j], f[k])
  BY DEF InTieOrder
<1>2. PICK g : MadeOf(b, src, Q, g)
               /\ \A j, k \in 1 .. Len(b) : j < k => TieOrder(src, g[j], g[k])
  BY DEF InTieOrder
<1>3. PICK h : /\ MadeOf(a \o b, src, P \cup Q, h)
               /\ Spliced(h, f, g, a, b, src, P, Q)
  BY <1>1, <1>2, JoinMade, Zenon
<1>4. ASSUME NEW j \in 1 .. Len(a \o b), NEW k \in 1 .. Len(a \o b), j < k
      PROVE  TieOrder(src, h[j], h[k])
  <2>2. CASE h[j] \in Ids(src, P) /\ h[k] \in Ids(src, Q) /\ Earlier(h[j], h[k])
    BY <2>2 DEF TieOrder
  <2>3. CASE j \in 1 .. Len(a) /\ k \in 1 .. Len(a) /\ h[j] = f[j] /\ h[k] = f[k]
    BY <1>1, <1>4, <2>3
  <2>4. CASE /\ j - Len(a) \in 1 .. Len(b) /\ k - Len(a) \in 1 .. Len(b)
             /\ h[j] = g[j - Len(a)] /\ h[k] = g[k - Len(a)]
    <3>1. j - Len(a) < k - Len(a)
      <4>1. Len(a) \in Nat /\ j \in Int /\ k \in Int
        BY <1>1, SeqFacts DEF MadeOf
      <4> QED
        BY <1>4, <4>1
    <3> QED
      BY <1>2, <2>4, <3>1
  <2> QED
    BY <1>3, <1>4, <2>2, <2>3, <2>4 DEF Spliced
<1> QED
  BY <1>3, <1>4 DEF InTieOrder

-----------------------------------------------------------------------------
(***************************************************************************)
(* The build.                                                              *)
(***************************************************************************)
\* What each output consists of, and in which order; what was built before what; what
\* checkfc is or was given last; and that file_contexts.bin is what checkfc has accepted.
RightLines(o, lines) ==
  /\ o \in Partitions => InBinOrder(lines, source, {o})
  /\ o = "local.tmp" => InBinOrder(lines, source, Range(Local))
  /\ o = "device.tmp" => InTieOrder(lines, source, Range(Device))
  /\ o = "device.sorted.tmp" => InBinOrder(lines, source, Range(Device))
  /\ o \in {"concat.tmp", "bin"} => InBinOrder(lines, source, Partitions)
OutRight == \A o \in DOMAIN out : RightLines(o, out[o])
InSequence == /\ Built("concat.tmp") => Built("device.sorted.tmp")
              /\ Built("bin") => Built("concat.tmp")
WholeGiven == /\ given.args = <<>> /\ given.two = TRUE /\ given.policy = Policy
              /\ given.file = AsFile(out["concat.tmp"])
BeingChecked ==
  build \in Outputs =>
    /\ ~Built(build) /\ pc # "idle"
    /\ \/ build = "device.sorted.tmp" /\ Built("device.tmp")
       \/ build = "bin" /\ Built("concat.tmp") /\ WholeGiven
BinAccepted == Built("bin") => /\ out["bin"] = out["concat.tmp"] /\ WholeGiven
                               /\ pc = "done" /\ status = 0
Begun   == pc # "idle" => IInv /\ AInv
NotIdle == pc = "idle" => status = Running
NoBuild == build = "no build" => out = <<>>
Building == build # "no build" =>
              source \in Inputs /\ OutRight /\ InSequence /\ BeingChecked /\ BinAccepted
FInv == Begun /\ NotIdle /\ NoBuild /\ Building

\* The outputs have different names, and none is a state of the build.
LEMMA OutputNames ==
  /\ Partitions \subseteq Outputs /\ "running" \notin Outputs /\ "failed" \notin Outputs
  /\ "no build" \notin Outputs /\ "bin" \in Outputs /\ "device.sorted.tmp" \in Outputs
  /\ \A o \in {"local.tmp", "device.tmp", "device.sorted.tmp", "concat.tmp", "bin",
               "sepolicy_test"} : o \notin Partitions
<1>1. Partitions = {"plat", "system_ext", "product", "vendor", "odm"}
  BY Indices
<1> QED
  BY <1>1 DEF Outputs

\* A run of checkfc does not go back to idle, and is of what it was given.
LEMMA StepIsOfGiven == Next => given' = given /\ pc # "idle" /\ pc' # "idle"
<1>1. Option \/ ShowUsage \/ Dispatch \/ Compare => given' = given /\ pc # "idle" /\ pc' # "idle"
  BY DEF Option, ShowUsage, Dispatch, Compare, Exit, Goto, Quiet
<1>2. Stat \/ ReadPolicy \/ ValidateEntry \/ Opened => given' = given /\ pc # "idle" /\ pc' # "idle"
  BY DEF Stat, ReadPolicy, ValidateEntry, Opened, Exit, Goto, Quiet
<1>3. OpenTest \/ SkipLine \/ Unusable \/ TestLine \/ EndOfTests
      => given' = given /\ pc # "idle" /\ pc' # "idle"
  BY DEF OpenTest, SkipLine, Unusable, TestLine, EndOfTests, Exit, Goto, Quiet
<1> QED
  BY <1>1, <1>2, <1>3 DEF Next

\* Begun is kept by steps of checkfc and by others.
LEMMA CheckStep == Begun /\ [Next]_vars => Begun' /\ (NotIdle => NotIdle')
<1>1. UNCHANGED vars => pc' = pc /\ status' = status
  BY DEF vars
<1>2. Begun /\ pc # "idle" /\ [Next]_vars => Begun'
  BY StepInv, StepAInv DEF Begun
<1>3. pc = "idle" /\ [Next]_vars => Begun'
  BY StepIsOfGiven, <1>1 DEF Begun
<1>4. [Next]_vars /\ NotIdle => NotIdle'
  BY StepIsOfGiven, <1>1 DEF NotIdle
<1> QED
  BY <1>2, <1>3, <1>4

\* A rule that runs checkfc begins it.
LEMMA CheckStarts == Begin' => Begun'
<1>1. Begin => Begun
  BY InitInv, AInit DEF Begun
<1> QED
  BY <1>1, PTL

\* Nothing is built at first, and checkfc on its own begins.
LEMMA BuildBegins == BuildInit \/ Alone => FInv
<1>1. ASSUME BuildInit PROVE FInv
  <2>1. /\ source \in Inputs /\ out = <<>> /\ build = "running" /\ pc = "idle"
        /\ status = Running /\ DOMAIN out = {}
    BY <1>1 DEF BuildInit
  <2> QED
    BY <2>1, OutputNames DEF FInv, Begun, NotIdle, NoBuild, Building, OutRight, InSequence,
                       BeingChecked, BinAccepted, Built
<1>2. ASSUME Alone PROVE FInv
  <2>1. Begun
    BY <1>2, InitBegins, InitInv, AInit DEF Alone, Begun
  <2> QED
    BY <1>2, <2>1 DEF Alone, Init, FInv, NotIdle, NoBuild, Building
<1> QED
  BY <1>1, <1>2

\* What is there when an output is added.
LEMMA WithIs ==
  ASSUME NEW o, NEW lines, out' = With(o, lines)
  PROVE  /\ DOMAIN out' = DOMAIN out \cup {o} /\ out'[o] = lines
         /\ \A p \in DOMAIN out : p # o => out'[p] = out[p]
BY DEF With

\* Whether the lines are right depends on the sources alone.
LEMMA SameSource ==
  ASSUME source' = source, NEW o, NEW lines, RightLines(o, lines) PROVE RightLines(o, lines)'
BY DEF RightLines

\* One more output.
LEMMA OutGrows ==
  ASSUME OutRight, source' = source, NEW o, NEW lines, RightLines(o, lines),
         out' = With(o, lines)
  PROVE  OutRight'
<1>1. /\ DOMAIN out' = DOMAIN out \cup {o} /\ out'[o] = lines
      /\ \A p \in DOMAIN out : p # o => out'[p] = out[p]
  BY WithIs
<1>2. ASSUME NEW p \in DOMAIN out' PROVE RightLines(p, out'[p])
  BY <1>1, Zenon DEF OutRight
<1>3. ASSUME NEW p \in DOMAIN out' PROVE RightLines(p, out[p])'
  BY <1>2 DEF RightLines
<1> QED
  BY <1>3 DEF OutRight

\* What was given to checkfc is the same, while the whole is there.
LEMMA GivenStays ==
  ASSUME NEW o, NEW lines, WholeGiven, given' = given, Built("concat.tmp"), ~Built(o),
         out' = With(o, lines)
  PROVE  WholeGiven'
<1>1. out'["concat.tmp"] = out["concat.tmp"]
  BY WithIs DEF Built
<1>2. AsFile(out["concat.tmp"])' = AsFile(out["concat.tmp"])
  BY <1>1 DEF AsFile
<1> QED
  BY <1>2 DEF WholeGiven

\* A rule that writes what it should keeps the invariant.
LEMMA WriteKeeps ==
  ASSUME FInv, NEW o, NEW lines, Write(o, lines), RightLines(o, lines), o # "bin",
         o = "concat.tmp" => Built("device.sorted.tmp")
  PROVE  FInv'
<1>1. /\ build = "running" /\ ~Built(o) /\ out' = With(o, lines) /\ source' = source
      /\ build' = build /\ UNCHANGED vars
  BY DEF Write
<1>2. given' = given /\ pc' = pc /\ status' = status
  BY <1>1 DEF vars
<1>3. \A p : Built(p)' <=> Built(p) \/ p = o
  BY <1>1, WithIs DEF Built
<1>4. source \in Inputs /\ OutRight /\ InSequence /\ BinAccepted
  BY <1>1 DEF FInv, Building
<1>5. Begun' /\ NotIdle'
  BY <1>1, CheckStep DEF FInv
<1>6. OutRight'
  BY <1>1, <1>4, OutGrows
<1>7. InSequence'
  BY <1>3, <1>4 DEF InSequence
<1>8. BeingChecked'
  BY <1>1, OutputNames DEF BeingChecked
<1>9. BinAccepted'
  <2> SUFFICES ASSUME Built("bin") PROVE BinAccepted'
    BY <1>3 DEF BinAccepted
  <2>2. Built("concat.tmp") /\ WholeGiven /\ out["bin"] = out["concat.tmp"]
    BY <1>4 DEF InSequence, BinAccepted
  <2>3. WholeGiven'
    BY <1>1, <1>2, <2>2, GivenStays
  <2>4. out'["bin"] = out["bin"] /\ out'["concat.tmp"] = out["concat.tmp"]
    BY <1>1, <2>2, WithIs DEF Built
  <2> QED
    BY <1>2, <1>4, <2>2, <2>3, <2>4 DEF BinAccepted
<1> QED
  BY <1>1, <1>4, <1>5, <1>6, <1>7, <1>8, <1>9 DEF FInv, NoBuild, Building

-----------------------------------------------------------------------------
\* The rules that write.
LEMMA ContextsKeeps == ASSUME FInv, NEW p \in Partitions, Contexts(p) PROVE FInv'
<1> DEFINE lines == NotBlank(source[p])
           new == IF p \in Range(Device) THEN Sorted(<<lines>>) ELSE lines
<1>1. Write(p, new)
  BY DEF Contexts
<1>2. source \in Inputs
  BY <1>1 DEF FInv, Building, Write
<1>3. InBinOrder(new, source, {p})
  BY <1>2, FileMade
<1> HIDE DEF new
<1>4. /\ p # "bin" /\ p # "concat.tmp" /\ p # "local.tmp" /\ p # "device.tmp"
      /\ p # "device.sorted.tmp"
  BY OutputNames
<1>5. RightLines(p, new)
  BY <1>3, <1>4 DEF RightLines
<1> QED
  BY <1>1, <1>4, <1>5, WriteKeeps

\* Three files, and two, one after the other.
LEMMA FlattenThree ==
  ASSUME NEW s, Len(s) = 3 PROVE FlattenSeq(s) = (s[1] \o s[2]) \o s[3]
<1> DEFINE n == 3
<1>1. n \in 1 .. 3 /\ n = 3 /\ Len(s) = n
  OBVIOUS
<1> HIDE DEF n
<1>2. FlattenSeq(s) = IF n = 1 THEN s[1] ELSE IF n = 2 THEN s[1] \o s[2]
                      ELSE (s[1] \o s[2]) \o s[3]
  BY <1>1, FlattenIs, Zenon
<1>3. n # 1 /\ n # 2
  BY <1>1
<1> QED
  BY <1>2, <1>3, Zenon

\* Two sequences, one after the other.
LEMMA FlattenTwo == ASSUME NEW s, Len(s) = 2 PROVE FlattenSeq(s) = s[1] \o s[2]
<1> DEFINE n == 2
<1>1. n \in 1 .. 3 /\ n = 2 /\ Len(s) = n
  OBVIOUS
<1> HIDE DEF n
<1>2. FlattenSeq(s) = IF n = 1 THEN s[1] ELSE IF n = 2 THEN s[1] \o s[2]
                      ELSE (s[1] \o s[2]) \o s[3]
  BY <1>1, FlattenIs, Zenon
<1>3. n # 1
  BY <1>1
<1> QED
  BY <1>1, <1>2, <1>3, Zenon

\* The outputs that the rules join.
LEMMA JoinedIs ==
  /\ Joined(Local) = (out["plat"] \o out["system_ext"]) \o out["product"]
  /\ Joined(Device) = out["vendor"] \o out["odm"]
  /\ Joined(<<"local.tmp", "device.sorted.tmp">>) = out["local.tmp"] \o out["device.sorted.tmp"]
<1>1. Joined(Local) = (out["plat"] \o out["system_ext"]) \o out["product"]
  <2> DEFINE s == [k \in DOMAIN Local |-> out[Local[k]]]
  <2>1. /\ Len(s) = 3 /\ s[1] = out["plat"] /\ s[2] = out["system_ext"] /\ s[3] = out["product"]
    BY DEF Local
  <2>2. Joined(Local) = FlattenSeq(s)
    BY DEF Joined
  <2> HIDE DEF s
  <2> QED
    BY <2>1, <2>2, FlattenThree
<1>2. Joined(Device) = out["vendor"] \o out["odm"]
  <2> DEFINE s == [k \in DOMAIN Device |-> out[Device[k]]]
  <2>1. Len(s) = 2 /\ s[1] = out["vendor"] /\ s[2] = out["odm"]
    BY DEF Device
  <2>2. Joined(Device) = FlattenSeq(s)
    BY DEF Joined
  <2> HIDE DEF s
  <2> QED
    BY <2>1, <2>2, FlattenTwo
<1>3. Joined(<<"local.tmp", "device.sorted.tmp">>) = out["local.tmp"] \o out["device.sorted.tmp"]
  <2> DEFINE os == <<"local.tmp", "device.sorted.tmp">>
             s == [k \in DOMAIN os |-> out[os[k]]]
  <2>1. Len(s) = 2 /\ s[1] = out["local.tmp"] /\ s[2] = out["device.sorted.tmp"]
    OBVIOUS
  <2>2. Joined(os) = FlattenSeq(s)
    BY DEF Joined
  <2> HIDE DEF s
  <2> QED
    BY <2>1, <2>2, FlattenTwo
<1> QED
  BY <1>1, <1>2, <1>3

\* The files of the platform are one after the other.
LEMMA LocalTmpKeeps == FInv /\ LocalTmp => FInv'
<1> SUFFICES ASSUME FInv, LocalTmp PROVE FInv'
  OBVIOUS
<1>1. Write("local.tmp", Joined(Local)) /\ \A o \in {"plat", "system_ext", "product"} : Built(o)
  BY Indices DEF LocalTmp, Ready
<1>2. source \in Inputs /\ OutRight
  BY <1>1 DEF FInv, Building, Write
<1>3. /\ InBinOrder(out["plat"], source, {"plat"})
      /\ InBinOrder(out["system_ext"], source, {"system_ext"})
      /\ InBinOrder(out["product"], source, {"product"})
  BY <1>1, <1>2, Indices DEF OutRight, RightLines, Built
<1>4. {"plat"} \cap Range(Device) = {} /\ {"plat", "system_ext"} \cap Range(Device) = {}
  BY Indices
<1>5. /\ {"plat"} \in SUBSET Partitions /\ {"system_ext"} \in SUBSET Partitions
      /\ {"product"} \in SUBSET Partitions /\ {"plat", "system_ext"} \in SUBSET Partitions
  BY Indices
<1>6. /\ \A p \in {"plat"}, q \in {"system_ext"} : Index(p) < Index(q)
      /\ \A p \in {"plat", "system_ext"}, q \in {"product"} : Index(p) < Index(q)
  BY Indices
<1>7. InBinOrder(out["plat"] \o out["system_ext"], source, {"plat"} \cup {"system_ext"})
  BY <1>2, <1>3, <1>4, <1>5, <1>6, JoinBin
<1>8. InBinOrder(out["plat"] \o out["system_ext"], source, {"plat", "system_ext"})
  <2>1. {"plat"} \cup {"system_ext"} = {"plat", "system_ext"}
    OBVIOUS
  <2> QED
    BY <1>7, <2>1
<1>9. InBinOrder((out["plat"] \o out["system_ext"]) \o out["product"], source,
                 {"plat", "system_ext"} \cup {"product"})
  BY <1>2, <1>3, <1>4, <1>5, <1>6, <1>8, JoinBin
<1>10. InBinOrder(Joined(Local), source, Range(Local))
  <2>1. {"plat", "system_ext"} \cup {"product"} = Range(Local)
    BY Indices
  <2> QED
    BY <1>9, <2>1, JoinedIs
<1>11. RightLines("local.tmp", Joined(Local))
  BY <1>10, OutputNames DEF RightLines
<1> QED
  BY <1>1, <1>11, WriteKeeps

\* So are those of the device, which are not yet in order.
LEMMA DeviceTmpKeeps == FInv /\ DeviceTmp => FInv'
<1> SUFFICES ASSUME FInv, DeviceTmp PROVE FInv'
  OBVIOUS
<1>1. Write("device.tmp", Joined(Device)) /\ \A o \in {"vendor", "odm"} : Built(o)
  BY Indices DEF DeviceTmp, Ready
<1>2. source \in Inputs /\ OutRight
  BY <1>1 DEF FInv, Building, Write
<1>3. InBinOrder(out["vendor"], source, {"vendor"}) /\ InBinOrder(out["odm"], source, {"odm"})
  BY <1>1, <1>2, Indices DEF OutRight, RightLines, Built
<1>4. InTieOrder(out["vendor"], source, {"vendor"}) /\ InTieOrder(out["odm"], source, {"odm"})
  BY <1>3, BinIsTie
<1>5. {"vendor"} \in SUBSET Partitions /\ {"odm"} \in SUBSET Partitions
  BY Indices
<1>6. \A p \in {"vendor"}, q \in {"odm"} : Index(p) < Index(q)
  BY Indices
<1>7. InTieOrder(out["vendor"] \o out["odm"], source, {"vendor"} \cup {"odm"})
  BY <1>2, <1>4, <1>5, <1>6, JoinTie
<1>8. InTieOrder(Joined(Device), source, Range(Device))
  <2>1. {"vendor"} \cup {"odm"} = Range(Device)
    BY Indices
  <2> QED
    BY <1>7, <2>1, JoinedIs
<1>9. RightLines("device.tmp", Joined(Device))
  BY <1>8, OutputNames DEF RightLines
<1> QED
  BY <1>1, <1>9, WriteKeeps

\* The device's, when sorted, come after the platform's.
LEMMA ConcatTmpKeeps == FInv /\ ConcatTmp => FInv'
<1> SUFFICES ASSUME FInv, ConcatTmp PROVE FInv'
  OBVIOUS
<1> DEFINE os == <<"local.tmp", "device.sorted.tmp">>
<1>1. Write("concat.tmp", Joined(os)) /\ Built("local.tmp") /\ Built("device.sorted.tmp")
  <2>1. "local.tmp" \in Range(os) /\ "device.sorted.tmp" \in Range(os)
    BY DEF Range
  <2> QED
    BY <2>1 DEF ConcatTmp, Ready
<1>2. source \in Inputs /\ OutRight
  BY <1>1 DEF FInv, Building, Write
<1>3. /\ InBinOrder(out["local.tmp"], source, Range(Local))
      /\ InBinOrder(out["device.sorted.tmp"], source, Range(Device))
  BY <1>1, <1>2 DEF OutRight, RightLines, Built
<1>4. /\ Range(Local) \in SUBSET Partitions /\ Range(Device) \in SUBSET Partitions
      /\ Range(Local) \cap Range(Device) = {}
      /\ \A p \in Range(Local), q \in Range(Device) : Index(p) < Index(q)
  BY Indices
<1>5. InBinOrder(out["local.tmp"] \o out["device.sorted.tmp"], source,
                 Range(Local) \cup Range(Device))
  BY <1>2, <1>3, <1>4, JoinBin
<1>6. InBinOrder(Joined(os), source, Partitions)
  BY <1>5, JoinedIs DEF Partitions
<1> HIDE DEF os
<1>7. RightLines("concat.tmp", Joined(os))
  BY <1>6, OutputNames DEF RightLines
<1> QED
  BY <1>1, <1>7, WriteKeeps

-----------------------------------------------------------------------------
\* The rules that run checkfc.
LEMMA StartBegins ==
  ASSUME NEW o, NEW options \in {<<>>, <<"e">>}, NEW lines, IsSeq(lines),
         StartCheckFc(o, options, lines)
  PROVE  Begin' /\ given'.args = options /\ given'.two = TRUE /\ given'.policy = Policy
         /\ given'.file = AsFile(lines)
<1> DEFINE file == AsFile(lines)
<1>1. given' = [args |-> options, two |-> TRUE, policy |-> Policy, file |-> file, tests |-> <<>>]
  BY DEF StartCheckFc
<1>2. Len(lines) \in Nat /\ DOMAIN lines = 1 .. Len(lines)
  BY SeqFacts
<1>3. file.size = Len(lines) /\ file.entries \in Seq(Range(file.entries))
  <2> DEFINE es == file.entries
  <2>1. file.size = Len(lines)
    BY DEF AsFile
  <2>2. /\ DOMAIN es = 1 .. Len(lines)
        /\ es = [k \in 1 .. Len(lines) |-> es[k]]
    BY <1>2 DEF AsFile
  <2> HIDE DEF es
  <2>3. es \in Seq(Range(es))
    BY <1>2, <2>2 DEF Range
  <2> QED
    BY <2>1, <2>3 DEF es
<1> HIDE DEF file
<1>4. options \in Seq(Range(options))
  <2>1. options = <<>> \/ options = <<"e">>
    OBVIOUS
  <2>2. <<"e">> \in Seq(Range(<<"e">>))
    BY DEF Range
  <2>3. <<>> \in Seq(Range(<<>>))
    OBVIOUS
  <2> QED
    BY <2>1, <2>2, <2>3
<1>5. <<>> \in Seq(Range(<<>>))
  OBVIOUS
<1>6. IsCase(given)'
  <2>1. /\ given'.args = options /\ given'.tests = <<>> /\ given'.file = file
    BY <1>1
  <2> QED
    BY <1>2, <1>3, <1>4, <1>5, <2>1, Zenon DEF IsCase
<1>7. Begin'
  BY <1>6 DEF Begin, StartCheckFc
<1> QED
  BY <1>1, <1>7 DEF file

\* The whole is checked when it is there and as it is.
LEMMA StartKeeps ==
  ASSUME FInv, NEW o \in {"device.sorted.tmp", "bin"}, NEW options \in {<<>>, <<"e">>}, NEW lines,
         IsSeq(lines), StartCheckFc(o, options, lines),
         o = "device.sorted.tmp" => Built("device.tmp"),
         o = "bin" => /\ Built("concat.tmp") /\ options = <<>> /\ lines = out["concat.tmp"]
  PROVE  FInv'
<1>1. /\ build = "running" /\ ~Built(o) /\ build' = o /\ source' = source /\ out' = out
      /\ pc' = "options"
  BY DEF StartCheckFc
<1>2. Begin' /\ given'.args = options /\ given'.two = TRUE /\ given'.policy = Policy
      /\ given'.file = AsFile(lines)
  BY StartBegins
<1>3. source \in Inputs /\ OutRight /\ InSequence /\ BinAccepted
  BY <1>1 DEF FInv, Building
<1>4. \A p : Built(p)' <=> Built(p)
  BY <1>1 DEF Built
<1>5. Begun' /\ NotIdle'
  BY <1>1, <1>2, CheckStarts DEF NotIdle
<1>6. OutRight' /\ InSequence'
  BY <1>1, <1>3, <1>4 DEF OutRight, RightLines, InSequence
<1>7. ~Built("bin")
  BY <1>1, <1>3 DEF InSequence
<1>8. o = "bin" => WholeGiven'
  <2> SUFFICES ASSUME o = "bin" PROVE WholeGiven'
    OBVIOUS
  <2>1. AsFile(out["concat.tmp"])' = AsFile(lines)
    BY <1>1 DEF AsFile
  <2> QED
    BY <1>2, <2>1 DEF WholeGiven
<1>9. BeingChecked' /\ BinAccepted'
  BY <1>1, <1>4, <1>7, <1>8 DEF BeingChecked, BinAccepted
<1>10. NoBuild'
  BY <1>1 DEF NoBuild
<1> QED
  BY <1>1, <1>3, <1>5, <1>6, <1>9, <1>10 DEF FInv, Building

\* The two rules that run checkfc.
LEMMA StartsKeep == FInv /\ (CheckDevice \/ CheckWhole) => FInv'
<1> SUFFICES ASSUME FInv, CheckDevice \/ CheckWhole PROVE FInv'
  OBVIOUS
<1>1. OutRight
  BY DEF CheckDevice, CheckWhole, StartCheckFc, FInv, Building
<1>2. CASE CheckDevice
  <2>1. Built("device.tmp") /\ StartCheckFc("device.sorted.tmp", <<"e">>, out["device.tmp"])
    BY <1>2 DEF CheckDevice
  <2>2. InTieOrder(out["device.tmp"], source, Range(Device))
    BY <1>1, <2>1 DEF OutRight, RightLines, Built
  <2>3. IsSeq(out["device.tmp"])
    BY <2>2 DEF InTieOrder, MadeOf
  <2> QED
    BY <2>1, <2>3, StartKeeps
<1>3. CASE CheckWhole
  <2>1. Built("concat.tmp") /\ StartCheckFc("bin", <<>>, out["concat.tmp"])
    BY <1>3 DEF CheckWhole, Whole
  <2>2. InBinOrder(out["concat.tmp"], source, Partitions)
    BY <1>1, <2>1 DEF OutRight, RightLines, Built
  <2>3. IsSeq(out["concat.tmp"])
    BY <2>2 DEF InBinOrder, MadeOf
  <2> QED
    BY <2>1, <2>3, StartKeeps
<1> QED
  BY <1>2, <1>3

\* While checkfc runs no output changes.
LEMMA CheckingKeeps == FInv /\ (Checking \/ CheckFcAlone) => FInv'
<1> SUFFICES ASSUME FInv, Checking \/ CheckFcAlone PROVE FInv'
  OBVIOUS
<1>1. /\ Next /\ source' = source /\ out' = out /\ build' = build
      /\ (build = "no build" \/ (build \in Outputs /\ pc # "done"))
  BY DEF Checking, CheckFcAlone, buildVars
<1>2. given' = given /\ pc' # "idle"
  BY <1>1, StepIsOfGiven
<1>3. Begun' /\ NotIdle'
  BY <1>1, CheckStep DEF FInv
<1>4. NoBuild'
  BY <1>1 DEF FInv, NoBuild
<1>5. Building'
  <2> SUFFICES ASSUME build # "no build" PROVE Building'
    BY <1>1 DEF Building
  <2>1. /\ source \in Inputs /\ OutRight /\ InSequence /\ BeingChecked /\ ~Built("bin")
    BY <1>1 DEF FInv, Building, BinAccepted
  <2>2. \A p : Built(p)' <=> Built(p)
    BY <1>1 DEF Built
  <2>3. OutRight' /\ InSequence'
    BY <1>1, <2>1, <2>2 DEF OutRight, RightLines, InSequence
  <2>4. WholeGiven => WholeGiven'
    BY <1>1, <1>2 DEF WholeGiven, AsFile
  <2>5. BeingChecked' /\ BinAccepted'
    BY <1>1, <1>2, <2>1, <2>2, <2>4 DEF BeingChecked, BinAccepted
  <2> QED
    BY <1>1, <2>1, <2>3, <2>5 DEF Building
<1> QED
  BY <1>3, <1>4, <1>5 DEF FInv

\* What checkfc accepts becomes an output; what it was given is still what is there.
LEMMA CheckedKeeps == FInv /\ Checked => FInv'
<1> SUFFICES ASSUME FInv, Checked PROVE FInv'
  OBVIOUS
<1>1. /\ build \in Outputs /\ pc = "done" /\ UNCHANGED vars /\ source' = source
      /\ build' \in {"running", "failed"}
  BY DEF Checked
<1>2. given' = given /\ pc' = pc /\ status' = status
  BY <1>1 DEF vars
<1>3. source \in Inputs /\ OutRight /\ InSequence /\ BeingChecked /\ BinAccepted
  BY <1>1, OutputNames DEF FInv, Building
<1>4. Begun' /\ NotIdle'
  BY <1>1, CheckStep DEF FInv
<1>5. NoBuild' /\ BeingChecked'
  BY <1>1, OutputNames DEF NoBuild, BeingChecked
<1>6. ~Built(build) /\ ~Built("bin")
  <2>1. ~Built(build) /\ build \in {"device.sorted.tmp", "bin"}
    BY <1>1, <1>3 DEF BeingChecked
  <2> QED
    BY <1>3, <2>1 DEF InSequence
<1>7. CASE status # 0
  <2>1. out' = out
    BY <1>7 DEF Checked
  <2>2. \A p : Built(p)' <=> Built(p)
    BY <2>1 DEF Built
  <2>3. OutRight' /\ InSequence' /\ BinAccepted'
    BY <1>1, <1>3, <1>6, <2>1, <2>2 DEF OutRight, RightLines, InSequence, BinAccepted
  <2> QED
    BY <1>1, <1>3, <1>4, <1>5, <2>3 DEF FInv, Building
<1>8. CASE status = 0
  <2> DEFINE lines == IF build = "bin" THEN out["concat.tmp"] ELSE Sorted(<<out["device.tmp"]>>)
  <2>1. out' = With(build, lines)
    BY <1>8 DEF Checked
  <2>2. \A p : Built(p)' <=> Built(p) \/ p = build
    BY <2>1, WithIs DEF Built
  <2>3. RightLines(build, lines)
    <3>1. CASE build = "bin" /\ Built("concat.tmp")
      <4>1. InBinOrder(out["concat.tmp"], source, Partitions)
        BY <1>3, <3>1 DEF OutRight, RightLines, Built
      <4> QED
        BY <3>1, <4>1, OutputNames DEF RightLines
    <3>2. CASE build = "device.sorted.tmp" /\ Built("device.tmp")
      <4>1. InTieOrder(out["device.tmp"], source, Range(Device))
        BY <1>3, <3>2 DEF OutRight, RightLines, Built
      <4>2. InBinOrder(Sorted(<<out["device.tmp"]>>), source, Range(Device))
        BY <1>3, <4>1, SortMade
      <4> QED
        BY <3>2, <4>2, OutputNames DEF RightLines
    <3> QED
      BY <1>1, <1>3, <3>1, <3>2 DEF BeingChecked
  <2>4. build = "bin" => lines = out["concat.tmp"]
    OBVIOUS
  <2> HIDE DEF lines
  <2>5. OutRight'
    BY <1>1, <1>3, <2>1, <2>3, OutGrows
  <2>6. InSequence'
    BY <1>1, <1>3, <1>6, <2>2 DEF InSequence, BeingChecked
  <2>7. BinAccepted'
    <3> SUFFICES ASSUME build = "bin" PROVE BinAccepted'
      BY <1>6, <2>2 DEF BinAccepted
    <3>1. Built("concat.tmp") /\ WholeGiven
      BY <1>1, <1>3 DEF BeingChecked
    <3>2. WholeGiven'
      BY <1>2, <1>6, <2>1, <3>1, GivenStays
    <3>3. out'["bin"] = lines /\ out'["concat.tmp"] = out["concat.tmp"]
      BY <2>1, <3>1, WithIs DEF Built
    <3> QED
      BY <1>1, <1>2, <1>8, <2>4, <3>2, <3>3 DEF BinAccepted
  <2> QED
    BY <1>1, <1>3, <1>4, <1>5, <2>5, <2>6, <2>7 DEF FInv, Building
<1> QED
  BY <1>7, <1>8

\* The tests write a stamp, or end the build.
LEMMA TestKeeps == FInv /\ SepolicyTest => FInv'
<1> SUFFICES ASSUME FInv, SepolicyTest PROVE FInv'
  OBVIOUS
<1>1. CASE Write("sepolicy_test", <<>>)
  <2>1. RightLines("sepolicy_test", <<>>)
    BY OutputNames DEF RightLines
  <2> QED
    BY <1>1, <2>1, WriteKeeps
<1>2. CASE build = "running" /\ build' = "failed" /\ UNCHANGED <<vars, source, out>>
  <2>1. UNCHANGED vars /\ source' = source /\ out' = out
    BY <1>2
  <2>2. given' = given /\ pc' = pc /\ status' = status
    BY <2>1 DEF vars
  <2>3. source \in Inputs /\ OutRight /\ InSequence /\ BinAccepted
    BY <1>2 DEF FInv, Building
  <2>4. \A p : Built(p)' <=> Built(p)
    BY <2>1 DEF Built
  <2>5. OutRight' /\ InSequence' /\ BinAccepted'
    BY <2>1, <2>2, <2>3, <2>4 DEF OutRight, RightLines, InSequence, BinAccepted, WholeGiven, AsFile
  <2>6. Begun' /\ NotIdle'
    BY <2>1, CheckStep DEF FInv
  <2> QED
    BY <1>2, <2>1, <2>3, <2>5, <2>6, OutputNames DEF FInv, NoBuild, Building, BeingChecked
<1> QED
  BY <1>1, <1>2 DEF SepolicyTest

\* Every step of the build keeps the invariant.
LEMMA FilesStepInv == FInv /\ [TestNext]_<<vars, buildVars>> => FInv'
<1> SUFFICES ASSUME FInv, [TestNext]_<<vars, buildVars>> PROVE FInv'
  OBVIOUS
<1>1. CASE UNCHANGED <<vars, buildVars>>
  <2>1. UNCHANGED vars /\ source' = source /\ out' = out /\ build' = build
    BY <1>1 DEF buildVars
  <2>2. given' = given /\ pc' = pc /\ status' = status
    BY <2>1 DEF vars
  <2>3. Begun' /\ NotIdle'
    BY <2>1, CheckStep DEF FInv
  <2>4. \A p : Built(p)' <=> Built(p)
    BY <2>1 DEF Built
  <2>5. Building'
    BY <2>1, <2>2, <2>4 DEF FInv, Building, OutRight, RightLines, InSequence, BeingChecked,
                            BinAccepted, WholeGiven, AsFile
  <2> QED
    BY <2>1, <2>3, <2>5 DEF FInv, NoBuild
<1> QED
  BY <1>1, ContextsKeeps, LocalTmpKeeps, DeviceTmpKeeps, ConcatTmpKeeps, StartsKeep, CheckingKeeps,
     CheckedKeeps, TestKeeps DEF TestNext, BuildNext

-----------------------------------------------------------------------------
(***************************************************************************)
(* What is in file_contexts.bin.                                           *)
(***************************************************************************)
\* The lines that are read are those of all partitions.
LEMMA ReadIs == Read = Ids(source, Partitions) /\ \A l : Line(l) = LineOf(source, l)
BY DEF Read, Ids, Line, LineOf

\* The whole is what checkfc was given last, and its entries are the lines of the files.
BinEntries(f) ==
  /\ f \in [1 .. Len(given.file.entries) -> Read]
  /\ \A l \in Read : \E k \in 1 .. Len(given.file.entries) : f[k] = l
  /\ \A k \in 1 .. Len(given.file.entries) :
       /\ given.file.entries[k].paths = Denoted(Line(f[k]).path)
       /\ given.file.entries[k].static = (Operators(Line(f[k]).path) = {})
       /\ given.file.entries[k].type = Line(f[k]).type
  /\ \A j, k \in 1 .. Len(given.file.entries) : j < k => BinOrder(source, f[j], f[k])

\* When file_contexts.bin is there, the last run of checkfc was on it, without an option, and
\* succeeded.
LEMMA WholeIs ==
  ASSUME FInv, BinBuilt
  PROVE  /\ source \in Inputs /\ pc = "done" /\ status = 0 /\ AcceptedRight
         /\ given.args = <<>> /\ given.two = TRUE /\ given.policy = Policy
         /\ given.file.size = Len(given.file.entries) /\ Len(given.file.entries) \in Nat
         /\ DOMAIN given.file.entries = 1 .. Len(given.file.entries)
         /\ \E f : BinEntries(f)
<1> DEFINE lines == out["concat.tmp"]
           es == given.file.entries
<1>1. Built("bin") /\ pc = "done"
  BY DEF BinBuilt
<1>2. build # "no build"
  <2>1. DOMAIN <<>> = {}
    OBVIOUS
  <2> QED
    BY <1>1, <2>1 DEF FInv, NoBuild, Built
<1>3. source \in Inputs /\ OutRight /\ WholeGiven /\ status = 0 /\ Built("concat.tmp")
  BY <1>1, <1>2 DEF FInv, Building, BinAccepted, InSequence
<1>4. AcceptedRight
  BY <1>1 DEF FInv, Begun, AInv
<1>5. PICK f : MadeOf(lines, source, Partitions, f)
               /\ \A j, k \in 1 .. Len(lines) : j < k => BinOrder(source, f[j], f[k])
  BY <1>3 DEF OutRight, RightLines, Built, InBinOrder
<1>6. IsSeq(lines) /\ DOMAIN lines = 1 .. Len(lines) /\ Len(lines) \in Nat
  BY <1>5, SeqFacts DEF MadeOf
<1>7. /\ given.file.size = Len(lines) /\ Len(es) = Len(lines) /\ DOMAIN es = 1 .. Len(lines)
      /\ \A k \in 1 .. Len(lines) : /\ es[k].paths = Denoted(lines[k].path)
                                    /\ es[k].static = (Operators(lines[k].path) = {})
                                    /\ es[k].type = lines[k].type
  <2>1. /\ given.file.size = Len(lines)
        /\ es = [k \in 1 .. Len(lines) |->
                  [paths |-> Denoted(lines[k].path), static |-> Operators(lines[k].path) = {},
                   type |-> lines[k].type]]
    BY <1>3, <1>6 DEF WholeGiven, AsFile
  <2> HIDE DEF lines, es
  <2>2. Len(es) = Len(lines)
    BY <1>6, <2>1
  <2> QED
    BY <2>1, <2>2
<1> HIDE DEF lines
<1>8. \A k \in 1 .. Len(lines) : lines[k] = Line(f[k])
  BY <1>5, ReadIs DEF MadeOf
<1>9. f \in [1 .. Len(lines) -> Read] /\ \A l \in Read : \E k \in 1 .. Len(lines) : f[k] = l
  BY <1>5, ReadIs DEF MadeOf
<1> HIDE DEF es
<1>10. \A k \in 1 .. Len(es) : /\ es[k].paths = Denoted(Line(f[k]).path)
                              /\ es[k].static = (Operators(Line(f[k]).path) = {})
                              /\ es[k].type = Line(f[k]).type
  BY <1>7, <1>8
<1>11. \A j, k \in 1 .. Len(es) : j < k => BinOrder(source, f[j], f[k])
  BY <1>5, <1>7
<1>12. /\ f \in [1 .. Len(es) -> Read]
       /\ \A l \in Read : \E k \in 1 .. Len(es) : f[k] = l
  BY <1>7, <1>9
<1>13. BinEntries(f)
  BY <1>10, <1>11, <1>12, Zenon DEF BinEntries, es
<1> QED
  BY <1>1, <1>3, <1>4, <1>6, <1>7, <1>13 DEF WholeGiven, es

\* So checkfc has looked at each of the lines.
LEMMA BinIsOfPolicy == FInv => BinValid
<1> SUFFICES ASSUME FInv, BinBuilt
             PROVE  /\ Read # {}
                    /\ \A l \in Read : LET t == Line(l).type
                         IN  /\ t \in DOMAIN Policy.flavor /\ Policy.flavor[t] = "type"
                             /\ t = Exempt \/ \E a \in Attributes("file") : a \in Policy.attrs[t]
  BY DEF BinValid
<1> DEFINE es == given.file.entries
<1>1. /\ status = 0 /\ pc = "done" /\ AcceptedRight /\ given.args = <<>> /\ given.two = TRUE
      /\ given.policy = Policy /\ given.file.size = Len(es) /\ Len(es) \in Nat
      /\ DOMAIN es = 1 .. Len(es)
  BY WholeIs
<1>2. PICK f : BinEntries(f)
  BY WholeIs
<1>3. Range(given.args) = {} /\ DOMAIN given.args = {}
  BY <1>1 DEF Range
<1>4. Checks /\ ~Asked("e") /\ LastMode = "file"
  BY <1>1, <1>3 DEF Checks, Asked, LastMode, ModeOptions
<1>5. /\ given.file.size # 0
      /\ \A e \in Range(es) :
           /\ e.type \in DOMAIN Policy.flavor /\ Policy.flavor[e.type] = "type"
           /\ e.type = Exempt \/ \E a \in Attributes("file") : a \in Policy.attrs[e.type]
  BY <1>1, <1>3, <1>4 DEF AcceptedRight, Names
<1>6. Read # {}
  BY <1>1, <1>2, <1>5 DEF BinEntries
<1>7. ASSUME NEW l \in Read PROVE \E e \in Range(es) : e.type = Line(l).type
  <2>1. PICK k \in 1 .. Len(es) : f[k] = l
    BY <1>2 DEF BinEntries
  <2>2. es[k].type = Line(l).type /\ es[k] \in Range(es)
    BY <1>1, <1>2, <2>1 DEF BinEntries, Range
  <2> QED
    BY <2>2
<1> QED
  BY <1>5, <1>6, <1>7

\* No file_contexts.bin has a label that is not one of the policy for files.
THEOREM BinIsValid == TestSpec => []BinValid
BY BuildBegins, FilesStepInv, BinIsOfPolicy, PTL DEF TestSpec

\* In a build, too, checkfc accepts what it should, and its status 2 means what it says.
THEOREM ChecksAreRight == TestSpec => [](AcceptedRight /\ TwoMeansRight)
<1>1. FInv => AcceptedRight /\ TwoMeansRight
  BY DEF FInv, Begun, NotIdle, IInv, AInv, AcceptedRight, TwoMeansRight, Running
<1> QED
  BY BuildBegins, FilesStepInv, <1>1, PTL DEF TestSpec

-----------------------------------------------------------------------------
(***************************************************************************)
(* Which line labels a path.                                               *)
(***************************************************************************)
OfDev(l, n) == IF OfDevice(l) THEN n ELSE 0

\* A rank has seven parts, which are numbers.
LEMMA RankIs ==
  ASSUME source \in Inputs, NEW l \in Read
  PROVE  /\ Rank(l) \in [1 .. 7 -> Nat]
         /\ Rank(l)[1] = (IF Operators(Line(l).path) = {} THEN 1 ELSE 0)
         /\ Rank(l)[2] = OfDev(l, 1) /\ Rank(l)[3] = OfDev(l, Node(Line(l)).stem_len)
         /\ Rank(l)[4] = OfDev(l, Node(Line(l)).str_len)
         /\ Rank(l)[5] = OfDev(l, IF Node(Line(l)).typed THEN 1 ELSE 0)
         /\ Rank(l)[6] = Index(l[1]) /\ Rank(l)[7] = l[2]
         /\ IsNode(Node(Line(l))) /\ Node(Line(l)).meta = IsMeta(Line(l).path)
         /\ l = <<l[1], l[2]>> /\ l[1] \in Partitions
<1> DEFINE n == Node(Line(l))
           a == IF Operators(Line(l).path) = {} THEN 1 ELSE 0
           b == OfDev(l, 1)
           c == OfDev(l, n.stem_len)
           d == OfDev(l, n.str_len)
           e == OfDev(l, IF n.typed THEN 1 ELSE 0)
           x == Index(l[1])
           y == l[2]
<1>1. /\ l = <<l[1], l[2]>> /\ l[1] \in Partitions /\ y \in Nat /\ IsSeq(Line(l).path)
  <2>1. l \in Ids(source, Partitions) /\ Partitions \in SUBSET Partitions
    BY ReadIs
  <2> QED
    BY <2>1, IdFacts, ReadIs
<1>2. IsNode(n)
  BY <1>1, NodeIs
<1>3. /\ n.meta = IsMeta(Line(l).path) /\ n.stem_len = StemLen(Line(l).path)
      /\ n.str_len = StrLen(Line(l).path) /\ n.typed = (Line(l).filetype # "")
  BY DEF Node
<1>4. x \in Nat
  BY <1>1, Indices
<1>5. Rank(l) = <<a, b, c, d, e, x, y>>
  <2>1. e = IF OfDevice(l) THEN IF Line(l).filetype = "" THEN 0 ELSE 1 ELSE 0
    BY <1>3 DEF OfDev
  <2>2. /\ c = (IF OfDevice(l) THEN StemLen(Line(l).path) ELSE 0)
        /\ d = (IF OfDevice(l) THEN StrLen(Line(l).path) ELSE 0)
        /\ b = (IF OfDevice(l) THEN 1 ELSE 0)
    BY <1>3 DEF OfDev
  <2> HIDE DEF b, c, d, e
  <2> QED
    BY <2>1, <2>2, Zenon DEF Rank, OfDevice, Index
<1>6. a \in Nat /\ b \in Nat /\ c \in Nat /\ d \in Nat /\ e \in Nat
  BY <1>2 DEF IsNode, OfDev
<1> HIDE DEF a, b, c, d, e, x, y
<1>7. /\ Rank(l) \in [1 .. 7 -> Nat] /\ Rank(l)[1] = a /\ Rank(l)[2] = b /\ Rank(l)[3] = c
      /\ Rank(l)[4] = d /\ Rank(l)[5] = e /\ Rank(l)[6] = x /\ Rank(l)[7] = y
  BY <1>1, <1>4, <1>5, <1>6
<1> QED
  BY <1>1, <1>2, <1>3, <1>7, Zenon DEF a, b, c, d, e, x, y

\* Of two ranks one at most is above the other.
LEMMA AboveIsStrict ==
  ASSUME NEW r \in [1 .. 7 -> Nat], NEW s \in [1 .. 7 -> Nat], Above(r, s)
  PROVE  ~Above(s, r)
<1> SUFFICES ASSUME Above(s, r) PROVE FALSE
  OBVIOUS
<1>1. PICK n \in 1 .. 7 : r[n] > s[n] /\ \A k \in 1 .. n - 1 : r[k] = s[k]
  BY DEF Above
<1>2. PICK m \in 1 .. 7 : s[m] > r[m] /\ \A k \in 1 .. m - 1 : s[k] = r[k]
  BY DEF Above
<1>3. n < m \/ m < n \/ m = n
  OBVIOUS
<1>4. r[n] \in Nat /\ s[n] \in Nat /\ r[m] \in Nat /\ s[m] \in Nat
  OBVIOUS
<1>5. ~(n < m)
  BY <1>1, <1>2, <1>4
<1>6. ~(m < n)
  BY <1>1, <1>2, <1>4
<1> QED
  BY <1>1, <1>2, <1>3, <1>4, <1>5, <1>6

\* Of two lines that are both regular expressions, or both none, the one further down in
\* file_contexts.bin ranks above the other.
LEMMA LaterIsAbove ==
  ASSUME source \in Inputs, NEW o \in Read, NEW w \in Read, BinOrder(source, o, w),
         Operators(Line(o).path) = {} <=> Operators(Line(w).path) = {},
         \A l \in Read : l[1] \in Range(Device) => MetaRight(Line(l).path)
  PROVE  Above(Rank(w), Rank(o)) /\ w # o
<1> DEFINE r == Rank(w)
           s == Rank(o)
           a == Node(Line(o))
           b == Node(Line(w))
<1>1. /\ r \in [1 .. 7 -> Nat] /\ s \in [1 .. 7 -> Nat] /\ IsNode(a) /\ IsNode(b)
      /\ w = <<w[1], w[2]>> /\ o = <<o[1], o[2]>> /\ w[1] \in Partitions /\ o[1] \in Partitions
      /\ r[1] = s[1] /\ r[6] = Index(w[1]) /\ s[6] = Index(o[1]) /\ r[7] = w[2] /\ s[7] = o[2]
  BY RankIs
<1>2. /\ r[2] = OfDev(w, 1) /\ r[3] = OfDev(w, b.stem_len) /\ r[4] = OfDev(w, b.str_len)
      /\ r[5] = OfDev(w, IF b.typed THEN 1 ELSE 0)
      /\ s[2] = OfDev(o, 1) /\ s[3] = OfDev(o, a.stem_len) /\ s[4] = OfDev(o, a.str_len)
      /\ s[5] = OfDev(o, IF a.typed THEN 1 ELSE 0)
  BY RankIs
<1>3. \A p, q \in Partitions : Index(p) = Index(q) => p = q
  BY Indices
<1>4. /\ \A p \in Partitions : Index(p) \in Nat
      /\ \A p, q \in Partitions : p \in Range(Device) /\ q \notin Range(Device)
                                 => Index(q) < Index(p)
  BY Indices
<1>5. OfDevice(o) /\ OfDevice(w) => a.meta = b.meta
  <2>1. a.meta = IsMeta(Line(o).path) /\ b.meta = IsMeta(Line(w).path)
    BY RankIs
  <2>2. IsMeta(Line(o).path) \in BOOLEAN /\ IsMeta(Line(w).path) \in BOOLEAN
    BY DEF IsMeta
  <2> QED
    BY <2>1, <2>2 DEF OfDevice, MetaRight
<1> HIDE DEF r, s, a, b
<1>6. ASSUME NEW n \in 1 .. 7, r[n] > s[n], \A k \in 1 .. n - 1 : r[k] = s[k]
      PROVE  Above(r, s)
  BY <1>1, <1>6 DEF Above
<1>7. /\ \A k \in 1 .. 2 - 1 : k = 1
      /\ \A k \in 1 .. 3 - 1 : k = 1 \/ k = 2
      /\ \A k \in 1 .. 4 - 1 : k = 1 \/ k = 2 \/ k = 3
      /\ \A k \in 1 .. 5 - 1 : k = 1 \/ k = 2 \/ k = 3 \/ k = 4
      /\ \A k \in 1 .. 6 - 1 : k = 1 \/ k = 2 \/ k = 3 \/ k = 4 \/ k = 5
      /\ \A k \in 1 .. 7 - 1 : k = 1 \/ k = 2 \/ k = 3 \/ k = 4 \/ k = 5 \/ k = 6
  OBVIOUS
<1>8. ASSUME Earlier(o, w), r[2] = s[2], r[3] = s[3], r[4] = s[4], r[5] = s[5] PROVE Above(r, s)
  <2>1. CASE Index(o[1]) < Index(w[1])
    <3>1. r[6] > s[6] /\ 6 \in 1 .. 7
      BY <1>1, <1>4, <2>1
    <3>2. \A k \in 1 .. 6 - 1 : r[k] = s[k]
      BY <1>1, <1>7, <1>8
    <3> QED
      BY <1>6, <3>1, <3>2
  <2>2. CASE o[1] = w[1] /\ o[2] < w[2]
    <3>1. r[7] > s[7] /\ 7 \in 1 .. 7
      BY <1>1, <2>2
    <3>2. \A k \in 1 .. 7 - 1 : r[k] = s[k]
      BY <1>1, <1>7, <1>8, <2>2
    <3> QED
      BY <1>6, <3>1, <3>2
  <2> QED
    BY <1>8, <2>1, <2>2 DEF Earlier
<1>9. ASSUME OfDevice(o), OfDevice(w) PROVE Above(r, s)
  <2>1. /\ r[2] = 1 /\ s[2] = 1 /\ r[3] = b.stem_len /\ s[3] = a.stem_len
        /\ r[4] = b.str_len /\ s[4] = a.str_len
        /\ r[5] = (IF b.typed THEN 1 ELSE 0) /\ s[5] = (IF a.typed THEN 1 ELSE 0)
    BY <1>2, <1>9 DEF OfDev
  <2>2. CASE Less(a, b)
    <3>1. \/ a.stem_len < b.stem_len
          \/ a.stem_len = b.stem_len /\ a.str_len < b.str_len
          \/ a.stem_len = b.stem_len /\ a.str_len = b.str_len /\ ~a.typed /\ b.typed
      BY <1>1, <1>5, <1>9, <2>2 DEF Less, IsNode
    <3>2. CASE a.stem_len < b.stem_len
      <4>1. r[3] > s[3] /\ 3 \in 1 .. 7
        BY <1>1, <2>1, <3>2
      <4>2. \A k \in 1 .. 3 - 1 : r[k] = s[k]
        BY <1>1, <1>7, <2>1
      <4> QED
        BY <1>6, <4>1, <4>2
    <3>3. CASE a.stem_len = b.stem_len /\ a.str_len < b.str_len
      <4>1. r[4] > s[4] /\ 4 \in 1 .. 7
        BY <1>1, <2>1, <3>3
      <4>2. \A k \in 1 .. 4 - 1 : r[k] = s[k]
        BY <1>1, <1>7, <2>1, <3>3
      <4> QED
        BY <1>6, <4>1, <4>2
    <3>4. CASE a.stem_len = b.stem_len /\ a.str_len = b.str_len /\ ~a.typed /\ b.typed
      <4>1. r[5] > s[5] /\ 5 \in 1 .. 7
        BY <2>1, <3>4
      <4>2. \A k \in 1 .. 5 - 1 : r[k] = s[k]
        BY <1>1, <1>7, <2>1, <3>4
      <4> QED
        BY <1>6, <4>1, <4>2
    <3> QED
      BY <3>1, <3>2, <3>3, <3>4
  <2>3. CASE ~Less(a, b)
    <3>1. ~Less(b, a) /\ Earlier(o, w)
      BY <1>9, <2>3, ReadIs DEF BinOrder, LineLess, a, b
    <3>2. r[3] = s[3] /\ r[4] = s[4] /\ r[5] = s[5]
      BY <1>1, <1>5, <1>9, <2>1, <2>3, <3>1 DEF Less, IsNode
    <3> QED
      BY <1>8, <2>1, <3>1, <3>2
  <2> QED
    BY <2>2, <2>3
<1>10. ASSUME ~(OfDevice(o) /\ OfDevice(w)) PROVE Above(r, s)
  <2>1. Earlier(o, w)
    BY <1>10 DEF BinOrder
  <2>2. CASE ~OfDevice(o) /\ ~OfDevice(w)
    <3>1. r[2] = s[2] /\ r[3] = s[3] /\ r[4] = s[4] /\ r[5] = s[5]
      BY <1>2, <2>2 DEF OfDev
    <3> QED
      BY <1>8, <2>1, <3>1
  <2>3. CASE ~OfDevice(o) /\ OfDevice(w)
    <3>1. r[2] > s[2] /\ 2 \in 1 .. 7
      BY <1>2, <2>3 DEF OfDev
    <3>2. \A k \in 1 .. 2 - 1 : r[k] = s[k]
      BY <1>1, <1>7
    <3> QED
      BY <1>6, <3>1, <3>2
  <2>4. CASE OfDevice(o) /\ ~OfDevice(w)
    <3>1. Index(w[1]) < Index(o[1]) /\ o[1] # w[1]
      BY <1>1, <1>4, <2>4 DEF OfDevice
    <3>2. Index(w[1]) \in Nat /\ Index(o[1]) \in Nat
      BY <1>1, <1>4
    <3> QED
      BY <2>1, <3>1, <3>2 DEF Earlier
  <2> QED
    BY <1>10, <2>2, <2>3, <2>4
<1>11. Above(r, s)
  BY <1>9, <1>10, Zenon
<1>12. w # o
  BY <1>1, <1>11, AboveIsStrict DEF r, s
<1> QED
  BY <1>11, <1>12 DEF r, s

\* Some positions have a last one.
LEMMA LastThereIs ==
  ASSUME NEW n \in Nat, NEW ks \in SUBSET (1 .. n), ks # {}
  PROVE  \E k \in ks : \A j \in ks : j <= k
<1> DEFINE ms == {m \in 1 .. n : n + 1 - m \in ks}
<1>1. ms \in SUBSET Nat /\ ms # {}
  <2>1. PICK k \in ks : TRUE
    OBVIOUS
  <2>2. n + 1 - k \in 1 .. n /\ n + 1 - (n + 1 - k) = k
    OBVIOUS
  <2>3. n + 1 - k \in ms
    BY <2>1, <2>2
  <2>4. ms \in SUBSET Nat
    OBVIOUS
  <2> HIDE DEF ms
  <2> QED
    BY <2>3, <2>4
<1> HIDE DEF ms
<1>2. PICK m \in ms : \A x \in ms : m <= x
  BY <1>1, LeastNat
<1>3. n + 1 - m \in ks /\ m \in 1 .. n
  BY <1>2 DEF ms
<1>4. ASSUME NEW j \in ks PROVE j <= n + 1 - m
  <2>1. n + 1 - j \in 1 .. n /\ n + 1 - (n + 1 - j) = j
    OBVIOUS
  <2>2. n + 1 - j \in ms
    BY <2>1 DEF ms
  <2>3. m <= n + 1 - j
    BY <1>2, <2>2
  <2> QED
    BY <1>3, <2>3
<1> QED
  BY <1>3, <1>4

\* The entry that a lookup finds.
LEMMA LookupIs ==
  ASSUME NEW path, NEW n \in Nat, DOMAIN given.file.entries = 1 .. n, Matching(path) # {}
  PROVE  /\ Lookup(path) \in Matching(path) /\ Lookup(path) \in 1 .. n
         /\ \A j \in Matching(path) :
              \/ j <= Lookup(path)
                 /\ (given.file.entries[Lookup(path)].static <=> given.file.entries[j].static)
              \/ given.file.entries[Lookup(path)].static /\ ~given.file.entries[j].static
<1> DEFINE m == Matching(path)
           es == given.file.entries
           s == IF Static(m) # {} THEN Static(m) ELSE m
<1>1. m \in SUBSET (1 .. n) /\ Static(m) = {k \in m : es[k].static}
  BY DEF Matching, Static
<1>2. s \in SUBSET (1 .. n) /\ s # {} /\ s \subseteq m
  BY <1>1
<1>3. PICK k \in s : \A j \in s : j <= k
  BY <1>2, LastThereIs
<1>4. Lookup(path) = CHOOSE x \in s : \A j \in s : j <= x
  BY DEF Lookup
<1>5. \A j \in m : j \in s \/ (\A x \in s : es[x].static /\ ~es[j].static)
  BY <1>1
<1>6. \A x, j \in s : es[x].static <=> es[j].static
  BY <1>1
<1> HIDE DEF s, m, es
<1>7. Lookup(path) \in s /\ \A j \in s : j <= Lookup(path)
  BY <1>3, <1>4
<1> QED
  BY <1>2, <1>5, <1>6, <1>7, Zenon DEF m, es

\* The lookup takes the last of the lines that are no expressions, or of all.
LEMMA BinLabels ==
  ASSUME FInv, BinBuilt, \A l \in Read : l[1] \in Range(Device) => MetaRight(Line(l).path)
  PROVE  Labelled
<1> SUFFICES ASSUME NEW path, NEW l \in Read, path \in Denoted(Line(l).path)
             PROVE  /\ Matching(path) # {}
                    /\ given.file.entries[Lookup(path)].type = Line(Winner(Found(path))).type
  BY DEF Labelled
<1> DEFINE es == given.file.entries
           n == Len(es)
           k == Lookup(path)
<1>1. source \in Inputs /\ n \in Nat /\ DOMAIN es = 1 .. n
  BY WholeIs
<1>2. PICK f : BinEntries(f)
  BY WholeIs
<1>3. /\ f \in [1 .. n -> Read]
      /\ \A o \in Read : \E j \in 1 .. n : f[j] = o
      /\ \A j \in 1 .. n : /\ es[j].paths = Denoted(Line(f[j]).path)
                           /\ es[j].static = (Operators(Line(f[j]).path) = {})
                           /\ es[j].type = Line(f[j]).type
      /\ \A i1, j \in 1 .. n : i1 < j => BinOrder(source, f[i1], f[j])
  BY <1>2 DEF BinEntries
<1>4. Matching(path) = {j \in 1 .. n : path \in es[j].paths}
  BY <1>1 DEF Matching
<1> HIDE DEF es, n
<1>5. \A o \in Found(path) : \E j \in Matching(path) : f[j] = o
  BY <1>3, <1>4 DEF Found
<1>6. \A j \in Matching(path) : f[j] \in Found(path) /\ j \in 1 .. n
  BY <1>3, <1>4 DEF Found
<1>7. Matching(path) # {}
  BY <1>5 DEF Found
<1>8. /\ k \in Matching(path) /\ k \in 1 .. n
      /\ \A j \in Matching(path) : \/ j <= k /\ (es[k].static <=> es[j].static)
                                   \/ es[k].static /\ ~es[j].static
  BY <1>1, <1>7, LookupIs DEF es
<1> HIDE DEF k
<1> DEFINE w == f[k]
<1>9. w \in Found(path) /\ w \in Read
  BY <1>3, <1>6, <1>8
<1>10. \A o \in Read : Rank(o) \in [1 .. 7 -> Nat]
  BY <1>1, RankIs
<1>11. ASSUME NEW j \in Matching(path), f[j] # w PROVE Above(Rank(w), Rank(f[j]))
  <2>1. j \in 1 .. n /\ f[j] \in Read /\ j # k
    BY <1>3, <1>6, <1>11
  <2>2. CASE j <= k /\ (es[k].static <=> es[j].static)
    <3>1. j < k
      BY <1>8, <2>1, <2>2
    <3>2. BinOrder(source, f[j], w)
      BY <1>3, <1>8, <2>1, <3>1
    <3>3. Operators(Line(f[j]).path) = {} <=> Operators(Line(w).path) = {}
      BY <1>3, <1>8, <2>1, <2>2
    <3> HIDE DEF w
    <3> QED
      BY <1>1, <1>9, <2>1, <3>2, <3>3, LaterIsAbove
  <2>3. CASE es[k].static /\ ~es[j].static
    <3>1. Operators(Line(w).path) = {} /\ Operators(Line(f[j]).path) # {}
      BY <1>3, <1>8, <2>1, <2>3
    <3> DEFINE r == Rank(w)
               s == Rank(f[j])
    <3>2. r[1] = 1 /\ s[1] = 0
      BY <1>1, <1>9, <2>1, <3>1, RankIs
    <3>3. DOMAIN r = 1 .. 7
      BY <1>9, <1>10
    <3> HIDE DEF r, s
    <3>4. Above(r, s)
      BY <3>2, <3>3 DEF Above
    <3> QED
      BY <3>4 DEF r, s
  <2> QED
    BY <1>8, <2>2, <2>3
<1> HIDE DEF w
<1>12. \A o \in Found(path) \ {w} : Above(Rank(w), Rank(o))
  BY <1>5, <1>11
<1>13. ASSUME NEW x \in Found(path), \A o \in Found(path) \ {x} : Above(Rank(x), Rank(o))
       PROVE  x = w
  <2> SUFFICES ASSUME x # w PROVE FALSE
    OBVIOUS
  <2>1. Above(Rank(w), Rank(x)) /\ Above(Rank(x), Rank(w))
    BY <1>9, <1>12, <1>13
  <2>2. x \in Read
    BY DEF Found
  <2> QED
    BY <1>9, <1>10, <2>1, <2>2, AboveIsStrict
<1>14. Winner(Found(path)) = w
  BY <1>9, <1>12, <1>13 DEF Winner
<1>15. es[k].type = Line(w).type
  BY <1>3, <1>8 DEF w
<1> QED
  BY <1>7, <1>14, <1>15 DEF es, k

\* If is_meta sees what the paths of the device are, a path gets the type of the line
\* that ranks above all others for it.
THEOREM LabelsAreOfWinner == TestSpec => []Precedence
<1>1. FInv => Precedence
  BY BinLabels DEF Precedence
<1> QED
  BY BuildBegins, FilesStepInv, <1>1, PTL DEF TestSpec

-----------------------------------------------------------------------------
(***************************************************************************)
(* sepolicy_test: what its tests mean for the labels of a device.          *)
(***************************************************************************)
\* A sequence begins with another if it has the same at each of its places.
LEMMA PrefixIs ==
  ASSUME NEW s, NEW t, IsSeq(s), IsSeq(t)
  PROVE  IsPrefix(s, t) <=> Len(s) <= Len(t) /\ \A k \in 1 .. Len(s) : s[k] = t[k]
<1>1. Len(s) \in Nat /\ Len(t) \in Nat /\ s \in Seq(Range(s)) /\ t \in Seq(Range(t))
      /\ (\A k \in 1 .. Len(s) : s[k] \in Range(s)) /\ \A k \in 1 .. Len(t) : t[k] \in Range(t)
  BY SeqFacts DEF IsSeq
<1>2. SUFFICES ASSUME Len(s) <= Len(t)
               PROVE  SubSeq(s, 1, Len(s)) = SubSeq(t, 1, Len(s)) <=>
                        \A k \in 1 .. Len(s) : s[k] = t[k]
  BY DEF IsPrefix
<1> DEFINE n == Len(s)
           a == SubSeq(s, 1, n)
           b == SubSeq(t, 1, n)
<1>3. \A k \in 1 .. n : t[k] \in Range(t) /\ s[k] \in Range(s)
  BY <1>1, <1>2
<1>4. /\ a \in Seq(Range(s)) /\ Len(a) = n /\ \A k \in 1 .. n : a[k] = s[k]
      /\ b \in Seq(Range(t)) /\ Len(b) = n /\ \A k \in 1 .. n : b[k] = t[k]
  <2>1. a = [k \in 1 .. n |-> s[k]] /\ b = [k \in 1 .. n |-> t[k]]
    BY <1>1
  <2> HIDE DEF a, b
  <2> QED
    BY <1>1, <1>3, <2>1
<1> HIDE DEF a, b, n
<1>5. a = b <=> \A k \in 1 .. n : a[k] = b[k]
  <2>1. DOMAIN a = 1 .. n /\ DOMAIN b = 1 .. n /\ a = [k \in DOMAIN a |-> a[k]] /\ b = [k \in DOMAIN b |-> b[k]]
    BY <1>4
  <2> QED
    BY <2>1
<1> QED
  BY <1>4, <1>5 DEF a, b, n

\* What is left of a sequence without its first characters.
LEMMA RestIs ==
  ASSUME NEW s, NEW n \in Nat, IsSeq(s), n <= Len(s)
  PROVE  LET r == SubSeq(s, n + 1, Len(s))
         IN  IsSeq(r) /\ Len(r) = Len(s) - n /\ \A k \in 1 .. Len(r) : r[k] = s[k + n]
<1> DEFINE r == SubSeq(s, n + 1, Len(s))
<1>1. Len(s) \in Nat /\ \A k \in 1 .. Len(s) : s[k] \in Range(s)
  BY SeqFacts
<1>2. r = [k \in 1 .. Len(s) - n |-> s[k + n]]
  <2>1. \A k \in 1 .. Len(s) - n : (n + 1) + k - 1 = k + n
    BY <1>1
  <2> QED
    BY <1>1, <2>1
<1> HIDE DEF r
<1>3. Len(s) - n \in Nat
  BY <1>1
<1>4. Len(r) = Len(s) - n /\ DOMAIN r = 1 .. Len(s) - n /\ \A k \in 1 .. Len(s) - n : r[k] = s[k + n]
  BY <1>2, <1>3
<1>5. r \in [1 .. Len(s) - n -> Range(r)]
  BY <1>2 DEF Range
<1>6. IsSeq(r)
  BY <1>3, <1>5 DEF IsSeq
<1> QED
  BY <1>4, <1>6 DEF r

\* The same, of what is behind a head.
LEMMA RestOf ==
  ASSUME NEW s, NEW head, IsSeq(s), Len(head) \in Nat, Len(head) <= Len(s)
  PROVE  /\ IsSeq(Rest(s, head)) /\ Len(Rest(s, head)) = Len(s) - Len(head)
         /\ \A k \in 1 .. Len(Rest(s, head)) : Rest(s, head)[k] = s[k + Len(head)]
<1> DEFINE n == Len(head)
           r == SubSeq(s, n + 1, Len(s))
<1>1. Rest(s, head) = r
  BY DEF Rest
<1>2. n \in Nat /\ n <= Len(s)
  OBVIOUS
<1> HIDE DEF n
<1>3. IsSeq(r) /\ Len(r) = Len(s) - n /\ \A k \in 1 .. Len(r) : r[k] = s[k + n]
  BY <1>2, RestIs
<1> HIDE DEF r
<1>4. IsSeq(Rest(s, head)) /\ Len(Rest(s, head)) = Len(s) - n
      /\ \A k \in 1 .. Len(Rest(s, head)) : Rest(s, head)[k] = s[k + n]
  BY <1>1, <1>3
<1> QED
  BY <1>4 DEF n

\* The function that Stripped is defined with exists.
StripsTo(start, f, n) ==
  f = [k \in 0 .. n |-> IF k = 0 THEN start ELSE Strip(f[k - 1], COMMON_PREFIXES[k])]

\* There is such a function.
LEMMA SomeStripsTo ==
  ASSUME NEW start, NEW n \in Nat
  PROVE  \E f : StripsTo(start, f, n)
<1> DEFINE S == {k \in 0 .. n : ~\E f : StripsTo(start, f, k)}
<1>1. 0 \notin S
  <2>1. StripsTo(start, [k \in 0 .. 0 |-> start], 0)
    BY DEF StripsTo
  <2> QED
    BY <2>1
<1>2. ASSUME NEW k \in 0 .. n, k # n, k \notin S PROVE k + 1 \notin S
  <2>1. PICK f : StripsTo(start, f, k)
    BY <1>2
  <2> DEFINE last == Strip(f[k], COMMON_PREFIXES[k + 1])
             h == [j \in 0 .. k + 1 |-> IF j = k + 1 THEN last ELSE f[j]]
             next == [j \in 0 .. k + 1 |->
                        IF j = 0 THEN start ELSE Strip(h[j - 1], COMMON_PREFIXES[j])]
  <2>2. \A j \in 0 .. k : f[j] = IF j = 0 THEN start ELSE Strip(f[j - 1], COMMON_PREFIXES[j])
    BY <2>1 DEF StripsTo
  <2>3. ASSUME NEW j \in 0 .. k + 1 PROVE h[j] = next[j]
    <3>1. CASE j = k + 1
      <4>1. j # 0 /\ j - 1 = k /\ h[j - 1] = f[k]
        BY <3>1
      <4> QED
        BY <3>1, <4>1
    <3>2. CASE j # k + 1
      <4>1. j \in 0 .. k /\ (j # 0 => h[j - 1] = f[j - 1])
        BY <3>2
      <4>2. h[j] = f[j]
        BY <3>2
      <4> QED
        BY <2>2, <4>1, <4>2
    <3> QED
      BY <3>1, <3>2
  <2>4. h = next
    BY <2>3
  <2>5. StripsTo(start, h, k + 1)
    BY <2>4 DEF StripsTo
  <2> QED
    BY <2>5
<1>3. S \subseteq 0 .. n
  OBVIOUS
<1>4. S = {}
  <2> HIDE DEF S
  <2> QED
    BY <1>1, <1>2, <1>3, Upward
<1> QED
  BY <1>4

\* What holds of a path and what each common prefix keeps holds of what is left.
StripStart(regex, prefix) == [regex |-> regex, prefix |-> prefix]
\* Partitions are taken away one by one.
LEMMA StrippedIs ==
  ASSUME NEW regex, NEW prefix
  PROVE  \E f : /\ Stripped(regex, prefix) = f[Len(COMMON_PREFIXES)]
                /\ f[0] = StripStart(regex, prefix)
                /\ \A k \in 1 .. Len(COMMON_PREFIXES) : f[k] = Strip(f[k - 1], COMMON_PREFIXES[k])
<1> DEFINE n == Len(COMMON_PREFIXES)
           start == StripStart(regex, prefix)
           f == CHOOSE f : StripsTo(start, f, n)
<1>1. n \in Nat
  BY PrefixesAreStrings
<1>2. StripsTo(start, f, n)
  BY <1>1, SomeStripsTo
<1>3. Stripped(regex, prefix) = f[n]
  BY DEF Stripped, StripsTo, StripStart
<1> HIDE DEF f, n, start
<1>4. \A k \in 0 .. n : f[k] = IF k = 0 THEN start ELSE Strip(f[k - 1], COMMON_PREFIXES[k])
  BY <1>2 DEF StripsTo
<1>5. f[0] = start /\ \A k \in 1 .. n : f[k] = Strip(f[k - 1], COMMON_PREFIXES[k])
  BY <1>1, <1>4
<1> QED
  BY <1>3, <1>5 DEF n, start

\* What is left of an expression of the files behind a partition is one of those of which
\* something is supposed.
LEMMA LeftIsWritten ==
  ASSUME NEW r \in Written, NEW c \in Range(COMMON_PREFIXES), IsPrefix(c.regex, r)
  PROVE  IsSeq(r) /\ IsSeq(c.regex) /\ Len(c.regex) \in 0 .. Len(r) /\ Rest(r, c.regex) \in Written
<1>1. PICK line \in Given : r \in Lefts(line.path)
  BY DEF Written
<1> DEFINE path == line.path
           n == Len(path)
           l == Len(c.regex)
           places == {1} \cup {k \in 1 .. n + 1 : \E d \in Range(COMMON_PREFIXES) :
                        Len(d.regex) < k /\ SubSeq(path, k - Len(d.regex), k - 1) = d.regex}
<1>2. IsSeq(path) /\ n \in Nat
  <2>1. PICK s \in Inputs : \E p \in Partitions : line \in Range(s[p])
    BY <1>1 DEF Given
  <2>2. PICK p \in Partitions : line \in Range(s[p])
    BY <2>1
  <2>3. path \in Seq(Range(path))
    <3>1. line # Blank
      BY <1>1 DEF Given
    <3> QED
      BY <2>2, <3>1, InputsAreFiles
  <2> QED
    BY <2>3, SeqFacts DEF IsSeq
<1>3. IsSeq(c.regex) /\ l \in Nat
  BY PrefixesAreStrings, SeqFacts DEF IsSeq
<1>4. PICK m \in places : r = SubSeq(path, m, n)
  BY <1>1 DEF Lefts
<1>5. m \in 1 .. n + 1
  BY <1>2, <1>4
<1> HIDE DEF path, n
<1>6. IsSeq(r) /\ Len(r) = n - (m - 1) /\ \A k \in 1 .. Len(r) : r[k] = path[k + (m - 1)]
  <2> DEFINE j == m - 1
  <2>1. j \in Nat /\ j <= Len(path) /\ j + 1 = m
    BY <1>2, <1>5 DEF n
  <2> HIDE DEF j
  <2>2. r = SubSeq(path, j + 1, Len(path))
    <3> HIDE DEF places
    <3>1. r = SubSeq(path, m, Len(path))
      BY <1>4 DEF n
    <3> QED
      BY <2>1, <3>1
  <2>3. IsSeq(r) /\ Len(r) = Len(path) - j /\ \A k \in 1 .. Len(r) : r[k] = path[k + j]
    BY <1>2, <2>1, <2>2, RestIs
  <2> QED
    BY <2>3 DEF j, n
<1>7. l <= Len(r) /\ \A k \in 1 .. l : c.regex[k] = r[k]
  BY <1>3, <1>6, PrefixIs
<1> DEFINE q == m + l
<1>8. q \in 1 .. n + 1 /\ l < q
  BY <1>2, <1>3, <1>5, <1>6, <1>7
<1>9. SubSeq(path, m, m + l - 1) = c.regex
  <2> DEFINE b == SubSeq(path, m, m + l - 1)
  <2>1. \A k \in 1 .. l : path[m + k - 1] = c.regex[k]
    <3>1. ASSUME NEW k \in 1 .. l PROVE path[m + k - 1] = c.regex[k]
      <4>1. k \in 1 .. Len(r) /\ k + (m - 1) = m + k - 1
        BY <1>2, <1>3, <1>5, <1>6, <1>7
      <4> QED
        BY <1>6, <1>7, <4>1
    <3> QED
      BY <3>1
  <2>2. b = [k \in 1 .. l |-> path[m + k - 1]]
    BY <1>2, <1>3, <1>5
  <2>3. c.regex = [k \in 1 .. l |-> c.regex[k]]
    BY <1>3 DEF IsSeq
  <2> HIDE DEF b, l
  <2>4. [k \in 1 .. l |-> path[m + k - 1]] = [k \in 1 .. l |-> c.regex[k]]
    BY <2>1
  <2>5. b = c.regex
    BY <2>2, <2>3, <2>4
  <2> QED
    BY <2>5 DEF b, l
<1>10. q \in places
  <2>1. q - l = m /\ q - 1 = m + l - 1
    BY <1>3, <1>5
  <2>2. Len(c.regex) < q /\ SubSeq(path, q - Len(c.regex), q - 1) = c.regex
    BY <1>8, <1>9, <2>1
  <2> HIDE DEF q
  <2> QED
    BY <1>8, <2>2
<1>11. Rest(r, c.regex) = SubSeq(path, q, n)
  <2> DEFINE a == Rest(r, c.regex)
             b == SubSeq(path, q, n)
             j == q - 1
  <2>1. IsSeq(a) /\ Len(a) = Len(r) - l /\ \A k \in 1 .. Len(a) : a[k] = r[k + l]
    BY <1>3, <1>6, <1>7, RestOf, Zenon
  <2>2. j \in Nat /\ j <= Len(path) /\ q = j + 1 /\ j = l + (m - 1) /\ n - j = Len(r) - l
    BY <1>2, <1>3, <1>5, <1>6, <1>8 DEF n
  <2> HIDE DEF j, q
  <2>3. IsSeq(b) /\ Len(b) = n - j /\ \A k \in 1 .. Len(b) : b[k] = path[k + j]
    BY <1>2, <2>2, RestIs DEF n
  <2> HIDE DEF a, b, l
  <2>4. Len(a) = Len(b) /\ Len(a) \in Nat
    BY <2>1, <2>2, <2>3, SeqFacts
  <2>5. \A k \in 1 .. Len(a) : a[k] = b[k]
    <3>1. ASSUME NEW k \in 1 .. Len(a) PROVE a[k] = b[k]
      <4>1. k + l \in 1 .. Len(r) /\ (k + l) + (m - 1) = k + j
        BY <1>3, <1>5, <1>6, <2>1, <2>2, <2>4 DEF l
      <4>2. b[k] = path[k + j] /\ a[k] = r[k + l]
        BY <2>1, <2>3, <2>4
      <4> QED
        BY <1>6, <4>1, <4>2
    <3> QED
      BY <3>1
  <2>6. a = b
    <3>1. a = [k \in 1 .. Len(a) |-> a[k]] /\ b = [k \in 1 .. Len(a) |-> b[k]]
      BY <2>1, <2>3, <2>4 DEF IsSeq
    <3> QED
      BY <2>5, <3>1
  <2> QED
    BY <2>6 DEF a, b
<1>12. Rest(r, c.regex) \in Lefts(path)
  <2>1. Lefts(path) = {SubSeq(path, k, n) : k \in places}
    BY DEF Lefts, n
  <2> HIDE DEF places, q
  <2> QED
    BY <1>10, <1>11, <2>1, Zenon
<1> QED
  BY <1>1, <1>3, <1>6, <1>7, <1>12 DEF Written, path

\* What is left of an expression and of a prefix, if a path of the expression begins with the
\* prefix and the expression can be cut at its end.
Kept(s) ==
  s # NoPartition =>
    /\ s.regex \in Written /\ IsSeq(s.prefix)
    /\ \/ s.prefix = <<>>
       \/ MatchesCut(s.regex, s.prefix) /\ \E w \in Denoted(s.regex) : IsPrefix(s.prefix, w)

\* ... stays so when a common prefix is taken away.
LEMMA StripKeeps ==
  ASSUME NEW s, NEW c \in Range(COMMON_PREFIXES), Kept(s)
  PROVE  Kept(Strip(s, c))
<1> DEFINE fits == {n \in DOMAIN c.plain : IsPrefix(c.plain[n], s.prefix)}
           p == c.plain[Min(fits)]
           r == s.regex
           l == Len(c.regex)
           new == [regex |-> Rest(r, c.regex), prefix |-> Rest(s.prefix, p)]
<1>1. SUFFICES ASSUME s # NoPartition, IsPrefix(c.regex, r), fits # {}
               PROVE  Kept(new)
  <2>1. Kept(NoPartition)
    BY DEF Kept
  <2> HIDE DEF fits
  <2> QED
    BY <1>1, <2>1, Zenon DEF Strip, fits
<1>2. r \in Written /\ IsSeq(s.prefix) /\ 
      /\ (s.prefix = <<>> \/ (MatchesCut(r, s.prefix) /\ \E w \in Denoted(r) : IsPrefix(s.prefix, w)))
  BY <1>1, Zenon DEF Kept
<1>3. IsSeq(r) /\ IsSeq(c.regex) /\ l \in 0 .. Len(r) /\ Rest(r, c.regex) \in Written
  BY <1>1, <1>2, LeftIsWritten
<1>4. p \in Range(c.plain) /\ IsSeq(p) /\ IsPrefix(p, s.prefix)
  <2>1. c.plain \in Seq(Range(c.plain)) /\ \A x \in Range(c.plain) : IsSeq(x)
    BY PrefixesAreStrings DEF IsSeq
  <2>2. fits \in SUBSET Nat
    BY <2>1
  <2>3. PICK k \in fits : \A j \in fits : k <= j
    <3> HIDE DEF fits
    <3> QED
      BY <1>1, <2>2, LeastNat
  <2>4. Min(fits) \in fits
    <3> HIDE DEF fits
    <3> QED
      BY <2>3, Zenon DEF Min
  <2>5. Min(fits) \in DOMAIN c.plain /\ IsPrefix(p, s.prefix)
    BY <2>4
  <2> QED
    BY <2>1, <2>5 DEF Range
<1> HIDE DEF p, fits
<1>5. Len(p) \in Nat /\ Len(s.prefix) \in Nat /\ Len(p) <= Len(s.prefix)
      /\ \A k \in 1 .. Len(p) : p[k] = s.prefix[k]
  BY <1>2, <1>4, PrefixIs, SeqFacts
<1>6. IsSeq(Rest(s.prefix, p)) /\ Len(Rest(s.prefix, p)) = Len(s.prefix) - Len(p)
      /\ \A k \in 1 .. Len(Rest(s.prefix, p)) : Rest(s.prefix, p)[k] = s.prefix[k + Len(p)]
  BY <1>2, <1>5, RestIs DEF Rest
<1>7. Len(s.prefix) = Len(p) => Rest(s.prefix, p) = <<>>
  BY <1>5, <1>6, SeqFacts DEF IsSeq
<1>8. CASE Len(s.prefix) = Len(p)
  BY <1>3, <1>6, <1>7, <1>8 DEF Kept
<1>9. CASE Len(s.prefix) # Len(p)
  <2>1. s.prefix # <<>>
    BY <1>5, <1>9
  <2>2. PICK n \in DOMAIN r : s.prefix \in Denoted(SubSeq(r, 1, n))
    BY <1>2, <2>1 DEF MatchesCut
  <2>3. PICK w \in Denoted(r) : IsPrefix(s.prefix, w)
    BY <1>2, <2>1
  <2>4. IsSeq(w) /\ Len(w) \in Nat /\ Len(r) \in Nat /\ DOMAIN r = 1 .. Len(r)
    <3>1. w \in Seq(Range(w))
      BY <1>2, LiteralsAreWords
    <3> QED
      BY <1>3, <3>1, SeqFacts DEF IsSeq
  <2>5. Len(s.prefix) <= Len(w) /\ \A k \in 1 .. Len(s.prefix) : s.prefix[k] = w[k]
    BY <1>2, <2>3, <2>4, PrefixIs
  <2>6. IsPrefix(p, w)
    <3>1. Len(p) <= Len(w) /\ \A k \in 1 .. Len(p) : p[k] = w[k]
      BY <1>5, <2>4, <2>5
    <3> QED
      BY <1>4, <2>4, <3>1, PrefixIs
  <2>7. \A k \in DOMAIN r : \A v \in Denoted(SubSeq(r, 1, k)) : IsPrefix(p, v) =>
          \/ k = l /\ p = v
          \/ k > l /\ Rest(v, p) \in Denoted(SubSeq(r, l + 1, k))
    BY <1>1, <1>2, <1>4, PartitionsAreNamed
  <2>8. n > l /\ Rest(s.prefix, p) \in Denoted(SubSeq(r, l + 1, n))
    BY <1>4, <1>9, <2>2, <2>7
  <2>9. Len(r) > l /\ Rest(w, p) \in Denoted(Rest(r, c.regex))
    <3>1. Len(r) \in DOMAIN r /\ SubSeq(r, 1, Len(r)) = r
      BY <1>3, <2>2, <2>4, SubSeqFull DEF IsSeq
    <3>2. p # w
      BY <1>5, <1>9, <2>4, <2>5
    <3> QED
      BY <2>6, <2>7, <3>1, <3>2 DEF Rest
  <2>10. MatchesCut(Rest(r, c.regex), Rest(s.prefix, p))
    <3> DEFINE left == Rest(r, c.regex)
               m == n - l
    <3>1. IsSeq(left) /\ Len(left) = Len(r) - l /\ \A k \in 1 .. Len(left) : left[k] = r[k + l]
      <4>1. Len(c.regex) \in Nat /\ Len(c.regex) <= Len(r)
        BY <1>3, <2>4
      <4> QED
        BY <1>3, <4>1, RestOf, Zenon
    <3>2. m \in 1 .. Len(left) /\ DOMAIN left = 1 .. Len(left)
      <4> HIDE DEF left, l
      <4>1. DOMAIN left = 1 .. Len(left) /\ Len(left) \in Nat
        BY <3>1, SeqFacts
      <4>2. l \in Nat /\ n \in 1 .. Len(r) /\ Len(r) \in Nat
        BY <1>3, <2>2, <2>4
      <4> QED
        BY <2>8, <3>1, <4>1, <4>2
    <3>3. SubSeq(left, 1, m) = SubSeq(r, l + 1, n)
      <4> HIDE DEF left
      <4>1. SubSeq(left, 1, m) = [k \in 1 .. m |-> left[k]]
        BY <3>2
      <4>2. SubSeq(r, l + 1, n) = [k \in 1 .. m |-> r[k + l]]
        <5>1. \A k \in 1 .. m : (l + 1) + k - 1 = k + l
          BY <1>3, <2>4, <2>2
        <5>2. l \in Nat /\ n \in Nat /\ (n - (l + 1)) + 1 = m
          BY <1>3, <2>4, <2>2
        <5>3. SubSeq(r, l + 1, n) = [k \in 1 .. (n - (l + 1)) + 1 |-> r[(l + 1) + k - 1]]
          <6> HIDE DEF l
          <6> QED
            BY <5>2
        <5> HIDE DEF m, l
        <5>4. [k \in 1 .. m |-> r[(l + 1) + k - 1]] = [k \in 1 .. m |-> r[k + l]]
          BY <5>1
        <5> QED
          BY <5>2, <5>3, <5>4
      <4>3. \A k \in 1 .. m : left[k] = r[k + l]
        BY <3>1, <3>2
      <4> HIDE DEF m
      <4> QED
        BY <4>1, <4>2, <4>3
    <3> HIDE DEF m
    <3> QED
      BY <2>8, <3>2, <3>3 DEF MatchesCut
  <2>11. IsPrefix(Rest(s.prefix, p), Rest(w, p))
    <3>1. Len(p) <= Len(w)
      BY <1>5, <2>4, <2>5
    <3>2. IsSeq(Rest(w, p)) /\ Len(Rest(w, p)) = Len(w) - Len(p)
          /\ \A k \in 1 .. Len(Rest(w, p)) : Rest(w, p)[k] = w[k + Len(p)]
      BY <1>5, <2>4, <3>1, RestIs DEF Rest
    <3>3. Len(Rest(s.prefix, p)) <= Len(Rest(w, p))
      BY <1>5, <1>6, <2>4, <2>5, <3>2
    <3>4. ASSUME NEW k \in 1 .. Len(Rest(s.prefix, p)) PROVE Rest(s.prefix, p)[k] = Rest(w, p)[k]
      <4>1. k \in 1 .. Len(Rest(w, p)) /\ k + Len(p) \in 1 .. Len(s.prefix)
        BY <1>5, <1>6, <2>4, <2>5, <3>2
      <4> QED
        BY <1>6, <2>5, <3>2, <4>1
    <3> QED
      BY <1>6, <3>2, <3>3, <3>4, PrefixIs
  <2> QED
    BY <1>3, <1>6, <2>9, <2>10, <2>11 DEF Kept
<1> QED
  BY <1>8, <1>9

\* The function that Escapes is defined with exists ...
EscapesTo(path, f, n) ==
  f = [k \in 1 .. n |-> k > 1 /\ path[k - 1] = "\\" /\ ~f[k - 1]]

\* There is one.
LEMMA SomeEscapesTo ==
  ASSUME NEW path, NEW n \in Nat
  PROVE  \E f : EscapesTo(path, f, n)
<1> DEFINE S == {k \in 0 .. n : ~\E f : EscapesTo(path, f, k)}
<1>1. 0 \notin S
  <2>1. EscapesTo(path, [k \in 1 .. 0 |-> FALSE], 0)
    BY DEF EscapesTo
  <2> QED
    BY <2>1
<1>2. ASSUME NEW k \in 0 .. n, k # n, k \notin S PROVE k + 1 \notin S
  <2>1. PICK f : EscapesTo(path, f, k)
    BY <1>2
  <2> DEFINE h == [j \in 1 .. k + 1 |-> IF j = k + 1 THEN k + 1 > 1 /\ path[k] = "\\" /\ ~f[k] ELSE f[j]]
             next == [j \in 1 .. k + 1 |-> j > 1 /\ path[j - 1] = "\\" /\ ~h[j - 1]]
  <2>2. \A j \in 1 .. k : f[j] = (j > 1 /\ path[j - 1] = "\\" /\ ~f[j - 1])
    BY <2>1 DEF EscapesTo
  <2>3. ASSUME NEW j \in 1 .. k + 1 PROVE h[j] = next[j]
    <3>1. j > 1 => j - 1 \in 1 .. k /\ j - 1 # k + 1 /\ j - 1 \in 1 .. k + 1
      OBVIOUS
    <3>2. j > 1 => h[j - 1] = f[j - 1]
      BY <3>1
    <3>3. CASE j = k + 1
      <4>1. j - 1 = k
        BY <3>3
      <4>2. h[j] = (j > 1 /\ path[j - 1] = "\\" /\ ~f[j - 1])
        BY <3>3, <4>1
      <4>3. next[j] = (j > 1 /\ path[j - 1] = "\\" /\ ~h[j - 1])
        OBVIOUS
      <4> HIDE DEF h, next
      <4> QED
        BY <3>2, <4>2, <4>3
    <3>4. CASE j # k + 1
      <4>1. j \in 1 .. k /\ h[j] = f[j]
        BY <3>4
      <4>2. next[j] = (j > 1 /\ path[j - 1] = "\\" /\ ~h[j - 1])
        OBVIOUS
      <4> HIDE DEF h, next
      <4> QED
        BY <2>2, <3>2, <4>1, <4>2
    <3> QED
      BY <3>3, <3>4
  <2>4. h = next
    <3>1. DOMAIN h = 1 .. k + 1 /\ DOMAIN next = 1 .. k + 1
      OBVIOUS
    <3>2. h = [j \in 1 .. k + 1 |-> h[j]] /\ next = [j \in 1 .. k + 1 |-> next[j]]
      OBVIOUS
    <3> HIDE DEF h, next
    <3> QED
      BY <2>3, <3>2
  <2>5. EscapesTo(path, h, k + 1)
    BY <2>4 DEF EscapesTo
  <2> QED
    BY <2>5
<1>3. S \subseteq 0 .. n
  OBVIOUS
<1>4. S = {}
  <2> HIDE DEF S
  <2> QED
    BY <1>1, <1>2, <1>3, Upward
<1> QED
  BY <1>4

\* ... and so what is escaped is behind a backslash.
LEMMA EscapedIsBehind ==
  ASSUME NEW path, IsSeq(path), NEW k \in Escapes(path)
  PROVE  k \in 2 .. Len(path) /\ path[k - 1] = "\\"
<1> DEFINE n == Len(path)
           f == CHOOSE f : EscapesTo(path, f, n)
<1>1. n \in Nat /\ DOMAIN path = 1 .. n
  BY SeqFacts
<1>2. EscapesTo(path, f, n)
  BY <1>1, SomeEscapesTo
<1>3. Escapes(path) = {j \in DOMAIN path : f[j]}
  BY DEF Escapes, EscapesTo
<1> HIDE DEF f, n
<1>4. \A j \in 1 .. n : f[j] = (j > 1 /\ path[j - 1] = "\\" /\ ~f[j - 1])
  BY <1>2 DEF EscapesTo
<1>5. k \in 1 .. n /\ f[k]
  BY <1>1, <1>3
<1>6. k > 1 /\ path[k - 1] = "\\"
  BY <1>4, <1>5, Zenon
<1> QED
  BY <1>1, <1>5, <1>6 DEF n

\* What the heuristics of MatchPathPrefix leave to be compared.
LEMMA SpeltMatches ==
  ASSUME NEW s, s # NoPartition, Kept(s),
         \A k \in Operators(s.regex) :
           (\A o \in Operators(s.regex) : k <= o) => s.regex[k] \notin Absent
  PROVE  LET stops == {d \in DOMAIN s.prefix : \/ d > Len(s.regex) \/ ~Normal(s.regex[d])
                                              \/ s.regex[d] # s.prefix[d]}
             d == Min(stops)
         IN  \/ stops = {}
             \/ d <= Len(s.regex) /\ ~Normal(s.regex[d]) /\ MatchesCut(s.regex, s.prefix)
<1> DEFINE r == s.regex
           q == s.prefix
           stops == {d \in DOMAIN q : \/ d > Len(r) \/ ~Normal(r[d]) \/ r[d] # q[d]}
           d == Min(stops)
<1>1. SUFFICES ASSUME stops # {}
               PROVE  d <= Len(r) /\ ~Normal(r[d]) /\ MatchesCut(r, q)
  OBVIOUS
<1>2. r \in Written /\ IsSeq(q)
      /\ (q = <<>> \/ (MatchesCut(r, q) /\ \E w \in Denoted(r) : IsPrefix(q, w)))
  BY Zenon DEF Kept
<1>3. q # <<>>
  <2>1. DOMAIN <<>> = {}
    OBVIOUS
  <2> QED
    BY <1>1, <2>1
<1>4. MatchesCut(r, q)
  BY <1>2, <1>3
<1>5. PICK w \in Denoted(r) : IsPrefix(q, w)
  BY <1>2, <1>3
<1>6. IsSeq(r) /\ DOMAIN r = 1 .. Len(r) /\ Len(r) \in Nat
  <2>1. PICK line \in Given : r \in Lefts(line.path)
    BY <1>2 DEF Written
  <2>2. IsSeq(line.path)
    <3>1. PICK src \in Inputs : \E p \in Partitions : line \in Range(src[p])
      BY <2>1 DEF Given
    <3>2. PICK p \in Partitions : line \in Range(src[p])
      BY <3>1
    <3>3. line # Blank
      BY <2>1 DEF Given
    <3> QED
      BY <3>2, <3>3, InputsAreFiles DEF IsSeq
  <2>3. PICK m \in 1 .. Len(line.path) + 1 : r = SubSeq(line.path, m, Len(line.path))
    BY <2>1, <2>2, SeqFacts DEF Lefts
  <2> DEFINE path == line.path
             j == m - 1
  <2>4. Len(path) \in Nat /\ IsSeq(path)
    BY <2>2, SeqFacts
  <2>5. j \in Nat /\ j <= Len(path) /\ j + 1 = m
    BY <2>3, <2>4
  <2> HIDE DEF path, j
  <2>6. r = SubSeq(path, j + 1, Len(path))
    BY <2>3, <2>5 DEF path
  <2> HIDE DEF r
  <2>7. IsSeq(r)
    BY <2>4, <2>5, <2>6, RestIs
  <2> QED
    BY <2>7, SeqFacts
<1>7. /\ IsSeq(w) /\ Len(w) \in Nat
      /\ \A k \in 1 .. Len(r) : (\A j \in 1 .. k : Normal(r[j])) /\ (k < Len(r) => r[k + 1] \notin Absent)
                              => k <= Len(w) /\ w[k] = r[k]
      /\ (\A j \in 1 .. Len(r) : Normal(r[j])) => Len(w) = Len(r)
  <2>1. /\ w \in Seq(Range(w))
        /\ \A k \in DOMAIN r : (\A j \in 1 .. k : Normal(r[j])) /\ (k < Len(r) => r[k + 1] \notin Absent)
                                => k <= Len(w) /\ w[k] = r[k]
        /\ (\A j \in DOMAIN r : Normal(r[j])) => Len(w) = Len(r)
    BY <1>2, LiteralsAreWords
  <2>2. IsSeq(w) /\ Len(w) \in Nat
    BY <2>1, SeqFacts DEF IsSeq
  <2> QED
    BY <1>6, <2>1, <2>2
<1>8. DOMAIN q = 1 .. Len(q) /\ Len(q) \in Nat /\ Len(q) <= Len(w) /\ \A k \in 1 .. Len(q) : q[k] = w[k]
  BY <1>2, <1>5, <1>7, PrefixIs, SeqFacts
<1>9. d \in stops /\ \A j \in stops : d <= j
  <2>1. stops \in SUBSET Nat
    BY <1>8
  <2>2. PICK k \in stops : \A j \in stops : k <= j
    <3> HIDE DEF stops
    <3> QED
      BY <1>1, <2>1, LeastNat
  <2> HIDE DEF stops
  <2> QED
    BY <2>2, Zenon DEF Min
<1> HIDE DEF d
<1>10. d \in 1 .. Len(q) /\ (d > Len(r) \/ ~Normal(r[d]) \/ r[d] # q[d])
       /\ \A j \in 1 .. d - 1 : j <= Len(r) /\ Normal(r[j]) /\ r[j] = q[j]
  <2>1. ASSUME NEW j \in 1 .. d - 1 PROVE j <= Len(r) /\ Normal(r[j]) /\ r[j] = q[j]
    <3>1. j \in DOMAIN q /\ j \notin stops
      BY <1>8, <1>9
    <3> QED
      BY <1>6, <1>8, <3>1
  <2> QED
    BY <1>8, <1>9, <2>1
<1> HIDE DEF stops, r, q
<1>11. d <= Len(r)
  <2> SUFFICES ASSUME d > Len(r) PROVE FALSE
    BY <1>6, <1>10
  <2>1. \A j \in 1 .. Len(r) : Normal(r[j])
    BY <1>6, <1>10
  <2>2. Len(w) = Len(r)
    BY <1>7, <2>1
  <2> QED
    BY <1>6, <1>8, <1>10, <2>2
<1>12. ~Normal(r[d])
  <2> SUFFICES ASSUME Normal(r[d]) PROVE FALSE
    OBVIOUS
  <2>1. d \in 1 .. Len(r) /\ \A j \in 1 .. d : Normal(r[j])
    BY <1>6, <1>8, <1>10, <1>11
  <2>2. \A j \in 1 .. d : j \notin Operators(r)
    BY <2>1 DEF Operators, Normal
  <2>3. ASSUME d < Len(r), r[d + 1] \in Absent PROVE FALSE
    <3>1. d + 1 \in 1 .. Len(r) /\ d + 1 - 1 = d
      BY <1>6, <2>1, <2>3
    <3>2. d + 1 \notin Escapes(r)
      BY <1>6, <2>1, <3>1, EscapedIsBehind DEF Normal
    <3>3. d + 1 \in Operators(r)
      BY <1>6, <2>3, <3>1, <3>2 DEF Operators, Absent, META_CHARS
    <3>4. \A o \in Operators(r) : d + 1 <= o
      <4>1. ASSUME NEW o \in Operators(r) PROVE d + 1 <= o
        <5>1. o \in 1 .. Len(r) /\ o \notin 1 .. d
          BY <1>6, <2>2 DEF Operators
        <5> QED
          BY <1>6, <2>1, <5>1
      <4> QED
        BY <4>1
    <3> QED
      BY <2>3, <3>3, <3>4 DEF r
  <2>4. w[d] = r[d]
    BY <1>7, <2>1, <2>3
  <2>5. q[d] = w[d]
    BY <1>8, <1>10
  <2> QED
    BY <1>10, <1>11, <2>1, <2>4, <2>5
<1> QED
  BY <1>4, <1>11, <1>12

\* The function that FlattenSeq is defined with exists.
JoinsTo(s, f, n) == f = [k \in 1 .. n |-> IF k = 1 THEN s[k] ELSE f[k - 1] \o s[k]]

\* There is such a function.
LEMMA SomeJoinsTo ==
  ASSUME NEW s, NEW n \in Nat
  PROVE  \E f : JoinsTo(s, f, n)
<1> DEFINE S == {k \in 0 .. n : ~\E f : JoinsTo(s, f, k)}
<1>1. 0 \notin S
  <2>1. JoinsTo(s, [k \in 1 .. 0 |-> <<>>], 0)
    BY DEF JoinsTo
  <2> QED
    BY <2>1
<1>2. ASSUME NEW k \in 0 .. n, k # n, k \notin S PROVE k + 1 \notin S
  <2>1. PICK f : JoinsTo(s, f, k)
    BY <1>2
  <2> DEFINE last == IF k = 0 THEN s[1] ELSE f[k] \o s[k + 1]
             h == [j \in 1 .. k + 1 |-> IF j = k + 1 THEN last ELSE f[j]]
             next == [j \in 1 .. k + 1 |-> IF j = 1 THEN s[j] ELSE h[j - 1] \o s[j]]
  <2>2. \A j \in 1 .. k : f[j] = IF j = 1 THEN s[j] ELSE f[j - 1] \o s[j]
    BY <2>1 DEF JoinsTo
  <2>3. ASSUME NEW j \in 1 .. k + 1 PROVE h[j] = next[j]
    <3>1. j # 1 => h[j - 1] = f[j - 1]
      <4> HIDE DEF last
      <4>1. \A x \in 1 .. k + 1 : x # k + 1 => h[x] = f[x]
        OBVIOUS
      <4>2. j # 1 => j - 1 \in 1 .. k + 1 /\ j - 1 # k + 1
        OBVIOUS
      <4> HIDE DEF h
      <4> QED
        BY <4>1, <4>2
    <3>2. next[j] = IF j = 1 THEN s[j] ELSE f[j - 1] \o s[j]
      BY <3>1
    <3>3. CASE j = k + 1
      <4>1. h[j] = last /\ j - 1 = k /\ (j = 1 <=> k = 0)
        BY <3>3
      <4> HIDE DEF h, next
      <4>2. CASE k = 0
        BY <3>2, <3>3, <4>1, <4>2
      <4>3. CASE k # 0
        <5>1. last = f[k] \o s[k + 1] /\ next[j] = f[j - 1] \o s[j]
          BY <3>2, <4>1, <4>3
        <5> HIDE DEF last
        <5> QED
          BY <3>3, <4>1, <5>1
      <4> QED
        BY <4>2, <4>3
    <3>4. CASE j # k + 1
      <4>1. j \in 1 .. k /\ h[j] = f[j]
        BY <3>4
      <4> HIDE DEF h, next
      <4> QED
        BY <2>2, <3>2, <4>1
    <3> QED
      BY <3>3, <3>4
  <2>4. h = next
    <3> HIDE DEF last
    <3>1. h = [j \in 1 .. k + 1 |-> h[j]]
      OBVIOUS
    <3>2. next = [j \in 1 .. k + 1 |-> next[j]]
      <4> HIDE DEF h
      <4> QED
        OBVIOUS
    <3> HIDE DEF h, next
    <3> QED
      BY <2>3, <3>1, <3>2
  <2>5. JoinsTo(s, h, k + 1)
    BY <2>4 DEF JoinsTo
  <2> QED
    BY <2>5
<1>3. S \subseteq 0 .. n
  OBVIOUS
<1>4. S = {}
  <2> HIDE DEF S
  <2> QED
    BY <1>1, <1>2, <1>3, Upward
<1> QED
  BY <1>4

\* FlattenSeq adds one sequence after the other.
LEMMA FlattenFollows ==
  ASSUME NEW s, Len(s) \in Nat \ {0}
  PROVE  \E f : /\ FlattenSeq(s) = f[Len(s)] /\ f[1] = s[1]
                /\ \A k \in 2 .. Len(s) : f[k] = f[k - 1] \o s[k]
<1> DEFINE n == Len(s)
           f == CHOOSE f : JoinsTo(s, f, n)
<1>1. JoinsTo(s, f, n)
  BY SomeJoinsTo
<1>2. FlattenSeq(s) = f[n]
  BY DEF FlattenSeq, JoinsTo
<1> HIDE DEF f
<1>3. n \in Nat \ {0}
  OBVIOUS
<1> HIDE DEF n
<1>4. \A k \in 1 .. n : f[k] = IF k = 1 THEN s[k] ELSE f[k - 1] \o s[k]
  BY <1>1 DEF JoinsTo
<1>5. f[1] = s[1] /\ \A k \in 2 .. n : f[k] = f[k - 1] \o s[k]
  <2>1. 1 \in 1 .. n /\ \A k \in 2 .. n : k \in 1 .. n /\ k # 1
    BY <1>3
  <2>2. f[1] = s[1]
    BY <1>4, <2>1, Zenon
  <2>3. ASSUME NEW k \in 2 .. n PROVE f[k] = f[k - 1] \o s[k]
    BY <1>4, <2>1, Zenon
  <2> QED
    BY <2>2, <2>3
<1> QED
  BY <1>2, <1>5 DEF n

\* All files, one after the other, are sorted as one.
LEMMA SortedJoins == ASSUME NEW s PROVE Sorted(s) = Sorted(<<FlattenSeq(s)>>)
<1> DEFINE x == FlattenSeq(s)
           one == <<x>>
<1>1. FlattenSeq(one) = x
  <2>1. Len(one) = 1 /\ one[1] = x
    OBVIOUS
  <2> HIDE DEF one, x
  <2>2. PICK f : FlattenSeq(one) = f[Len(one)] /\ f[1] = one[1]
    <3>1. Len(one) \in Nat \ {0}
      BY <2>1
    <3> QED
      BY <3>1, FlattenFollows
  <2> QED
    BY <2>1, <2>2
<1> QED
  BY <1>1 DEF Sorted, Nodes, Lines

\* What is in two sequences, one after the other.
LEMMA JoinedRange ==
  ASSUME NEW a, NEW b, IsSeq(a), IsSeq(b)
  PROVE  IsSeq(a \o b) /\ Range(a \o b) = Range(a) \cup Range(b)
<1> DEFINE c == a \o b
           S == Range(a) \cup Range(b)
<1>1. a \in Seq(S) /\ b \in Seq(S)
  BY DEF IsSeq
<1>2. c \in Seq(S) /\ Len(c) = Len(a) + Len(b) /\ Len(a) \in Nat /\ Len(b) \in Nat
      /\ DOMAIN a = 1 .. Len(a) /\ DOMAIN b = 1 .. Len(b) /\ DOMAIN c = 1 .. Len(c)
      /\ (\A k \in 1 .. Len(a) : c[k] = a[k])
      /\ \A k \in 1 .. Len(b) : c[Len(a) + k] = b[k]
  <2> HIDE DEF S
  <2> QED
    BY <1>1
<1> HIDE DEF c, S
<1>3. \A k \in 1 .. Len(c) : c[k] \in S
  BY <1>2
<1>4. S \subseteq Range(c)
  <2>1. ASSUME NEW x \in Range(a) PROVE x \in Range(c)
    <3>1. PICK k \in 1 .. Len(a) : x = a[k]
      BY <1>2 DEF Range
    <3>2. k \in DOMAIN c /\ c[k] = x
      BY <1>2, <3>1
    <3> QED
      BY <3>2 DEF Range
  <2>2. ASSUME NEW x \in Range(b) PROVE x \in Range(c)
    <3>1. PICK k \in 1 .. Len(b) : x = b[k]
      BY <1>2 DEF Range
    <3>2. Len(a) + k \in DOMAIN c /\ c[Len(a) + k] = x
      BY <1>2, <3>1
    <3> QED
      BY <3>2 DEF Range
  <2> QED
    BY <2>1, <2>2 DEF S
<1>5. Range(c) = S
  BY <1>2, <1>3, <1>4 DEF Range
<1>6. IsSeq(c)
  BY <1>2, <1>5 DEF IsSeq
<1> QED
  BY <1>5, <1>6 DEF c, S

\* The build has no other partitions than those that the tests wait for.
LEMMA AllPartitions == Range(Local \o Device) = Partitions
<1>1. IsSeq(Local) /\ IsSeq(Device)
  BY Indices DEF IsSeq, Local, Device
<1> QED
  BY <1>1, JoinedRange DEF Partitions

\* The lines of the tests are those of all files, and none is less than one before it.
LEMMA FcSortedIs ==
  ASSUME source \in Inputs, OutRight, Ready(Local \o Device)
  PROVE  /\ IsSeq(FcSorted) /\ Range(FcSorted) = {Line(l) : l \in Read}
         /\ \A j, k \in DOMAIN FcSorted : j < k => ~LineLess(FcSorted[k], FcSorted[j])
<1> DEFINE names == <<"plat", "vendor", "system_ext", "product", "odm">>
           s == [k \in 1 .. 5 |-> out[names[k]]]
           lines == FlattenSeq(s)
           ranges == {LineOf(source, l) : l \in Ids(source, Partitions)}
<1>1. FcSorted = Sorted(<<lines>>)
  BY SortedJoins DEF FcSorted
<1>2. \A p \in Partitions : IsSeq(out[p]) /\ Range(out[p]) = {LineOf(source, l) : l \in Ids(source, {p})}
  <2> SUFFICES ASSUME NEW p \in Partitions
               PROVE  IsSeq(out[p]) /\ Range(out[p]) = {LineOf(source, l) : l \in Ids(source, {p})}
    OBVIOUS
  <2>1. p \in DOMAIN out
    BY AllPartitions DEF Ready, Built
  <2>2. InBinOrder(out[p], source, {p})
    BY <2>1 DEF OutRight, RightLines
  <2>3. PICK f : MadeOf(out[p], source, {p}, f)
    BY <2>2 DEF InBinOrder
  <2>4. IsSeq(out[p]) /\ DOMAIN out[p] = 1 .. Len(out[p])
    BY <2>3, SeqFacts DEF MadeOf
  <2>5. /\ f \in [1 .. Len(out[p]) -> Ids(source, {p})]
        /\ \A k \in 1 .. Len(out[p]) : out[p][k] = LineOf(source, f[k])
        /\ \A l \in Ids(source, {p}) : \E k \in 1 .. Len(out[p]) : f[k] = l
    BY <2>3 DEF MadeOf
  <2>6. ASSUME NEW x \in Range(out[p]) PROVE x \in {LineOf(source, l) : l \in Ids(source, {p})}
    <3>1. PICK k \in 1 .. Len(out[p]) : x = out[p][k]
      BY <2>4 DEF Range
    <3>2. f[k] \in Ids(source, {p}) /\ x = LineOf(source, f[k])
      BY <2>5, <3>1
    <3> HIDE DEF ranges
    <3> QED
      BY <3>2, Zenon
  <2>7. ASSUME NEW l \in Ids(source, {p}) PROVE LineOf(source, l) \in Range(out[p])
    <3>1. PICK k \in 1 .. Len(out[p]) : f[k] = l
      BY <2>5
    <3>2. k \in DOMAIN out[p] /\ out[p][k] = LineOf(source, l)
      BY <2>4, <2>5, <3>1
    <3> QED
      BY <3>2 DEF Range
  <2> QED
    BY <2>4, <2>6, <2>7
<1>3. /\ s[1] = out["plat"] /\ s[2] = out["vendor"] /\ s[3] = out["system_ext"]
      /\ s[4] = out["product"] /\ s[5] = out["odm"] /\ Len(s) = 5
  OBVIOUS
<1>4. \A k \in 1 .. 5 : IsSeq(s[k])
  <2>1. IsSeq(s[1]) /\ IsSeq(s[2]) /\ IsSeq(s[3]) /\ IsSeq(s[4]) /\ IsSeq(s[5])
    BY <1>2, <1>3, Indices
  <2>2. \A k \in 1 .. 5 : k = 1 \/ k = 2 \/ k = 3 \/ k = 4 \/ k = 5
    OBVIOUS
  <2> HIDE DEF s
  <2> QED
    BY <2>1, <2>2
<1>5. IsSeq(lines) /\ Range(lines) = ranges
  <2> HIDE DEF s
  <2>1. PICK f : /\ lines = f[5] /\ f[1] = s[1]
                 /\ \A k \in 2 .. 5 : f[k] = f[k - 1] \o s[k]
    <3>1. Len(s) \in Nat \ {0}
      BY <1>3
    <3>2. PICK f : /\ lines = f[Len(s)] /\ f[1] = s[1]
                   /\ \A k \in 2 .. Len(s) : f[k] = f[k - 1] \o s[k]
      BY <3>1, FlattenFollows
    <3> QED
      BY <1>3, <3>2
  <2>2. /\ f[2] = f[1] \o s[2] /\ f[3] = f[2] \o s[3] /\ f[4] = f[3] \o s[4] /\ f[5] = f[4] \o s[5]
    <3>1. 2 \in 2 .. 5 /\ 3 \in 2 .. 5 /\ 4 \in 2 .. 5 /\ 5 \in 2 .. 5
          /\ 2 - 1 = 1 /\ 3 - 1 = 2 /\ 4 - 1 = 3 /\ 5 - 1 = 4
      OBVIOUS
    <3>2. f[2] = f[2 - 1] \o s[2] /\ f[3] = f[3 - 1] \o s[3] /\ f[4] = f[4 - 1] \o s[4] /\ f[5] = f[5 - 1] \o s[5]
      BY <2>1, <3>1, Zenon
    <3> QED
      BY <3>1, <3>2
  <2> HIDE DEF lines
  <2>3. IsSeq(f[1]) /\ Range(f[1]) = Range(s[1])
    BY <1>4, <2>1
  <2>4. IsSeq(f[2]) /\ Range(f[2]) = Range(f[1]) \cup Range(s[2])
    BY <1>4, <2>2, <2>3, JoinedRange
  <2>5. IsSeq(f[3]) /\ Range(f[3]) = Range(f[2]) \cup Range(s[3])
    BY <1>4, <2>2, <2>4, JoinedRange
  <2>6. IsSeq(f[4]) /\ Range(f[4]) = Range(f[3]) \cup Range(s[4])
    BY <1>4, <2>2, <2>5, JoinedRange
  <2>7. IsSeq(f[5]) /\ Range(f[5]) = Range(f[4]) \cup Range(s[5])
    BY <1>4, <2>2, <2>6, JoinedRange
  <2>8. Range(lines) = Range(out["plat"]) \cup Range(out["vendor"]) \cup Range(out["system_ext"])
                       \cup Range(out["product"]) \cup Range(out["odm"])
    BY <1>3, <2>1, <2>3, <2>4, <2>5, <2>6, <2>7
  <2>9. \A l \in Ids(source, Partitions) : \E p \in Partitions : l \in Ids(source, {p})
    BY DEF Ids
  <2>10. \A p \in Partitions : Ids(source, {p}) \subseteq Ids(source, Partitions)
    BY DEF Ids
  <2>11. \A x : x \in ranges <=> \E p \in Partitions : x \in Range(out[p])
    <3>1. ASSUME NEW x \in ranges PROVE \E p \in Partitions : x \in Range(out[p])
      <4>1. PICK l \in Ids(source, Partitions) : x = LineOf(source, l)
        OBVIOUS
      <4>2. PICK p \in Partitions : l \in Ids(source, {p})
        BY <2>9
      <4>3. x \in {LineOf(source, o) : o \in Ids(source, {p})}
        BY <4>1, <4>2, Zenon
      <4> QED
        BY <1>2, <4>3, Zenon
    <3>2. ASSUME NEW x, NEW p \in Partitions, x \in Range(out[p]) PROVE x \in ranges
      <4>1. x \in {LineOf(source, o) : o \in Ids(source, {p})}
        BY <1>2, <3>2, Zenon
      <4>2. PICK l \in Ids(source, {p}) : x = LineOf(source, l)
        BY <4>1
      <4> QED
        BY <2>10, <4>2
    <3> HIDE DEF ranges
    <3> QED
      BY <3>1, <3>2
  <2>12. \A x : x \in Range(lines) <=> \E p \in Partitions : x \in Range(out[p])
    BY <2>8, Indices
  <2> QED
    BY <2>1, <2>7, <2>11, <2>12
<1>6. \A line \in Range(lines) : line # Blank /\ IsSeq(line.path)
  BY <1>5, IdFacts
<1> HIDE DEF lines
<1>7. AreLines(lines) /\ DOMAIN lines = 1 .. Len(lines) /\ \A k \in 1 .. Len(lines) : lines[k] \in Range(lines)
  BY <1>5, <1>6, SeqFacts DEF AreLines, IsLine
<1> DEFINE fc == Sorted(<<lines>>)
<1>8. PICK g \in [1 .. Len(fc) -> 1 .. Len(lines)] :
            /\ fc \in Seq(Range(lines))
            /\ \A k \in 1 .. Len(fc) : fc[k] = lines[g[k]] /\ lines[g[k]] # Blank
            /\ \A k \in 1 .. Len(lines) : lines[k] # Blank => \E m \in 1 .. Len(fc) : g[m] = k
            /\ \A j, k \in 1 .. Len(fc) : j < k => InTurn(lines, g[j], g[k])
  BY <1>7, SortedIs
<1> HIDE DEF fc
<1>9. Len(fc) \in Nat /\ DOMAIN fc = 1 .. Len(fc)
  BY <1>8
<1>10. Range(fc) = Range(lines)
  <2>1. ASSUME NEW x \in Range(lines) PROVE x \in Range(fc)
    <3>1. PICK k \in 1 .. Len(lines) : x = lines[k]
      BY <1>7 DEF Range
    <3>2. PICK m \in 1 .. Len(fc) : g[m] = k
      BY <1>6, <1>8, <3>1
    <3>3. m \in DOMAIN fc /\ fc[m] = x
      BY <1>8, <1>9, <3>1, <3>2
    <3> QED
      BY <3>3 DEF Range
  <2>2. ASSUME NEW x \in Range(fc) PROVE x \in Range(lines)
    BY <1>8, <1>9 DEF Range
  <2> QED
    BY <2>1, <2>2
<1>11. IsSeq(fc)
  BY <1>8, <1>10 DEF IsSeq
<1>12. ASSUME NEW j \in DOMAIN fc, NEW k \in DOMAIN fc, j < k PROVE ~LineLess(fc[k], fc[j])
  <2>1. InTurn(lines, g[j], g[k]) /\ fc[j] = lines[g[j]] /\ fc[k] = lines[g[k]]
    BY <1>8, <1>9, <1>12
  <2>2. IsNode(Node(fc[j])) /\ IsNode(Node(fc[k]))
    <3>1. fc[j] \in Range(lines) /\ fc[k] \in Range(lines)
      BY <1>10 DEF Range
    <3> QED
      BY <1>6, <3>1, NodeIs
  <2>3. LineLess(fc[j], fc[k]) => ~LineLess(fc[k], fc[j])
    BY <2>2, LessIsStrict DEF LineLess
  <2> QED
    BY <2>1, <2>3 DEF InTurn
<1>13. Range(fc) = {Line(l) : l \in Read}
  BY <1>5, <1>10, ReadIs
<1> QED
  BY <1>1, <1>11, <1>12, <1>13 DEF fc

\* What file_contexts.bin holds, and what checkfc was given for it.
LEMMA BinIs ==
  ASSUME FInv, BinBuilt
  PROVE  /\ source \in Inputs /\ OutRight
         /\ Len(out["bin"]) \in Nat /\ DOMAIN out["bin"] = 1 .. Len(out["bin"])
         /\ Range(out["bin"]) = {Line(l) : l \in Read}
         /\ DOMAIN given.file.entries = 1 .. Len(out["bin"])
         /\ \A k \in 1 .. Len(out["bin"]) :
              /\ given.file.entries[k].paths = Denoted(out["bin"][k].path)
              /\ given.file.entries[k].static = (Operators(out["bin"][k].path) = {})
<1> DEFINE lines == out["bin"]
           es == given.file.entries
           all == {Line(l) : l \in Read}
<1>1. Built("bin")
  BY DEF BinBuilt
<1>2. build # "no build"
  <2>1. DOMAIN <<>> = {}
    OBVIOUS
  <2> QED
    BY <1>1, <2>1 DEF FInv, NoBuild, Built
<1>3. source \in Inputs /\ OutRight /\ given.file = AsFile(lines) /\ Built("concat.tmp")
      /\ lines = out["concat.tmp"]
  BY <1>1, <1>2 DEF FInv, Building, BinAccepted, InSequence, WholeGiven
<1>4. PICK f : MadeOf(lines, source, Partitions, f)
  BY <1>3 DEF OutRight, RightLines, Built, InBinOrder
<1>5. IsSeq(lines) /\ DOMAIN lines = 1 .. Len(lines) /\ Len(lines) \in Nat
  BY <1>4, SeqFacts DEF MadeOf
<1>6. es = [k \in 1 .. Len(lines) |->
             [paths |-> Denoted(lines[k].path), static |-> Operators(lines[k].path) = {},
              type |-> lines[k].type]]
  BY <1>3, <1>5 DEF AsFile
<1>7. /\ f \in [1 .. Len(lines) -> Read]
      /\ \A k \in 1 .. Len(lines) : lines[k] = Line(f[k])
      /\ \A l \in Read : \E k \in 1 .. Len(lines) : f[k] = l
  BY <1>4, ReadIs DEF MadeOf
<1> HIDE DEF lines, es
<1>8. Range(lines) = all
  <2>1. ASSUME NEW x \in Range(lines) PROVE x \in all
    <3>1. PICK k \in 1 .. Len(lines) : x = lines[k]
      BY <1>5 DEF Range
    <3>2. f[k] \in Read /\ x = Line(f[k])
      BY <1>7, <3>1
    <3> QED
      BY <3>2
  <2>2. ASSUME NEW x \in all PROVE x \in Range(lines)
    <3>1. PICK l \in Read : x = Line(l)
      OBVIOUS
    <3>2. PICK k \in 1 .. Len(lines) : f[k] = l
      BY <1>7
    <3>3. k \in DOMAIN lines /\ lines[k] = x
      BY <1>5, <1>7, <3>1, <3>2
    <3> QED
      BY <3>3 DEF Range
  <2> HIDE DEF all
  <2> QED
    BY <2>1, <2>2
<1>9. DOMAIN es = 1 .. Len(lines)
      /\ \A k \in 1 .. Len(lines) : /\ es[k].paths = Denoted(lines[k].path)
                                    /\ es[k].static = (Operators(lines[k].path) = {})
  BY <1>6
<1> QED
  BY <1>3, <1>5, <1>8, <1>9 DEF lines, es

\* A line that is also for a path, and is not its label, is one before it that is as plain,
\* or it is an expression and the label is none.
LEMMA LabelIs ==
  ASSUME FInv, BinBuilt, NEW path \in Paths
  PROVE  /\ Lookup(path) \in DOMAIN out["bin"] /\ path \in Denoted(Label(path).path)
         /\ \E l \in Read : Label(path) = Line(l)
         /\ Label(path) \in Range(out["bin"])
         /\ \A k \in DOMAIN out["bin"] :
              path \in Denoted(out["bin"][k].path) /\ k # Lookup(path) =>
                LET a == Operators(out["bin"][k].path) = {}
                    b == Operators(Label(path).path) = {}
                IN  (b /\ ~a) \/ (a = b /\ k < Lookup(path))
<1> DEFINE lines == out["bin"]
           es == given.file.entries
           n == Len(lines)
           m == Lookup(path)
           same(k) == es[m].static <=> es[k].static
<1>1. n \in Nat /\ DOMAIN lines = 1 .. n /\ DOMAIN es = 1 .. n
      /\ Range(lines) = {Line(l) : l \in Read}
      /\ \A k \in 1 .. n : /\ es[k].paths = Denoted(lines[k].path)
                           /\ es[k].static = (Operators(lines[k].path) = {})
  BY BinIs
<1>2. Label(path) = lines[m]
  BY DEF Label
<1>3. Matching(path) = {k \in 1 .. n : path \in Denoted(lines[k].path)}
  BY <1>1 DEF Matching
<1>4. Matching(path) # {}
  <2>1. PICK line \in Range(lines) : path \in Denoted(line.path)
    BY DEF Paths
  <2>2. PICK k \in 1 .. n : line = lines[k]
    BY <1>1, <2>1 DEF Range
  <2> HIDE DEF lines, n
  <2> QED
    BY <1>3, <2>1, <2>2
<1> HIDE DEF n, lines
<1>5. /\ m \in Matching(path) /\ m \in 1 .. n
      /\ \A k \in Matching(path) : \/ k <= m /\ same(k)
                                   \/ es[m].static /\ ~es[k].static
  BY <1>1, <1>4, LookupIs
<1> HIDE DEF m, es
<1>6. lines[m] \in Range(lines)
  BY <1>1, <1>5 DEF Range
<1>7. ASSUME NEW k \in DOMAIN lines, path \in Denoted(lines[k].path), k # m
      PROVE  LET a == Operators(lines[k].path) = {}
                 b == Operators(lines[m].path) = {}
             IN  (b /\ ~a) \/ (a = b /\ k < m)
  <2>1. k \in Matching(path) /\ k \in 1 .. n
    BY <1>1, <1>3, <1>7
  <2>2. k <= m => k < m
    BY <1>1, <1>5, <1>7, <2>1
  <2>3. /\ es[k].static = (Operators(lines[k].path) = {})
        /\ es[m].static = (Operators(lines[m].path) = {})
    BY <1>1, <1>5, <2>1, Zenon
  <2>4. \/ k <= m /\ same(k)
        \/ es[m].static /\ ~es[k].static
    BY <1>5, <2>1, Zenon
  <2> QED
    BY <2>2, <2>3, <2>4, Zenon
<1>8. m \in DOMAIN lines /\ path \in Denoted(lines[m].path) /\ \E l \in Read : lines[m] = Line(l)
  BY <1>1, <1>3, <1>5, <1>6
<1>9. \A k \in DOMAIN lines : path \in Denoted(lines[k].path) /\ k # m =>
        LET a == Operators(lines[k].path) = {}
            b == Operators(lines[m].path) = {}
        IN  (b /\ ~a) \/ (a = b /\ k < m)
  BY <1>7
<1> QED
  BY <1>2, <1>6, <1>8, <1>9 DEF lines, m

\* The lines of the files are among those that are supposed of.
LEMMA ReadIsWritten ==
  ASSUME source \in Inputs, NEW l \in Read
  PROVE  Line(l).path \in Written /\ IsSeq(Line(l).path)
<1> DEFINE path == Line(l).path
<1>1. l \in Ids(source, Partitions) /\ Line(l) = LineOf(source, l)
  BY ReadIs
<1>2. l[1] \in Partitions /\ l[2] \in 1 .. Len(source[l[1]]) /\ LineOf(source, l) # Blank /\ IsSeq(path)
  BY <1>1, IdFacts
<1>3. Line(l) \in Range(source[l[1]])
  <2>1. DOMAIN source[l[1]] = 1 .. Len(source[l[1]])
    BY <1>2, InputsAreFiles, SeqFacts DEF IsSeq
  <2> QED
    BY <1>2, <2>1 DEF Range, Line
<1>4. Line(l) \in Given
  BY <1>1, <1>2, <1>3 DEF Given
<1>5. path \in Lefts(path)
  <2>1. path = SubSeq(path, 1, Len(path))
    BY <1>2, SubSeqFull DEF IsSeq
  <2> HIDE DEF path
  <2> QED
    BY <2>1, Zenon DEF Lefts
<1> QED
  BY <1>2, <1>4, <1>5 DEF Written

\* The prefix of a path that its label's expression spells is one for that expression.
LEMMA JudgedMatches ==
  ASSUME FInv, BinBuilt, NEW prefix, IsSeq(prefix), NEW path \in Judged(prefix)
  PROVE  MatchPathPrefix(Label(path).path, prefix)
<1> DEFINE r == Label(path).path
           n == Len(COMMON_PREFIXES)
           s == Stripped(r, prefix)
<1>1. path \in Paths /\ IsPrefix(prefix, path) /\ Spelt(r, prefix)
  BY DEF Judged, Below
<1>2. source \in Inputs
  BY BinIs
<1>3. r \in Written /\ path \in Denoted(r)
  BY <1>1, <1>2, LabelIs, ReadIsWritten
<1>4. /\ s # NoPartition /\ MatchesCut(r, prefix)
      /\ \A k \in Operators(s.regex) :
           (\A o \in Operators(s.regex) : k <= o) => s.regex[k] \notin Absent
  BY <1>1 DEF Spelt
<1>5. Kept(StripStart(r, prefix))
  <2> HIDE DEF r
  <2> QED
    BY <1>1, <1>3, <1>4 DEF Kept, StripStart
<1>6. PICK f : /\ s = f[n] /\ f[0] = StripStart(r, prefix)
               /\ \A k \in 1 .. n : f[k] = Strip(f[k - 1], COMMON_PREFIXES[k])
  BY StrippedIs
<1> HIDE DEF s, r
<1>7. n \in Nat /\ \A k \in 1 .. n : COMMON_PREFIXES[k] \in Range(COMMON_PREFIXES)
  BY PrefixesAreStrings, SeqFacts DEF IsSeq
<1> HIDE DEF n
<1> DEFINE S == {k \in 0 .. n : ~Kept(f[k])}
<1>8. 0 \notin S
  BY <1>5, <1>6
<1>9. ASSUME NEW k \in 0 .. n, k # n, k \notin S PROVE k + 1 \notin S
  <2>1. k + 1 \in 1 .. n /\ (k + 1) - 1 = k
    BY <1>7, <1>9
  <2>2. f[k + 1] = Strip(f[k], COMMON_PREFIXES[k + 1]) /\ COMMON_PREFIXES[k + 1] \in Range(COMMON_PREFIXES)
    BY <1>6, <1>7, <2>1
  <2>3. Kept(f[k])
    BY <1>9
  <2> DEFINE c == COMMON_PREFIXES[k + 1]
  <2>4. c \in Range(COMMON_PREFIXES) /\ f[k + 1] = Strip(f[k], c)
    BY <2>2
  <2> HIDE DEF c
  <2>5. Kept(f[k + 1])
    BY <2>3, <2>4, StripKeeps, Zenon
  <2> QED
    BY <2>5
<1>10. S \subseteq 0 .. n
  OBVIOUS
<1>11. S = {}
  <2> HIDE DEF S
  <2> QED
    BY <1>7, <1>8, <1>9, <1>10, Upward
<1>12. Kept(s)
  <2>1. n \in 0 .. n
    BY <1>7
  <2> QED
    BY <1>6, <1>11, <2>1
<1>13. LET stops == {d \in DOMAIN s.prefix : \/ d > Len(s.regex) \/ ~Normal(s.regex[d])
                                             \/ s.regex[d] # s.prefix[d]}
           d == Min(stops)
       IN  \/ stops = {}
           \/ d <= Len(s.regex) /\ ~Normal(s.regex[d]) /\ MatchesCut(s.regex, s.prefix)
  BY <1>4, <1>12, SpeltMatches
<1> QED
  BY <1>4, <1>13, Zenon DEF MatchPathPrefix, s, r

\* What the tests have seen: the lines of all files, which pass.
Tested == Built("sepolicy_test") => Ready(Local \o Device) /\ Passes(FcSorted)

\* Below the prefixes of a test, the line that labels a path is one that the test looks at:
\* none of those for the prefix itself is after it in the sorted files.
LEMMA LabelIsLookedAt ==
  ASSUME FInv, BinBuilt, Ready(Local \o Device), NEW prefix, IsSeq(prefix),
         NEW path \in Judged(prefix), Agrees(path, prefix)
  PROVE  Label(path) \in MatchPathPrefixTypes(FcSorted, prefix)
<1> DEFINE fc == FcSorted
           bin == out["bin"]
           l == Label(path)
           exact == Exact(fc, prefix)
<1>1. path \in Below(prefix) /\ path \in Paths
  BY DEF Judged, Below
<1>2. /\ DOMAIN bin = 1 .. Len(bin) /\ Range(bin) = {Line(x) : x \in Read}
  BY BinIs
<1>3. /\ IsSeq(fc) /\ Range(fc) = {Line(x) : x \in Read}
      /\ \A j, k \in DOMAIN fc : j < k => ~LineLess(fc[k], fc[j])
  BY BinIs, FcSortedIs
<1>4. l \in Range(bin) /\ MatchPathPrefix(l.path, prefix)
  BY <1>1, LabelIs, JudgedMatches
<1>5. \A line \in Range(bin) : prefix \in Denoted(line.path) /\ line # l => LineLess(line, l)
  BY DEF Agrees, LineLess
<1>6. Len(fc) \in Nat /\ DOMAIN fc = 1 .. Len(fc)
  BY <1>3, SeqFacts
<1>7. PICK k \in DOMAIN fc : fc[k] = l
  <2>1. l \in Range(fc)
    BY <1>2, <1>3, <1>4
  <2> QED
    BY <2>1 DEF Range
<1> HIDE DEF fc, l, bin
<1>8. exact \in SUBSET (1 .. Len(fc))
  BY <1>6 DEF Exact
<1>9. FcSortedIndex(fc, prefix) = IF exact = {} THEN 1 ELSE Max(exact)
  BY DEF FcSortedIndex
<1>10. \E j \in DOMAIN fc : fc[j] = l /\ FcSortedIndex(fc, prefix) <= j
  <2>1. CASE exact = {}
    BY <1>6, <1>7, <1>9, <2>1
  <2>2. CASE exact # {}
    <3> DEFINE m == Max(exact)
    <3>1. PICK j \in exact : \A x \in exact : x <= j
      <4> HIDE DEF exact
      <4> QED
        BY <1>6, <1>8, <2>2, LastThereIs
    <3>2. m \in exact /\ \A x \in exact : x <= m
      <4> HIDE DEF exact
      <4>1. \A x \in exact : j >= x
        BY <1>6, <1>8, <3>1
      <4>2. m \in exact /\ \A x \in exact : m >= x
        BY <3>1, <4>1, Zenon DEF Max
      <4> QED
        BY <1>6, <1>8, <4>2
    <3> HIDE DEF m
    <3>3. m \in DOMAIN fc /\ prefix \in Denoted(fc[m].path)
      BY <3>2 DEF Exact
    <3>4. fc[m] \in Range(bin)
      BY <1>2, <1>3, <3>3 DEF Range
    <3>6. CASE fc[m] = l
      BY <1>6, <1>9, <2>2, <3>3, <3>6 DEF m
    <3>7. CASE fc[m] # l
      <4>2. LineLess(fc[m], fc[k])
        BY <1>5, <1>7, <3>3, <3>4, <3>7
      <4>3. ~(k < m)
        BY <1>3, <3>3, <4>2 DEF fc
      <4>4. m <= k
        BY <1>6, <3>3, <4>3
      <4> QED
        BY <1>7, <1>9, <2>2, <4>4 DEF m
    <3> QED
      BY <3>6, <3>7
  <2> QED
    BY <2>1, <2>2
<1>11. PICK j \in DOMAIN fc : fc[j] = l /\ FcSortedIndex(fc, prefix) <= j
  BY <1>10
<1>12. FcSortedIndex(fc, prefix) \in Nat
  <2>1. CASE exact = {}
    BY <1>9, <2>1
  <2>2. CASE exact # {}
    <3>1. PICK x \in exact : \A y \in exact : y <= x
      <4> HIDE DEF exact
      <4> QED
        BY <1>6, <1>8, <2>2, LastThereIs
    <3>2. Max(exact) \in exact
      <4> HIDE DEF exact
      <4>1. \A y \in exact : x >= y
        BY <1>6, <1>8, <3>1
      <4> QED
        BY <3>1, <4>1, Zenon DEF Max
    <3> QED
      BY <1>8, <1>9, <2>2, <3>2
  <2> QED
    BY <2>1, <2>2
<1>13. j \in FcSortedIndex(fc, prefix) .. Len(fc)
  BY <1>6, <1>11, <1>12
<1> QED
  BY <1>4, <1>11, <1>13 DEF MatchPathPrefixTypes, fc, l

\* So its type is one that the test allows.
LEMMA TypesAreTested ==
  ASSUME FInv, BinBuilt, Ready(Local \o Device), Passes(FcSorted)
  PROVE  TypesTested
<1> SUFFICES ASSUME NEW t \in AttrTests, NEW prefix \in t.prefixes,
                    NEW path \in Judged(prefix), Agrees(path, prefix),
                    ~MatchPathPrefixes(Label(path).path, t.except)
             PROVE  TypeFits(t, Label(path).type)
  BY DEF TypesTested
<1>1. IsSeq(prefix)
  BY PrefixesAreStrings DEF IsSeq
<1>2. Label(path) \in MatchPathPrefixTypes(FcSorted, prefix)
  BY <1>1, LabelIsLookedAt
<1>3. Label(path) \in PathTypes(FcSorted, t)
  BY <1>2 DEF PathTypes
<1>4. Violators(FcSorted, t) = {}
  BY DEF Passes
<1> QED
  BY <1>3, <1>4 DEF Violators

\* Each of the paths from which a domain is started is one that the tests have looked at.
LEMMA DomainsAreTested ==
  ASSUME FInv, BinBuilt, Ready(Local \o Device), Passes(FcSorted)
  PROVE  DomainsTested
<1> SUFFICES ASSUME NEW name \in DOMAIN Domains, ~Trusted(name), NEW path \in Paths,
                    Label(path).type \in Domains[name].entrypoints \ {"postinstall_file"},
                    NEW prefix, path \in Judged(prefix)
             PROVE  /\ prefix \in VendorPaths \cup {SystemVendor} =>
                         "coredomain" \notin Domains[name].attrs
                    /\ prefix \in SystemPaths \cup {SystemPath}
                       /\ (prefix = SystemPath => ~MatchPathPrefix(Label(path).path, SystemVendor))
                       => "coredomain" \in Domains[name].attrs
  BY DEF DomainsTested
<1> DEFINE r == Label(path).path
           paths == EntrypointPaths(FcSorted, Domains[name])
<1>1. Label(path) \in Range(FcSorted)
  <2>1. Range(FcSorted) = {Line(x) : x \in Read} /\ Range(out["bin"]) = {Line(x) : x \in Read}
    BY BinIs, FcSortedIs
  <2>2. Label(path) \in Range(out["bin"])
    BY LabelIs
  <2> QED
    BY <2>1, <2>2
<1>2. r \in paths
  BY <1>1 DEF EntrypointPaths
<1>3. ~CoredomainError(FcSorted, name)
  BY DEF Passes
<1> HIDE DEF r, paths
<1>4. prefix \in VendorPaths \cup {SystemVendor} \cup SystemPaths \cup {SystemPath}
      => MatchPathPrefix(r, prefix)
  <2>1. prefix \in VendorPaths \cup {SystemVendor} \cup SystemPaths \cup {SystemPath} => IsSeq(prefix)
    BY PrefixesAreStrings DEF IsSeq
  <2> QED
    BY <2>1, JudgedMatches DEF r
<1>5. prefix \in VendorPaths \cup {SystemVendor} => FromVendor(r)
  BY <1>4 DEF FromVendor, MatchPathPrefixes
<1>6. prefix \in SystemPaths \cup {SystemPath}
      /\ (prefix = SystemPath => ~MatchPathPrefix(r, SystemVendor)) => FromSystem(r)
  BY <1>4 DEF FromSystem, MatchPathPrefixes
<1>7. /\ ((\E x \in paths : FromVendor(x)) => "coredomain" \notin Domains[name].attrs)
      /\ ((\E x \in paths : FromSystem(x)) => "coredomain" \in Domains[name].attrs)
  BY <1>3, Zenon DEF CoredomainError, paths
<1> QED
  BY <1>2, <1>5, <1>6, <1>7 DEF r

\* So a test that passed means what it says.
LEMMA TestsMeanIt == FInv /\ Tested => TestsMean
BY TypesAreTested, DomainsAreTested DEF Tested, TestsMean, AllBuilt

\* A step adds an output or none, and that of the tests only if they pass.
LEMMA OutputsStay ==
  ASSUME FInv, [TestNext]_<<vars, buildVars>>
  PROVE  \/ out' = out
         \/ \E o, lines : /\ ~Built(o) /\ out' = With(o, lines)
                          /\ o = "sepolicy_test" => Ready(Local \o Device) /\ Passes(FcSorted)
<1> DEFINE Adds == \E o, lines : /\ ~Built(o) /\ out' = With(o, lines)
                                 /\ o = "sepolicy_test" => Ready(Local \o Device) /\ Passes(FcSorted)
<1> SUFFICES out' = out \/ Adds
  OBVIOUS
<1>1. "sepolicy_test" \notin Outputs
  BY OutputNames DEF Outputs
<1>2. ASSUME NEW o \in Outputs, NEW lines, Write(o, lines) PROVE Adds
  BY <1>1, <1>2 DEF Write
<1>3. ASSUME NEW p \in Partitions, Contexts(p) PROVE Adds
  <2>1. PICK lines : Write(p, lines)
    BY <1>3 DEF Contexts
  <2>2. p \in Outputs
    BY DEF Outputs
  <2> HIDE DEF Adds
  <2> QED
    BY <1>2, <2>1, <2>2
<1>4. CASE LocalTmp \/ DeviceTmp \/ ConcatTmp
  <2>1. \E o \in {"local.tmp", "device.tmp", "concat.tmp"} : \E lines : Write(o, lines)
    BY <1>4, Zenon DEF LocalTmp, DeviceTmp, ConcatTmp
  <2>2. {"local.tmp", "device.tmp", "concat.tmp"} \subseteq Outputs
    BY DEF Outputs
  <2> HIDE DEF Adds
  <2> QED
    BY <1>2, <2>1, <2>2
<1>5. CASE CheckDevice \/ CheckWhole \/ Checking \/ CheckFcAlone \/ UNCHANGED <<vars, buildVars>>
  BY <1>5 DEF CheckDevice, CheckWhole, StartCheckFc, Checking, CheckFcAlone, buildVars
<1>6. CASE Checked
  <2>1. ~Built(build) /\ build \in Outputs
    <3>1. build \in Outputs
      BY <1>6 DEF Checked
    <3>2. BeingChecked
      BY <3>1, OutputNames DEF FInv, Building
    <3> QED
      BY <3>1, <3>2 DEF BeingChecked
  <2>2. out' = out \/ \E lines : out' = With(build, lines)
    BY <1>6 DEF Checked
  <2> QED
    BY <1>1, <2>1, <2>2
<1>7. CASE SepolicyTest
  <2>1. CASE Passes(FcSorted)
    <3>1. ~Built("sepolicy_test") /\ Ready(Local \o Device) /\ out' = With("sepolicy_test", <<>>)
      BY <1>7, <2>1 DEF SepolicyTest, Write
    <3> QED
      BY <2>1, <3>1
  <2>2. CASE ~Passes(FcSorted)
    BY <1>7, <2>2 DEF SepolicyTest
  <2> QED
    BY <2>1, <2>2
<1> HIDE DEF Adds
<1> QED
  BY <1>3, <1>4, <1>5, <1>6, <1>7 DEF TestNext, BuildNext

\* What the tests have seen does not change.
LEMMA TestedStays == FInv /\ Tested /\ [TestNext]_<<vars, buildVars>> => Tested'
<1> SUFFICES ASSUME FInv, Tested, [TestNext]_<<vars, buildVars>> PROVE Tested'
  OBVIOUS
<1>1. CASE out' = out
  <2>1. FcSorted' = FcSorted
    BY <1>1 DEF FcSorted
  <2> QED
    BY <1>1, <2>1 DEF Tested, Built, Ready
<1>2. ASSUME NEW o, NEW lines, ~Built(o), out' = With(o, lines),
             o = "sepolicy_test" => Ready(Local \o Device) /\ Passes(FcSorted)
      PROVE  Tested'
  <2>1. /\ DOMAIN out' = DOMAIN out \cup {o}
        /\ \A p \in DOMAIN out : out'[p] = out[p]
    BY <1>2, WithIs DEF Built
  <2>2. SUFFICES ASSUME Built("sepolicy_test")' PROVE (Ready(Local \o Device) /\ Passes(FcSorted))'
    BY DEF Tested
  <2>3. Ready(Local \o Device) /\ Passes(FcSorted)
    BY <1>2, <2>1, <2>2 DEF Tested, Built
  <2>4. Ready(Local \o Device)'
    BY <2>1, <2>3 DEF Ready, Built
  <2>5. FcSorted' = FcSorted
    <3> DEFINE names == <<"plat", "vendor", "system_ext", "product", "odm">>
    <3>1. \A k \in 1 .. 5 : names[k] \in Partitions
      BY Indices
    <3>2. \A p \in Partitions : p \in DOMAIN out
      BY <2>3, AllPartitions DEF Ready, Built
    <3>3. \A k \in 1 .. 5 : out'[names[k]] = out[names[k]]
      BY <2>1, <3>1, <3>2
    <3> HIDE DEF names
    <3>4. [k \in 1 .. 5 |-> out'[names[k]]] = [k \in 1 .. 5 |-> out[names[k]]]
      BY <3>3
    <3> QED
      BY <3>4, Zenon DEF FcSorted, names
  <2>6. Passes(FcSorted)'
    BY <2>3, <2>5
  <2> QED
    BY <2>4, <2>6
<1> QED
  BY <1>1, <1>2, OutputsStay

\* Nothing is tested at first.
LEMMA NotYetTested == BuildInit \/ Alone => Tested
<1>1. DOMAIN <<>> = {}
  OBVIOUS
<1> QED
  BY <1>1 DEF BuildInit, Alone, Tested, Built

\* sepolicy_test passes only if, below the prefixes of its tests, a device labels a path with a
\* type that the tests allow, and starts no domain of the other side from it: whatever the
\* order of the lines is in the files that are not sorted, each path whose label is more
\* specific than the other lines for the prefix (Agrees), and is spelt as Spelt has it.
THEOREM TestsAreMeant == TestSpec => []TestsMean
<1>1. BuildInit \/ Alone => FInv /\ Tested
  BY BuildBegins, NotYetTested
<1>2. FInv /\ Tested /\ [TestNext]_<<vars, buildVars>> => (FInv /\ Tested)'
  BY FilesStepInv, TestedStays
<1> QED
  BY <1>1, <1>2, TestsMeanIt, PTL DEF TestSpec
=============================================================================
