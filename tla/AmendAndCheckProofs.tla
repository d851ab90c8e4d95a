------------------------- MODULE AmendAndCheckProofs ------------------------
(***************************************************************************)
(* For every policy, every query and every width of the mask: what "Match  *)
(* found!" and the exit status 0 of sepolicy-check can be relied on for.   *)
(* And for any number of amendments, of any policies by any CIL files, and *)
(* any failures between: the answers of sepolicy-check are about all the   *)
(* rules that went into the policy.                                        *)
(***************************************************************************)
EXTENDS AmendAndCheck, SequenceTheorems, TLAPS

(***************************************************************************)
(* sepolicy-check on a policy, however it was made.                        *)
(***************************************************************************)
\* A name is looked up before the rules; a table is left behind only when none
\* of its expanded entries matches.
NamesKnown == pc \in {"te", "cond"} \/ status = 0 => ~Unknown
Passed(table) == \A e \in Expanded(table) : ~Matches(e)
TablesPassed == /\ pc = "cond" \/ status = 0 => Passed(policy.te)
                /\ status = 0 => Passed(policy.cond)
WellFormed == /\ policy.te \subseteq Rule /\ policy.cond \subseteq Rule
              /\ \A arg \in {query.s, query.t, query.c, query.p} : arg.op \in {"EQUALS", "NOT", "ANY"}
Phases     == /\ pc \in {"options", "load", "resolve", "te", "cond", "done"}
              /\ status \in {Running, 0, 1, Error, Crashed, Undefined}
              /\ pc = "done" <=> status # Running
              /\ printed \in BOOLEAN /\ (printed => status = 1)
IInv == WellFormed /\ Phases /\ NamesKnown /\ TablesPassed /\ MatchReal

-----------------------------------------------------------------------------
\* Check means what the documentation says of an argument.
LEMMA CheckIsFits ==
  ASSUME NEW arg, NEW name, arg.op \in {"EQUALS", "NOT", "ANY"}
  PROVE  Check(arg, name) <=> Fits(arg, name)
BY DEF Check, Fits

\* An entry of the expanded table comes from a rule, and has its class and data.
LEMMA ExpandedFrom ==
  ASSUME NEW table, table \subseteq Rule, NEW e \in Expanded(table)
  PROVE  \E r \in table : /\ e.s \in Members(r.s) /\ e.t \in Members(r.t)
                          /\ e.c = r.c /\ e.data = r.data
<1>1. PICK r \in table : e \in {[r EXCEPT !.s = st[1], !.t = st[2]] :
                                  st \in Members(r.s) \X Members(r.t)}
  BY DEF Expanded
<1>2. PICK st \in Members(r.s) \X Members(r.t) : e = [r EXCEPT !.s = st[1], !.t = st[2]]
  BY <1>1
<1>3. r \in Rule
  OBVIOUS
<1>4. e.s = st[1] /\ e.t = st[2] /\ e.c = r.c /\ e.data = r.data
  BY <1>2, <1>3 DEF Rule
<1> QED
  BY <1>4

\* Every pair of types that a rule is about has an entry.
LEMMA ExpandedHas ==
  ASSUME NEW table, table \subseteq Rule, NEW r \in table,
         NEW s \in Members(r.s), NEW t \in Members(r.t)
  PROVE  \E e \in Expanded(table) : e.s = s /\ e.t = t /\ e.c = r.c /\ e.data = r.data
<1> DEFINE e == [r EXCEPT !.s = s, !.t = t]
<1>1. e \in {[r EXCEPT !.s = st[1], !.t = st[2]] : st \in Members(r.s) \X Members(r.t)}
  <2>1. <<s, t>> \in Members(r.s) \X Members(r.t) /\ e = [r EXCEPT !.s = <<s, t>>[1], !.t = <<s, t>>[2]]
    OBVIOUS
  <2> QED
    BY <2>1
<1>2. e \in Expanded(table)
  <2> DEFINE Of(q) == {[q EXCEPT !.s = st[1], !.t = st[2]] : st \in Members(q.s) \X Members(q.t)}
  <2>1. Expanded(table) = UNION {Of(q) : q \in table}
    BY DEF Expanded
  <2>2. e \in Of(r)
    BY <1>1
  <2> HIDE DEF e, Of
  <2> QED
    BY <2>1, <2>2
<1>3. r \in Rule
  OBVIOUS
<1>4. e.s = s /\ e.t = t /\ e.c = r.c /\ e.data = r.data
  BY <1>3 DEF Rule
<1> QED
  BY <1>2, <1>4

\* So a table that was passed has no rule that gives a permission the mask has
\* room for.
LEMMA PassedHoldsNone ==
  ASSUME NEW table, table \subseteq Rule, Passed(table),
         \A arg \in {query.s, query.t, query.c} : arg.op \in {"EQUALS", "NOT", "ANY"},
         PermValue \in 1 .. MaskBits, NEW r \in table
  PROVE  ~Holds(r, PermValue)
<1> SUFFICES ASSUME Holds(r, PermValue) PROVE FALSE
  OBVIOUS
<1>1. PICK s \in Members(r.s), t \in Members(r.t) : Fits(query.s, s) /\ Fits(query.t, t)
  BY DEF Holds
<1>2. PICK e \in Expanded(table) : e.s = s /\ e.t = t /\ e.c = r.c /\ e.data = r.data
  BY ExpandedHas
<1>3. Check(query.s, e.s) /\ Check(query.t, e.t) /\ Check(query.c, e.c)
  BY <1>1, <1>2, CheckIsFits DEF Holds
<1>4. CheckPerm(e)
  BY <1>2 DEF Holds, CheckPerm, PermBitmask
<1> QED
  BY <1>3, <1>4 DEF Passed, Matches

\* and an entry that matches comes from a rule that has the bit.
LEMMA MatchHolds ==
  ASSUME NEW table, table \subseteq Rule, NEW e \in Expanded(table), Matches(e),
         \A arg \in {query.s, query.t, query.c} : arg.op \in {"EQUALS", "NOT", "ANY"}
  PROVE  \E r \in table : Holds(r, PermValue)
<1>1. PICK r \in table : /\ e.s \in Members(r.s) /\ e.t \in Members(r.t)
                         /\ e.c = r.c /\ e.data = r.data
  BY ExpandedFrom
<1>2. Fits(query.s, e.s) /\ Fits(query.t, e.t) /\ Fits(query.c, e.c)
  BY CheckIsFits DEF Matches
<1>3. PermValue \in r.data
  BY <1>1 DEF Matches, CheckPerm, PermBitmask
<1> QED
  BY <1>1, <1>2, <1>3 DEF Holds

-----------------------------------------------------------------------------
\* The invariant is kept by every step: only the two searches touch what it says
\* about the tables.
LEMMA Inductive == IInv /\ [Next]_vars => IInv'
<1> SUFFICES ASSUME IInv, [Next]_vars PROVE IInv'
  OBVIOUS
<1> USE DEF IInv
<1>1. CASE ParseOptions
  BY <1>1 DEF ParseOptions, Exit, Goto, WellFormed, Phases, NamesKnown, TablesPassed, MatchReal, Rules,
     Running, Error, Crashed, Undefined
<1>2. CASE LoadPolicy
  BY <1>2 DEF LoadPolicy, Exit, Goto, WellFormed, Phases, NamesKnown, TablesPassed, MatchReal, Rules,
     Running, Error, Crashed, Undefined
<1>3. CASE Resolve
  <2>1. pc = "resolve" /\ UNCHANGED <<policy, query, printed>> /\ printed = FALSE /\ status = Running
    BY <1>3 DEF Resolve, Exit, Goto, Phases, Running
  <2>2. \/ pc' = "done" /\ status' \in {Error, Crashed}
        \/ pc' = "te" /\ status' = Running /\ ~Unknown
    BY <1>3, <2>1 DEF Resolve, Exit, Goto
  <2> QED
    BY <2>1, <2>2 DEF WellFormed, Phases, NamesKnown, TablesPassed, MatchReal, Unknown, Running, Error, Crashed
<1>4. CASE SearchTe
  <2>1. pc = "te" /\ UNCHANGED <<policy, query>> /\ printed = FALSE /\ status = Running /\ ~Unknown
    BY <1>4 DEF SearchTe, Phases, NamesKnown, Running
  <2>2. \/ pc' = "done" /\ status' \in {Error, Crashed} /\ printed' = FALSE
        \/ /\ pc' = "done" /\ status' = 1 /\ printed' = TRUE
           /\ \E e \in Expanded(policy.te) : Matches(e)
        \/ pc' = "cond" /\ status' = Running /\ printed' = FALSE /\ Passed(policy.te)
    BY <1>4, <2>1 DEF SearchTe, Search, Exit, Goto, Found, Passed
  <2>3. (\E e \in Expanded(policy.te) : Matches(e)) => \E r \in Rules : Holds(r, PermValue)
    BY MatchHolds DEF WellFormed, Rules
  <2>4. /\ (\E r \in Rules : Holds(r, PermValue)) => (\E r \in Rules : Holds(r, PermValue))'
        /\ Passed(policy.te) => Passed(policy.te)'
        /\ Unknown' = Unknown
    BY <2>1 DEF Rules, Holds, PermValue, Passed, Matches, Check, CheckPerm, Unknown
  <2>5. WellFormed' /\ Phases'
    <3>1. printed' \in BOOLEAN /\ (printed' => status' = 1)
      BY <2>2
    <3>2. WellFormed'
      BY <2>1 DEF WellFormed
    <3>3. /\ pc' \in {"cond", "done"} /\ status' \in {Running, 0, 1, Error, Crashed, Undefined}
          /\ pc' = "done" <=> status' # Running
      BY <2>2 DEF Running, Error, Crashed, Undefined
    <3> QED
      BY <3>1, <3>2, <3>3 DEF Phases
  <2>6. NamesKnown' /\ TablesPassed'
    BY <2>1, <2>2, <2>4 DEF NamesKnown, TablesPassed, Running, Error, Crashed
  <2>7. MatchReal'
    BY <2>1, <2>2, <2>3, <2>4 DEF MatchReal
  <2> QED
    BY <2>5, <2>6, <2>7
<1>5. CASE SearchCond
  <2>1. pc = "cond" /\ UNCHANGED <<policy, query>> /\ printed = FALSE /\ status = Running /\ ~Unknown
        /\ Passed(policy.te)
    BY <1>5 DEF SearchCond, Phases, NamesKnown, TablesPassed, Running
  <2>2. \/ pc' = "done" /\ status' \in {Error, Crashed} /\ printed' = FALSE
        \/ /\ pc' = "done" /\ status' = 1 /\ printed' = TRUE
           /\ \E e \in Expanded(policy.cond) : Matches(e)
        \/ pc' = "done" /\ status' = 0 /\ printed' = FALSE /\ Passed(policy.cond)
    BY <1>5, <2>1 DEF SearchCond, Search, Exit, Goto, Found, Passed
  <2>3. (\E e \in Expanded(policy.cond) : Matches(e)) => \E r \in Rules : Holds(r, PermValue)
    BY MatchHolds DEF WellFormed, Rules
  <2>4. /\ (\E r \in Rules : Holds(r, PermValue)) => (\E r \in Rules : Holds(r, PermValue))'
        /\ Passed(policy.te) => Passed(policy.te)'
        /\ Passed(policy.cond) => Passed(policy.cond)'
        /\ Unknown' = Unknown
    BY <2>1 DEF Rules, Holds, PermValue, Passed, Matches, Check, CheckPerm, Unknown
  <2>5. WellFormed' /\ Phases'
    <3>1. printed' \in BOOLEAN /\ (printed' => status' = 1)
      BY <2>2
    <3>2. WellFormed'
      BY <2>1 DEF WellFormed
    <3>3. /\ pc' \in {"cond", "done"} /\ status' \in {Running, 0, 1, Error, Crashed, Undefined}
          /\ pc' = "done" <=> status' # Running
      BY <2>2 DEF Running, Error, Crashed, Undefined
    <3> QED
      BY <3>1, <3>2, <3>3 DEF Phases
  <2>6. NamesKnown' /\ TablesPassed'
    BY <2>1, <2>2, <2>4 DEF NamesKnown, TablesPassed, Running, Error, Crashed
  <2>7. MatchReal'
    BY <2>1, <2>2, <2>3, <2>4 DEF MatchReal
  <2> QED
    BY <2>5, <2>6, <2>7
<1>6. CASE UNCHANGED vars
  BY <1>6 DEF vars, WellFormed, Phases, NamesKnown, TablesPassed, MatchReal, Rules, Holds, PermValue, Passed,
     Matches, Check, CheckPerm, Unknown
<1> QED
  BY <1>1, <1>2, <1>3, <1>4, <1>5, <1>6 DEF Next

\* The invariant holds throughout.
THEOREM Invariance == Spec => []IInv
<1>1. Init => IInv
  <2> SUFFICES ASSUME Init PROVE IInv
    OBVIOUS
  <2>1. WellFormed /\ Phases
    BY PolicyTables, QueryArguments DEF Init, WellFormed, Phases, Running
  <2>2. NamesKnown /\ TablesPassed /\ MatchReal
    BY DEF Init, NamesKnown, TablesPassed, MatchReal, Running
  <2> QED
    BY <2>1, <2>2 DEF IInv
<1> QED
  BY <1>1, Inductive, PTL DEF Spec

\* When the program has passed both tables, no rule of theirs gives the permission.
LEMMA ZeroInv == IInv => NoMissedGrant
<1> SUFFICES ASSUME IInv, status = 0, query.p.op = "EQUALS"
             PROVE  /\ \A arg \in {query.s, query.t} : arg.op # "ANY" => arg.name \in Types
                    /\ PermValue \in 1 .. MaskBits => \A r \in Rules : ~Holds(r, PermValue)
  BY DEF NoMissedGrant
<1>1. \A arg \in {query.s, query.t} : arg.op # "ANY" => arg.name \in Types
  BY DEF IInv, NamesKnown, Unknown
<1>2. Passed(policy.te) /\ Passed(policy.cond)
  BY DEF IInv, TablesPassed
<1>3. ASSUME PermValue \in 1 .. MaskBits, NEW r \in Rules PROVE ~Holds(r, PermValue)
  BY <1>2, <1>3, PassedHoldsNone DEF IInv, WellFormed, Rules
<1> QED
  BY <1>1, <1>3

\* Exit status 0: the names were there and no rule of either table, attributes
\* included, gives the permission, if it is one of the first MaskBits.
THEOREM ZeroIsSound == Spec => []NoMissedGrant
BY ZeroInv, Invariance, PTL

\* "Match found!" comes from a rule of the policy that has the bit.
THEOREM MatchIsReal == Spec => []MatchReal
<1>1. IInv => MatchReal
  BY DEF IInv
<1> QED
  BY <1>1, Invariance, PTL

-----------------------------------------------------------------------------
(***************************************************************************)
(* seamendc, and sepolicy-check on what it left: the invariant of the      *)
(* check holds there for a policy that was read from the disk.             *)
(***************************************************************************)
\* What the state of seamendc consists of.
AmendTyped ==
  /\ jobs \in Seq(CommandLine) \ {<<>>}
  /\ disk \in [Paths -> Tables \cup {Unreadable, Missing}]
  /\ asked \in [Paths -> SUBSET Rule]
  /\ parsed \in Nat /\ tree \subseteq Rule
  /\ step \in {"options", "base", "files", "amend", "open", "write", "exited"}
  /\ step \notin {"options", "exited"} => args.base \in Paths /\ args.output \in Paths
  /\ step \in {"files", "amend", "open", "write"} => pdb \in Tables

\* A policy on the disk that can be read has the rules that were asked for, and the
\* one in memory those asked for so far.
DiskRight == \A p \in Paths : Readable(disk[p]) => RulesOf(disk[p]) = asked[p]
RulesUpto(files, n) == UNION {files[i].rules : i \in 1 .. n}
TreeRight ==
  /\ step \in {"options", "base"} => parsed = 0 /\ tree = {}
  /\ step \in {"files", "amend"} =>
       /\ parsed <= Len(args.files)
       /\ tree = RulesUpto(args.files, parsed)
       /\ RulesOf(pdb) = asked[args.base]
  /\ step = "amend" => parsed = Len(args.files)
  /\ step \in {"open", "write"} => RulesOf(pdb) = Wanted
StatusRight == rc = 0 => step = "exited" /\ args.output \in Paths /\ Readable(disk[args.output])
AmendInv == AmendTyped /\ DiskRight /\ TreeRight /\ StatusRight

\* sepolicy-check runs when seamendc has ended for good; it gets no further than
\* loading if the policy cannot be read.
AuditInv ==
  IF query = NoQuery THEN pc = "options" /\ printed = FALSE /\ status = Running
  ELSE /\ query \in Queries /\ step = "exited" /\ Len(jobs) = 1
       /\ Readable(policy) => /\ IInv /\ audited \in Paths /\ RulesOf(policy) = asked[audited]
       /\ ~Readable(policy) => pc \in {"options", "load", "done"} /\ ~printed /\ status # 0

SystemInv == AmendInv /\ AuditInv

-----------------------------------------------------------------------------
LEMMA ArgsTyped ==
  ASSUME jobs \in Seq(CommandLine) \ {<<>>}
  PROVE  args \in CommandLine /\ args.files \in Seq(CilFile)
         /\ args.base \in Paths \cup {None} /\ args.output \in Paths \cup {None}
<1>1. args \in CommandLine
  BY HeadTailProperties DEF args
<1> QED
  BY <1>1 DEF CommandLine, PathArg

LEMMA TablesReadable == ASSUME NEW p \in Tables PROVE Readable(p) /\ RulesOf(p) \subseteq Rule
BY NoneAlike DEF Readable, RulesOf, Tables

LEMMA OneMore ==
  ASSUME NEW files, NEW n \in Nat
  PROVE  /\ RulesUpto(files, 0) = {}
         /\ RulesUpto(files, n + 1) = RulesUpto(files, n) \cup files[n + 1].rules
<1>1. 1 .. n + 1 = (1 .. n) \cup {n + 1}
  OBVIOUS
<1>2. \A x, m : x \in RulesUpto(files, m) <=> \E i \in 1 .. m : x \in files[i].rules
  BY DEF RulesUpto
<1>3. \A x : x \in RulesUpto(files, n + 1) <=>
            x \in RulesUpto(files, n) \cup files[n + 1].rules
  BY <1>1, <1>2
<1>4. RulesUpto(files, n + 1) = RulesUpto(files, n) \cup files[n + 1].rules
  BY <1>3
<1>5. RulesUpto(files, 0) = {}
  BY <1>2
<1> QED
  BY <1>4, <1>5

\* seamendc keeps its part.
LEMMA AmendStep == AmendInv /\ [AmendNext]_amendVars => AmendInv'
<1> SUFFICES ASSUME AmendInv, [AmendNext]_amendVars PROVE AmendInv'
  OBVIOUS
<1> USE DEF AmendInv, Leave, Then
<1>a. /\ args \in CommandLine /\ args.files \in Seq(CilFile)
      /\ args.base \in Paths \cup {None} /\ args.output \in Paths \cup {None}
  BY ArgsTyped DEF AmendTyped
<1>s. rc = 0 => step = "exited"
  BY DEF StatusRight
\* every step but NextJob is one of the same command
<1>j. ASSUME jobs' = jobs PROVE args' = args
  BY <1>j DEF args
<1>r. RulesUpto(args.files, parsed)' = RulesUpto(args'.files, parsed')
  BY DEF RulesUpto
<1>1. CASE AmendOptions
  <2>1. /\ step = "options" /\ UNCHANGED <<jobs, disk, pdb, parsed, tree, asked>>
        /\ \/ step' = "exited" /\ rc' # 0
           \/ step' = "base" /\ rc' = rc /\ args.base \in Paths /\ args.output \in Paths
    BY <1>1, <1>a DEF AmendOptions, Failed
  <2> QED
    BY <2>1, <1>j, <1>s DEF AmendTyped, DiskRight, TreeRight, StatusRight, Readable, RulesOf
<1>2. CASE ReadBase
  <2>1. /\ step = "base" /\ UNCHANGED <<jobs, disk, parsed, tree, asked>>
        /\ \/ step' = "exited" /\ rc' # 0 /\ pdb' = pdb
           \/ step' = "files" /\ rc' = rc /\ pdb' = disk[args.base] /\ Readable(disk[args.base])
    BY <1>2 DEF ReadBase, Failed, Given
  <2>2. args' = args /\ args.base \in Paths
    BY <2>1, <1>j DEF AmendTyped
  <2>3. Readable(disk[args.base]) => disk[args.base] \in Tables
    BY <2>2 DEF AmendTyped, Readable
  <2>4. AmendTyped'
    BY <2>1, <2>2, <2>3 DEF AmendTyped
  <2>5. DiskRight' /\ StatusRight'
    BY <2>1, <2>2, <1>s DEF DiskRight, StatusRight, Readable, RulesOf
  <2>6. step' = "files" => /\ RulesOf(pdb') = asked[args.base] /\ parsed = 0 /\ tree = {}
                           /\ Len(args.files) \in Nat
    BY <2>1, <2>2, <1>a DEF DiskRight, TreeRight
  <2>7. RulesUpto(args.files, 0) = {}
    BY OneMore
  <2>8. TreeRight'
    <3> SUFFICES ASSUME step' = "files" PROVE TreeRight'
      BY <2>1 DEF TreeRight
    <3>1. parsed' = 0 /\ tree' = {} /\ 0 <= Len(args'.files)
      BY <2>1, <2>2, <2>6
    <3>2. tree' = RulesUpto(args'.files, parsed')
      BY <2>2, <2>7, <3>1
    <3>3. RulesOf(pdb') = asked'[args'.base]
      BY <2>1, <2>2, <2>6
    <3> QED
      BY <3>1, <3>2, <3>3, <1>r DEF TreeRight, RulesOf
  <2> QED
    BY <2>4, <2>5, <2>8
<1>3. CASE ReadFile
  <2>1. /\ step = "files" /\ UNCHANGED <<jobs, disk, pdb, asked>> /\ parsed < Len(args.files)
        /\ \/ step' = "exited" /\ rc' # 0 /\ tree' = tree /\ parsed' = parsed
           \/ /\ step' = "files" /\ rc' = rc /\ parsed' = parsed + 1
              /\ tree' = tree \cup args.files[parsed + 1].rules
    BY <1>3 DEF ReadFile, Failed, More
  <2>2. args' = args
    BY <2>1, <1>j
  <2>3. parsed + 1 \in 1 .. Len(args.files) /\ args.files[parsed + 1].rules \subseteq Rule
    <3>1. parsed + 1 \in 1 .. Len(args.files)
      BY <2>1, <1>a DEF AmendTyped
    <3>2. args.files[parsed + 1] \in CilFile
      BY <3>1, <1>a
    <3> QED
      BY <3>1, <3>2 DEF CilFile
  <2>4. AmendTyped'
    BY <2>1, <2>2, <2>3 DEF AmendTyped
  <2>5. DiskRight' /\ StatusRight'
    BY <2>1, <2>2, <1>s DEF DiskRight, StatusRight, Readable, RulesOf
  <2>6. RulesUpto(args.files, parsed + 1)
          = RulesUpto(args.files, parsed) \cup args.files[parsed + 1].rules
    BY OneMore DEF AmendTyped
  <2>7. TreeRight'
    <3> SUFFICES ASSUME step' = "files" PROVE TreeRight'
      BY <2>1 DEF TreeRight
    <3>1. parsed' = parsed + 1 /\ parsed' <= Len(args'.files)
      BY <2>1, <2>2, <2>3
    <3>2. tree' = RulesUpto(args'.files, parsed')
      BY <2>1, <2>2, <2>6, <3>1 DEF TreeRight
    <3>3. RulesOf(pdb') = asked'[args'.base]
      BY <2>1, <2>2 DEF TreeRight
    <3> QED
      BY <3>1, <3>2, <3>3, <1>r DEF TreeRight, RulesOf
  <2> QED
    BY <2>4, <2>5, <2>7
<1>4. CASE Compile
  <2>1. /\ step = "files" /\ UNCHANGED <<jobs, disk, pdb, parsed, tree, asked>>
        /\ ~(parsed < Len(args.files))
        /\ \/ step' = "exited" /\ rc' # 0
           \/ step' = "amend" /\ rc' = rc
    BY <1>4 DEF Compile, Failed, More
  <2>2. args' = args /\ parsed = Len(args.files)
    BY <2>1, <1>a, <1>j DEF AmendTyped, TreeRight
  <2> QED
    BY <2>1, <2>2, <1>s DEF AmendTyped, DiskRight, TreeRight, StatusRight, Readable, RulesOf
<1>5. CASE AmendPolicy
  <2>1. /\ step = "amend" /\ UNCHANGED <<jobs, disk, parsed, tree, asked>>
        /\ \/ step' = "exited" /\ rc' # 0 /\ pdb' = pdb
           \/ step' = "open" /\ rc' = rc /\ pdb' = [pdb EXCEPT !.te = @ \cup tree]
    BY <1>5 DEF AmendPolicy, Failed
  <2>2. args' = args
    BY <2>1, <1>j
  <2>3. /\ pdb \in Tables /\ tree \subseteq Rule
        /\ [pdb EXCEPT !.te = @ \cup tree] \in Tables
        /\ RulesOf([pdb EXCEPT !.te = @ \cup tree]) = RulesOf(pdb) \cup tree
    BY <2>1 DEF AmendTyped, Tables, RulesOf
  <2>4. tree = UNION {args.files[i].rules : i \in DOMAIN args.files}
    BY <2>1, <1>a DEF TreeRight, RulesUpto
  <2>5. RulesOf(pdb) \cup tree = Wanted
    BY <2>1, <2>4 DEF TreeRight, Wanted
  <2>6. Wanted' = Wanted
    BY <2>1, <2>2 DEF Wanted
  <2>7. AmendTyped'
    BY <2>1, <2>2, <2>3 DEF AmendTyped
  <2>8. DiskRight' /\ StatusRight'
    BY <2>1, <2>2, <1>s DEF DiskRight, StatusRight, Readable, RulesOf
  <2>9. TreeRight'
    BY <2>1, <2>3, <2>5, <2>6 DEF TreeRight, RulesOf
  <2> QED
    BY <2>7, <2>8, <2>9
<1>6. CASE OpenOutput
  <2>1. /\ step = "open" /\ UNCHANGED <<jobs, pdb, parsed, tree, asked>>
        /\ \/ step' = "exited" /\ rc' # 0 /\ disk' = disk
           \/ step' = "write" /\ rc' = rc /\ disk' = [disk EXCEPT ![args.output] = Unreadable]
    BY <1>6 DEF OpenOutput, Failed
  <2>2. args' = args /\ Wanted' = Wanted
    BY <2>1, <1>j DEF Wanted
  <2>3. AmendTyped'
    BY <2>1, <2>2 DEF AmendTyped
  <2>4. DiskRight'
    BY <2>1 DEF AmendTyped, DiskRight, Readable, RulesOf
  <2>5. TreeRight' /\ StatusRight'
    BY <2>1, <2>2, <1>s DEF TreeRight, StatusRight, RulesOf
  <2> QED
    BY <2>3, <2>4, <2>5
<1>7. CASE WriteOutput
  <2>1. /\ step = "write" /\ step' = "exited" /\ UNCHANGED <<jobs, pdb, parsed, tree>>
        /\ \/ /\ disk' = [disk EXCEPT ![args.output] = pdb]
              /\ asked' = [asked EXCEPT ![args.output] = Wanted]
           \/ rc' # 0 /\ disk' = disk /\ asked' = asked
    BY <1>7 DEF WriteOutput, Failed
  <2>2. args' = args /\ args.output \in Paths /\ pdb \in Tables /\ RulesOf(pdb) = Wanted
    BY <2>1, <1>j DEF AmendTyped, TreeRight
  <2>3. Readable(pdb) /\ Wanted \subseteq Rule
    BY <2>2, TablesReadable
  <2>4. AmendTyped'
    BY <2>1, <2>2, <2>3 DEF AmendTyped
  <2>5. DiskRight'
    BY <2>1, <2>2 DEF AmendTyped, DiskRight, Readable, RulesOf
  <2>6. TreeRight'
    BY <2>1 DEF TreeRight
  <2>7. StatusRight'
    BY <2>1, <2>2, <2>3 DEF AmendTyped, StatusRight, Readable
  <2> QED
    BY <2>4, <2>5, <2>6, <2>7
<1>8. CASE NextJob
  <2>1. /\ jobs' = Tail(jobs) /\ Len(jobs) > 1 /\ parsed' = 0 /\ tree' = {}
        /\ step' = "options" /\ rc' # 0 /\ disk' = disk /\ asked' = asked
    BY <1>8 DEF NextJob, NoStatus
  <2>2. jobs' \in Seq(CommandLine) \ {<<>>}
    <3>1. Tail(jobs) \in Seq(CommandLine) /\ Len(Tail(jobs)) = Len(jobs) - 1 /\ Len(jobs) \in Nat
      BY HeadTailProperties DEF AmendTyped
    <3> QED
      BY <2>1, <3>1
  <2> QED
    BY <2>1, <2>2 DEF AmendTyped, DiskRight, TreeRight, StatusRight, Readable, RulesOf
<1>9. CASE UNCHANGED amendVars
  BY <1>9 DEF amendVars, AmendTyped, DiskRight, TreeRight, StatusRight, Readable, RulesOf,
       Wanted, args
<1> QED
  BY <1>1, <1>2, <1>3, <1>4, <1>5, <1>6, <1>7, <1>8, <1>9 DEF AmendNext
-----------------------------------------------------------------------------
LEMMA SystemStart == SystemInit => SystemInv
<1> SUFFICES ASSUME SystemInit PROVE SystemInv
  OBVIOUS
<1>1. PICK base \in Bases : AmendInit([p \in Paths |-> IF p = "base" THEN base ELSE Missing])
  BY DEF SystemInit
<1>2. /\ jobs \in Jobs /\ disk = [p \in Paths |-> IF p = "base" THEN base ELSE Missing]
      /\ parsed = 0 /\ tree = {} /\ step = "options" /\ rc = NoStatus
      /\ asked = [p \in Paths |-> IF Readable(disk[p]) THEN RulesOf(disk[p]) ELSE {}]
  BY <1>1 DEF AmendInit
<1>3. base \in Tables
  BY BasesAreTables
<1>4. \A p \in Paths : disk[p] \in Tables \cup {Unreadable, Missing}
  BY <1>2, <1>3
<1>5. \A p \in Paths : Readable(disk[p]) => RulesOf(disk[p]) \subseteq Rule
  BY <1>4, TablesReadable DEF Readable
<1>6. AmendTyped
  BY <1>2, <1>3, <1>5, JobsAreJobs DEF AmendTyped
<1>7. DiskRight /\ TreeRight /\ StatusRight
  BY <1>2 DEF DiskRight, TreeRight, StatusRight, NoStatus
<1>8. AuditInv
  BY DEF SystemInit, AuditInv
<1> QED
  BY <1>6, <1>7, <1>8 DEF SystemInv, AmendInv

\* Starting sepolicy-check leaves the disk alone, and what it is started on is what
\* the last command of seamendc has left.
LEMMA StartStep == SystemInv /\ StartAudit => SystemInv'
<1> SUFFICES ASSUME SystemInv, StartAudit PROVE SystemInv'
  OBVIOUS
<1> USE DEF SystemInv
<1>1. /\ step = "exited" /\ Len(jobs) = 1 /\ query = NoQuery /\ args.output # None
      /\ query' \in Queries /\ audited' = args.output /\ policy' = disk[args.output]
      /\ UNCHANGED <<jobs, disk, step, rc, asked, pc, printed, status>>
      /\ parsed' = 0 /\ tree' = {}
  BY DEF StartAudit
<1>2. args.output \in Paths /\ args' = args
  BY <1>1, ArgsTyped DEF AmendInv, AmendTyped, args
<1>3. AmendInv'
  BY <1>1, <1>2 DEF AmendInv, AmendTyped, DiskRight, TreeRight, StatusRight, Readable, RulesOf
<1>4. pc' = "options" /\ printed' = FALSE /\ status' = Running /\ query' # NoQuery
  BY <1>1, NoneAlike DEF AuditInv
<1>5. ASSUME Readable(policy)' PROVE IInv' /\ audited' \in Paths /\ (RulesOf(policy) = asked[audited])'
  <2>1. policy' \in Tables /\ RulesOf(policy') = asked[args.output]
    BY <1>1, <1>2, <1>5 DEF AmendInv, AmendTyped, DiskRight, Readable
  <2>2. WellFormed'
    BY <1>1, <2>1, QueryArguments DEF WellFormed, Tables
  <2>3. Phases' /\ NamesKnown' /\ TablesPassed' /\ MatchReal'
    <3>1. NamesKnown' /\ TablesPassed' /\ MatchReal'
      BY <1>4 DEF NamesKnown, TablesPassed, MatchReal, Running
    <3>2. status' \in {Running, 0, 1, Error, Crashed, Undefined} /\ printed' \in BOOLEAN
      BY <1>4
    <3> QED
      BY <1>4, <3>1, <3>2 DEF Phases
  <2> QED
    BY <1>1, <1>2, <2>1, <2>2, <2>3 DEF IInv, RulesOf
<1>6. AuditInv'
  BY <1>1, <1>4, <1>5 DEF AuditInv, Running
<1> QED
  BY <1>3, <1>6

\* sepolicy-check keeps its own invariant, whatever policy it was given, and reads
\* nothing but that.
LEMMA AuditStep == SystemInv /\ Auditing => SystemInv'
<1> SUFFICES ASSUME SystemInv, Auditing PROVE SystemInv'
  OBVIOUS
<1> USE DEF SystemInv
<1>1. /\ query # NoQuery /\ Next /\ (pc' = "resolve" => Readable(policy))
      /\ UNCHANGED amendVars /\ audited' = audited
  BY DEF Auditing
<1>2. policy' = policy /\ query' = query
  BY <1>1 DEF Next, ParseOptions, LoadPolicy, Resolve, SearchTe, SearchCond
<1>3. AmendInv'
  BY <1>1, AmendStep
<1>4. CASE Readable(policy)
  <2>1. IInv'
    BY <1>1, <1>4, Inductive DEF AuditInv
  <2> QED
    BY <1>1, <1>2, <1>3, <1>4, <2>1 DEF AuditInv, Readable, RulesOf, amendVars
<1>5. CASE ~Readable(policy)
  <2>1. pc \in {"options", "load", "done"} /\ ~printed
    BY <1>1, <1>5 DEF AuditInv
  <2>2. /\ pc' \in {"load", "done"} /\ printed' = printed /\ status' # 0
    BY <1>1, <1>5, <2>1
       DEF Next, ParseOptions, LoadPolicy, Resolve, SearchTe, SearchCond, Exit, Goto,
           AuditInv, Undefined
  <2> QED
    BY <1>1, <1>2, <1>3, <1>5, <2>1, <2>2 DEF AuditInv, Readable, amendVars
<1> QED
  BY <1>4, <1>5

LEMMA SystemStep == SystemInv /\ [SystemNext]_systemVars => SystemInv'
<1> SUFFICES ASSUME SystemInv, [SystemNext]_systemVars PROVE SystemInv'
  OBVIOUS
<1>1. CASE Amending
  <2>1. AmendNext /\ UNCHANGED <<vars, audited>>
    BY <1>1 DEF Amending
  <2>2. AmendInv'
    BY <2>1, AmendStep DEF SystemInv
  <2>3. query = NoQuery
    <3>1. step # "exited" \/ Len(jobs) # 1
      BY <2>1 DEF AmendNext, AmendOptions, ReadBase, ReadFile, Compile, AmendPolicy,
                  OpenOutput, WriteOutput, NextJob
    <3>2. query # NoQuery => step = "exited" /\ Len(jobs) = 1
      BY Zenon DEF SystemInv, AuditInv
    <3> QED
      BY <3>1, <3>2
  <2> QED
    BY <2>1, <2>2, <2>3 DEF SystemInv, AuditInv, vars
<1>2. CASE StartAudit
  BY <1>2, StartStep
<1>3. CASE Auditing
  BY <1>3, AuditStep
<1>4. CASE UNCHANGED systemVars
  <2>1. AmendInv' /\ UNCHANGED <<vars, amendVars, audited>>
    BY <1>4, AmendStep DEF systemVars, SystemInv
  <2>2. IInv => IInv'
    BY <2>1, Inductive
  <2> QED
    BY <2>1, <2>2 DEF SystemInv, AuditInv, vars, amendVars, Readable, RulesOf
<1> QED
  BY <1>1, <1>2, <1>3, <1>4 DEF SystemNext

-----------------------------------------------------------------------------
\* Whatever failed before: an answer of sepolicy-check is about every rule of the first
\* policy and of the CIL files of all commands whose output went into the policy, and
\* a command that exits with 0 has left one that can be read.
THEOREM AuditIsOfAmended == SystemSpec => []AuditOfAmended
<1>1. SystemInv => AuditOfAmended
  <2> SUFFICES ASSUME SystemInv PROVE AuditOfAmended
    OBVIOUS
  <2>1. rc = 0 => Readable(disk[args.output])
    BY DEF SystemInv, AmendInv, StatusRight
  <2>2. CASE query # NoQuery /\ Readable(policy)
    <3>1. IInv /\ RulesOf(policy) = asked[audited]
      BY <2>2 DEF SystemInv, AuditInv
    <3>2. NoMissedGrant /\ MatchReal
      BY <3>1, ZeroInv DEF IInv
    <3>3. Rules = asked[audited]
      BY <3>1 DEF Rules, RulesOf
    <3> QED
      BY <2>1, <3>2, <3>3 DEF NoMissedGrant, MatchReal, AuditOfAmended
  <2>3. CASE query = NoQuery \/ ~Readable(policy)
    BY <2>1, <2>3 DEF SystemInv, AuditInv, AuditOfAmended, Running
  <2> QED
    BY <2>2, <2>3
<1> QED
  BY <1>1, SystemStart, SystemStep, PTL DEF SystemSpec

\* So are the answers of sepolicy-check on its own about the policy it was given.
THEOREM AnswersAreSound == SystemSpec => [](NoMissedGrant /\ MatchReal)
<1>1. SystemInv => NoMissedGrant /\ MatchReal
  <2> SUFFICES ASSUME SystemInv PROVE NoMissedGrant /\ MatchReal
    OBVIOUS
  <2>1. CASE query # NoQuery /\ Readable(policy)
    BY <2>1, ZeroInv DEF SystemInv, AuditInv, IInv
  <2>2. CASE query = NoQuery \/ ~Readable(policy)
    BY <2>2 DEF SystemInv, AuditInv, NoMissedGrant, MatchReal, Running
  <2> QED
    BY <2>1, <2>2
<1> QED
  BY <1>1, SystemStart, SystemStep, PTL DEF SystemSpec
=============================================================================
