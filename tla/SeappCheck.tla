----------------------------- MODULE SeappCheck -----------------------------
(***************************************************************************)
(* tools/check_seapp.c, the program checkseapp: it reads seapp_contexts    *)
(* files line by line, rejects malformed and duplicate rules, checks every *)
(* rule against every neverallow, and writes the rules out again in the    *)
(* order it met them.  Every error ends the program with EXIT_FAILURE.     *)
(*                                                                         *)
(* One action is one command line, one opened file, one line read, one     *)
(* turn of the loops of validate() and output().  The input files are read *)
(* one after the other into the same tables, so the lines of all of them   *)
(* are one sequence here; line numbers and messages' wording are left out. *)
(***************************************************************************)
EXTENDS SeappRules, FiniteSets

CONSTANTS Lines,      \* the lines that the input files may hold
          Files(_),   \* what they may hold together, with every beginning of it,
                      \* when the program has loaded a policy
          Policies,   \* the policies that -p may name, NoPolicy included
          Untouched,  \* the output file as it was before the program
          TableSize   \* how many entries hsearch takes (TABLE_SIZE)

ASSUME TableAssumption == TableSize \in Nat

NIL       == 0
EmptyList == [head |-> NIL, tail |-> NIL]

VARIABLES
  pc,        \* what main() is doing
  opts,      \* the command line: vendor (-c), dest (-o)
  policy,    \* what init() loaded
  read,      \* every line parse_file() got, in order
  order,     \* line_order_list: the rules
  nallow,    \* nallow_list: the neverallow rules
  table,     \* the keys in the hash table
  coredom,   \* coredomain_violation_list: the rules it names
  violations,\* for each rule of order, the list in its rule_map
  next,      \* for each neverallow, "next" of the list element it holds
  cursor,    \* the rule at which validate() or output() is
  node,      \* the neverallow at which the inner loop is
  reported,  \* the <<rule, neverallow>> pairs validate() has printed
  lost,      \* a write did not reach the output file
  out,       \* the content of the output file
  status,    \* "running", "success" or "failure"
  cause      \* which error ended the program

vars == <<pc, opts, policy, read, order, nallow, table, coredom, violations,
          next, cursor, node, reported, lost, out, status, cause>>

parsed     == <<read, order, nallow, table, coredom>>
validating == <<violations, next, cursor, node, reported>>
outputting == <<lost, out>>

Init ==
  /\ pc = "options" /\ status = "running" /\ cause = "none"
  /\ opts = [vendor |-> FALSE, dest |-> "none"] /\ policy = NoPolicy
  /\ read = <<>> /\ order = <<>> /\ nallow = <<>> /\ table = {} /\ coredom = {}
  /\ violations = <<>> /\ next = <<>> /\ cursor = 1 /\ node = 1
  /\ reported = {} /\ lost = FALSE /\ out = Untouched

Exit(s, c) == pc' = "exit" /\ status' = s /\ cause' = c
Goto(p)    == pc' = p /\ UNCHANGED <<status, cause>>

-----------------------------------------------------------------------------
\* -h prints the usage and succeeds; an unknown option fails
HandleOptions ==
  /\ pc = "options"
  /\ \/ Exit("success", "help") /\ UNCHANGED opts
     \/ Exit("failure", "option") /\ UNCHANGED opts
     \/ /\ \E v \in BOOLEAN, d \in {"none", "stdout", "file"} :
             opts' = [vendor |-> v, dest |-> d]
        /\ Goto("init")
  /\ UNCHANGED <<policy, parsed, validating, outputting>>

\* the inputs are opened first, then the output, which truncates it
OpenFails ==
  /\ pc = "init"
  /\ Exit("failure", "open")
  /\ UNCHANGED <<opts, policy, parsed, validating, outputting>>

Truncate == out' = IF opts.dest = "none" THEN Untouched ELSE <<>>

OpenFiles ==
  /\ pc = "init"
  /\ Truncate
  /\ \/ policy' \in Policies /\ Goto("parse")
     \/ Exit("failure", "policy") /\ UNCHANGED policy
  /\ UNCHANGED <<opts, parsed, validating, lost>>

-----------------------------------------------------------------------------
(***************************************************************************)
(* parse_file, one line: skip it, reject it, or make a rule of it          *)
(* (rule_map_new) and enter it (rule_add).                                 *)
(***************************************************************************)
\* rule_add found no such key: into the table and onto a list
EnlistRule(r)  == order' = Append(order, r) /\ violations' = Append(violations, EmptyList)
EnlistNever(r) == nallow' = Append(nallow, r) /\ next' = Append(next, NIL)

RuleAdd(r) ==
  /\ table' = table \cup {r.key}
  /\ IF r.never THEN EnlistNever(r) /\ UNCHANGED <<order, violations>>
                ELSE EnlistRule(r)  /\ UNCHANGED <<nallow, next>>

Duplicate(r) == r.key \in table
TableFull    == Cardinality(table) >= TableSize

Reject(c) ==
  Exit("failure", c) /\ UNCHANGED <<order, nallow, table, coredom, violations, next>>

SkipLine(l) ==
  /\ Blank(l)
  /\ UNCHANGED <<pc, status, cause, order, nallow, table, coredom, violations, next>>

RejectLine(l) ==
  /\ ~Blank(l)
  /\ \/ ~WellFormed(l, policy, opts.vendor) /\ Reject("malformed")
     \/ /\ WellFormed(l, policy, opts.vendor)
        /\ \/ Duplicate(RuleOf(l)) /\ Reject("duplicate")
           \/ ~Duplicate(RuleOf(l)) /\ TableFull /\ Reject("oom")

AcceptLine(l) ==
  /\ ~Blank(l) /\ WellFormed(l, policy, opts.vendor)
  /\ ~Duplicate(RuleOf(l)) /\ ~TableFull
  /\ RuleAdd(RuleOf(l))
  /\ coredom' = IF NotesCoredomain(l, policy, opts.vendor) THEN coredom \cup {Len(order) + 1}
                                                            ELSE coredom
  /\ UNCHANGED <<pc, status, cause>>

ReadLine(l) ==
  /\ pc = "parse" /\ Append(read, l) \in Files(policy)
  /\ read' = Append(read, l)
  /\ SkipLine(l) \/ RejectLine(l) \/ AcceptLine(l)
  /\ UNCHANGED <<opts, policy, cursor, node, reported, outputting>>

EndOfInput ==
  /\ pc = "parse"
  /\ Goto("validate") /\ cursor' = 1 /\ node' = 1
  /\ UNCHANGED <<opts, policy, parsed, violations, next, reported, outputting>>

-----------------------------------------------------------------------------
(***************************************************************************)
(* list_append(&rm->violations, &assert->listify).  The element lives in   *)
(* the neverallow, so there is one "next" per neverallow however many      *)
(* lists it is put on; memset clears it before it is linked.               *)
(***************************************************************************)
Ring(i)    == violations[i].head   \* (mutant) the last element points to the first
Cleared(i) == NIL

ListAppend(i, n) ==
  IF violations[i].head = NIL
    THEN /\ violations' = [violations EXCEPT ![i] = [head |-> n, tail |-> n]]
         /\ next' = [next EXCEPT ![n] = NIL]
    ELSE /\ violations' = [violations EXCEPT ![i].tail = n]
         /\ next' = [next EXCEPT ![n] = Cleared(i), ![violations[i].tail] = n]

\* (mutant) one entry of the neverallow is enough
AssertedByOne(r, a) == \E j \in DOMAIN a.m : EntryMatches(r, a.m[j])
Asserted(r, a)      == Violates(r, a)

ValidateRule ==  \* rule_map_validate(order[cursor]), one neverallow
  /\ pc = "validate" /\ cursor <= Len(order) /\ node <= Len(nallow)
  /\ IF Asserted(order[cursor], nallow[node])
       THEN ListAppend(cursor, node)
       ELSE UNCHANGED <<violations, next>>
  /\ node' = node + 1
  /\ UNCHANGED <<pc, status, cause, opts, policy, parsed, cursor, reported, outputting>>

NotRewound     == node   \* (mutant) the inner loop goes on where it was
FirstNeverallow == 1

NextRule ==
  /\ pc = "validate" /\ cursor <= Len(order) /\ node > Len(nallow)
  /\ cursor' = cursor + 1 /\ node' = FirstNeverallow
  /\ UNCHANGED <<pc, status, cause, opts, policy, parsed, violations, next, reported,
                 outputting>>

\* (mutant) the walk stays at the end of the first rule's list
FirstOfAll(i)  == IF i = 1 /\ order # <<>> THEN violations[i].head ELSE NIL
FirstOf(i)     == IF i <= Len(order) THEN violations[i].head ELSE NIL

StartReport ==  \* the second loop of validate()
  /\ pc = "validate" /\ cursor > Len(order)
  /\ Goto("report") /\ cursor' = 1 /\ node' = FirstOf(1)
  /\ UNCHANGED <<opts, policy, parsed, violations, next, reported, outputting>>

Report ==
  /\ pc = "report" /\ cursor <= Len(order)
  /\ IF node # NIL
       THEN /\ reported' = reported \cup {<<cursor, node>>}
            /\ node' = next[node] /\ UNCHANGED cursor
       ELSE /\ cursor' = cursor + 1 /\ node' = FirstOf(cursor + 1) /\ UNCHANGED reported
  /\ UNCHANGED <<pc, status, cause, opts, policy, parsed, violations, next, outputting>>

PrintedIssues == reported # {}   \* (mutant) coredomain entries do not count
FoundIssues   == reported # {} \/ coredom # {}

EndReport ==
  /\ pc = "report" /\ cursor > Len(order)
  /\ IF FoundIssues
       THEN Exit("failure", "violation") /\ UNCHANGED cursor
       ELSE Goto("output") /\ cursor' = 1
  /\ UNCHANGED <<opts, policy, parsed, violations, next, node, reported, outputting>>

-----------------------------------------------------------------------------
(***************************************************************************)
(* output(): one rule, in canonical spelling, to the stream.  The results  *)
(* of fprintf and of fclose at exit are not looked at, so a write that     *)
(* does not reach the file passes unnoticed.                               *)
(***************************************************************************)
OutputRule ==
  /\ pc = "output" /\ opts.dest # "none" /\ cursor <= Len(order)
  /\ \/ out' = Append(out, order[cursor].m) /\ UNCHANGED lost
     \/ lost' = TRUE /\ UNCHANGED out
  /\ cursor' = cursor + 1
  /\ UNCHANGED <<pc, status, cause, opts, policy, parsed, violations, next, node, reported>>

\* (mutant) the last rule is forgotten
AllButOneWritten == opts.dest = "none" \/ cursor >= Len(order)
AllWritten       == opts.dest = "none" \/ cursor > Len(order)

Finish ==
  /\ pc = "output" /\ AllWritten
  /\ Exit("success", "none")
  /\ UNCHANGED <<opts, policy, parsed, validating, outputting>>

Next ==
  \/ HandleOptions \/ OpenFails \/ OpenFiles
  \/ (\E l \in Lines : ReadLine(l)) \/ EndOfInput
  \/ ValidateRule \/ NextRule \/ StartReport \/ Report \/ EndReport
  \/ OutputRule \/ Finish

Spec     == Init /\ [][Next]_vars
FairSpec == Spec /\ WF_vars(Next)
-----------------------------------------------------------------------------
(***************************************************************************)
(* Properties.                                                             *)
(***************************************************************************)
Succeeded  == status = "success" /\ cause = "none"
Offends(i) == \E n \in DOMAIN nallow : Violates(order[i], nallow[n])
RuleLines(ls) == SelectSeq(ls, LAMBDA l : ~Blank(l) /\ ~l.never)

\* The type of every variable.  The lists and tables keep in step: one
\* violations list per rule and one list element per neverallow, and the
\* loops of validate() and output() stay inside them.
TypeOK ==
  /\ pc \in {"options", "init", "parse", "validate", "report", "output", "exit"}
  /\ opts \in [vendor : BOOLEAN, dest : {"none", "stdout", "file"}]
  /\ policy \in Policies \cup {NoPolicy}
  /\ read \in Seq(Lines)
  /\ order \in Seq({RuleOf(l) : l \in Lines}) /\ nallow \in Seq({RuleOf(l) : l \in Lines})
  /\ table \subseteq {HashKey(l) : l \in Lines}
  /\ coredom \subseteq 1 .. Len(order)
  /\ violations \in [1 .. Len(order) -> [head : 0 .. Len(nallow), tail : 0 .. Len(nallow)]]
  /\ next \in [1 .. Len(nallow) -> 0 .. Len(nallow)]
  /\ cursor \in 1 .. Len(order) + 1 /\ node \in 0 .. Len(nallow) + 1
  /\ reported \subseteq (1 .. Len(order)) \X (1 .. Len(nallow))
  /\ lost \in BOOLEAN
  /\ status \in {"running", "success", "failure"}
  /\ cause \in {"none", "help", "option", "open", "policy", "malformed", "duplicate", "oom",
                "violation"}

\* the rule of a line is on the list it belongs to
Listed(l, rules, nevers) == IF l.never THEN \E n \in DOMAIN nevers : nevers[n] = RuleOf(l)
                                       ELSE \E i \in DOMAIN rules  : rules[i] = RuleOf(l)

\* When the program succeeds, nothing it read was malformed, no line was lost to
\* a table that is full, no rule violates a neverallow, whichever came first in
\* the files, and with -c no rule assigns a coredomain.  The verdict is taken from
\* the heads of lists whose elements the rules share and overwrite
\* (rule_map_validate, validate).
VerdictSound ==
  Succeeded =>
    /\ \A i \in DOMAIN read :
         \/ Blank(read[i])
         \/ WellFormed(read[i], policy, opts.vendor) /\ Listed(read[i], order, nallow)
    /\ \A i, j \in DOMAIN read :
         /\ ~Blank(read[i]) /\ ~read[i].never
         /\ ~Blank(read[j]) /\ read[j].never
         => ~Violates(RuleOf(read[i]), RuleOf(read[j]))
    /\ \A i \in DOMAIN read : ~NotesCoredomain(read[i], policy, opts.vendor)

\* When validate() ends the program, there is a rule to blame: the list
\* elements a rule shares with others never make a clean run fail. And each rule
\* that violates something is printed with a neverallow that it does violate,
\* whatever happened to the rest of its list.
VerdictJustified ==
  cause = "violation" =>
    /\ coredom # {} \/ \E i \in DOMAIN order : Offends(i)
    /\ \A i \in DOMAIN order : Offends(i) =>
         \E n \in DOMAIN nallow : <<i, n>> \in reported /\ Violates(order[i], nallow[n])

\* The elements are linked in the order of nallow_list only, although every
\* rule relinks them, so that no list is ever a cycle.
ListsAscend == \A n \in DOMAIN next : next[n] # NIL => next[n] > n

\* The program, with its table and its lists, does what SeappPromise says: not one
\* rule is written before all of them are known to be acceptable, a run that fails
\* has written none, and one that succeeds has come to the end of them.
Tainted == coredom # {}
Written == IF pc = "output" \/ Succeeded THEN cursor - 1 ELSE 0
Promise ==
  INSTANCE SeappPromise WITH rules <- order, nevers <- nallow, coredomain <- Tainted,
                             verdict <- status, written <- Written
Implements == Promise!Spec

\* The program ends: the walk over each rule's violations, through links that
\* later rules have changed, always comes to its end.
Terminates == <>(pc = "exit")

(***************************************************************************)
(* Why the verdict is right: the inductive invariant.                      *)
(***************************************************************************)
HeadOf(i)   == violations[i].head

\* nothing is read before the options and the policy are settled, and while
\* the program runs every line read is good and is on the list it belongs to
ParsedAll ==
  /\ pc \in {"options", "init"} => read = <<>>
  /\ status # "failure" => \A i \in DOMAIN read :
       \/ Blank(read[i])
       \/ /\ WellFormed(read[i], policy, opts.vendor) /\ Listed(read[i], order, nallow)
          /\ NotesCoredomain(read[i], policy, opts.vendor) => coredom # {}

\* the first element of a rule's list is right, and the list is empty only
\* when none of the neverallow rules tried so far is violated
Tried(i, n) == pc = "validate" => i < cursor \/ (i = cursor /\ n < node)

HeadsRight ==
  /\ \A i \in DOMAIN order : HeadOf(i) # NIL => Violates(order[i], nallow[HeadOf(i)])
  /\ pc \in {"validate", "report", "output"} \/ Succeeded =>
       \A i \in DOMAIN order, n \in DOMAIN nallow :
         Tried(i, n) /\ Violates(order[i], nallow[n]) => HeadOf(i) # NIL

\* a list ends before the neverallow that is tried, and is empty if its rule
\* is yet to come
Untried ==
  /\ pc \in {"options", "init", "parse"} =>
       (\A i \in DOMAIN order : HeadOf(i) = NIL) /\ \A n \in DOMAIN next : next[n] = NIL
  /\ \A i \in DOMAIN order : HeadOf(i) # NIL => violations[i].tail # NIL
  /\ pc = "validate" => /\ node # NIL
                        /\ \A i \in DOMAIN order :
                             /\ i > cursor => HeadOf(i) = NIL
                             /\ i = cursor /\ HeadOf(i) # NIL => violations[i].tail < node

\* what is printed: the first element of each list passed, and nothing for a
\* rule whose list is empty
Printed ==
  /\ pc \in {"options", "init", "parse", "validate"} => reported = {}
  /\ \A p \in reported : HeadOf(p[1]) # NIL
  /\ pc = "report" =>
       /\ node \in 0 .. Len(nallow)
       /\ cursor > Len(order) => node = NIL
       /\ \A i \in DOMAIN order :
            /\ i < cursor /\ HeadOf(i) # NIL => <<i, HeadOf(i)>> \in reported
            /\ i = cursor => IF HeadOf(i) = NIL THEN node = NIL
                             ELSE node = HeadOf(i) \/ <<i, HeadOf(i)>> \in reported

\* how the program ended, or is about to
Ended ==
  /\ pc = "output" \/ Succeeded =>
       reported = {} /\ coredom = {} /\ \A i \in DOMAIN order : HeadOf(i) = NIL
  /\ cause = "violation" =>
       /\ reported # {} \/ coredom # {}
       /\ \A i \in DOMAIN order : HeadOf(i) # NIL => <<i, HeadOf(i)>> \in reported
       /\ \A i \in DOMAIN order, n \in DOMAIN nallow :
            Violates(order[i], nallow[n]) => HeadOf(i) # NIL
  /\ pc # "exit" => status = "running" /\ cause = "none"
  /\ pc = "exit" => status # "running"

\* The whole inductive invariant: type correctness and the parts above.
IInv == TypeOK /\ ParsedAll /\ HeadsRight /\ Untried /\ ListsAscend /\ Printed /\ Ended

(***************************************************************************)
(* What the comments and the documentation say, and the code does not do.  *)
(***************************************************************************)
\* rule_map_validate "builds an assertion failure list for each rule map" and
\* "logs all errors": what is printed is exactly what is violated.
ReportExact ==
  cause = "violation" =>
    reported = {p \in (DOMAIN order) \X (DOMAIN nallow) : Violates(order[p[1]], nallow[p[2]])}

\* seapp_contexts: "Duplicate entries, i.e. with identical input selectors,
\* are not allowed."
InputsOf(r) == {r.m[i] : i \in {k \in DOMAIN r.m : r.m[k].name \in Inputs}}

NoDuplicateEntries ==
  \A i, j \in DOMAIN order : InputsOf(order[i]) = InputsOf(order[j]) => i = j

\* ... and only those: a rule rejected as a duplicate has the input
\* selectors of a rule that was accepted before it.
LastRule == RuleOf(read[Len(read)])

OnlyDuplicatesRejected ==
  cause = "duplicate" =>
    \E i \in DOMAIN order : InputsOf(order[i]) = InputsOf(LastRule)

\* rule_map_cmp tells apart rules whose inputs match from rules that "do not
\* match" at all.
CmpSeesMismatch ==
  cause = "duplicate" =>
    \A i \in DOMAIN order :
      order[i].key = LastRule.key /\ InputsOf(order[i]) # InputsOf(LastRule) =>
        Cmp(LastRule, order[i]) = "map_no_matches"

\* usage(): "allows later declarations to override previous ones on a match"
LaterOverrides ==
  cause = "duplicate" => \A i \in DOMAIN order : InputsOf(order[i]) # InputsOf(LastRule)

\* compile_regex: "Explicitly anchor all regex's".  A value is found only by
\* an alternative that covers the whole of it.
Anchored ==
  \A i \in DOMAIN order, n \in DOMAIN nallow :
    \A k \in DOMAIN order[i].m, j \in DOMAIN nallow[n].m :
      LET v == order[i].m[k].data
          p == nallow[n].m[j].data
      IN  MatchesRegex(p, v) =>
            \E b \in Bars(p) \cup {0} : Alternative(p, b) \in {v, <<".*">>}
=============================================================================
