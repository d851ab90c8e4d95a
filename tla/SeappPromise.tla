---------------------------- MODULE SeappPromise ----------------------------
(***************************************************************************)
(* What checkseapp (tools/check_seapp.c) promises to those who use its     *)
(* output: it takes well-formed lines only, it writes when no rule it took *)
(* violates a neverallow it took and no rule assigns a coredomain, and     *)
(* then it writes all the rules, in the order in which it took them, or    *)
(* loses some to the stream; once it writes it no longer fails.            *)
(*                                                                         *)
(* There are no tables and no lists here; SeappCheck has them.             *)
(***************************************************************************)
EXTENDS Naturals, Sequences

CONSTANTS Lines, Policies, NoPolicy, Untouched,   \* see SeappCheck
          Blank(_), WellFormed(_, _, _), RuleOf(_), Violates(_, _),  \* see SeappRules
          NotesCoredomain(_, _, _)

VARIABLES
  opts, policy,   \* what it was told to do, and the policy it loaded
  rules, nevers,  \* the rules and the neverallow rules it took
  coredomain,     \* a rule that it took assigns a coredomain
  written,        \* how many rules it has tried to write
  out,            \* the output file
  verdict         \* "running", "success" or "failure"

taken == <<rules, nevers, coredomain>>
vars  == <<opts, policy, taken, written, out, verdict>>

Init ==
  /\ opts = [vendor |-> FALSE, dest |-> "none"] /\ policy = NoPolicy
  /\ rules = <<>> /\ nevers = <<>> /\ coredomain = FALSE
  /\ written = 0 /\ out = Untouched /\ verdict = "running"

Nothing == verdict = "running" /\ rules = <<>> /\ nevers = <<>> /\ out = Untouched

Told ==
  /\ Nothing
  /\ opts' \in [vendor : BOOLEAN, dest : {"none", "stdout", "file"}]
  /\ UNCHANGED <<policy, taken, written, out, verdict>>

Helped ==
  /\ Nothing
  /\ verdict' = "success"
  /\ UNCHANGED <<opts, policy, taken, written, out>>

\* the output file is emptied before anything is known about the inputs
Opened ==
  /\ Nothing
  /\ out' = IF opts.dest = "none" THEN Untouched ELSE <<>>
  /\ policy' \in Policies \cup {NoPolicy} /\ verdict' \in {"running", "failure"}
  /\ UNCHANGED <<opts, taken, written>>

Take(l) ==
  /\ verdict = "running" /\ written = 0 /\ out \in {Untouched, <<>>}
  /\ ~Blank(l) /\ WellFormed(l, policy, opts.vendor)
  /\ IF l.never THEN nevers' = Append(nevers, RuleOf(l)) /\ UNCHANGED rules
                ELSE rules' = Append(rules, RuleOf(l)) /\ UNCHANGED nevers
  /\ coredomain' = (coredomain \/ NotesCoredomain(l, policy, opts.vendor))
  /\ UNCHANGED <<opts, policy, written, out, verdict>>

Fail ==
  /\ verdict = "running" /\ written = 0 /\ out \in {Untouched, <<>>}
  /\ verdict' = "failure"
  /\ UNCHANGED <<opts, policy, taken, written, out>>

Acceptable ==
  /\ ~coredomain
  /\ \A i \in DOMAIN rules, n \in DOMAIN nevers : ~Violates(rules[i], nevers[n])

Write ==
  /\ verdict = "running" /\ Acceptable
  /\ opts.dest # "none" /\ written < Len(rules)
  /\ out' = Append(out, rules[written + 1].m) \/ out' = out
  /\ written' = written + 1
  /\ UNCHANGED <<opts, policy, taken, verdict>>

Succeed ==
  /\ verdict = "running" /\ Acceptable
  /\ opts.dest # "none" => written = Len(rules)
  /\ verdict' = "success"
  /\ UNCHANGED <<opts, policy, taken, written, out>>

Next == \/ Told \/ Helped \/ Opened \/ (\E l \in Lines : Take(l)) \/ Fail \/ Write \/ Succeed
Spec == Init /\ [][Next]_vars
=============================================================================
