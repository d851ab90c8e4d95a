--------------------------- MODULE MCAmendAndCheck --------------------------
(***************************************************************************)
(* Two types, one attribute that both have, two classes, and permissions   *)
(* with the values 1, 2 and 3.  perm_bitmask has two bits instead of 16.   *)
(* The policy that is audited has a rule in each table, of the base or of  *)
(* the one CIL file that varies: rules are looked at one by one.  A second *)
(* file, a second amendment, of the same path or of the other, and files   *)
(* with each fault meet one rule of each kind.                             *)
(***************************************************************************)
EXTENDS AmendAndCheck

MCTypes      == {"a", "b", "x"}
MCMembers(t) == IF t = "x" THEN {"a", "b"} ELSE {t}
MCClasses    == {"file", "dir"}
MCPerms      == {"read", "write", "map", ""}
MCValue(c, p) == CASE p = "read" -> 1 [] p = "write" -> 2
                   [] p = "map" /\ c = "file" -> 3 [] OTHER -> 0

SomeRules(ss, ts, kinds) ==
  [s : ss, t : ts, c : MCClasses, kind : kinds, data : {{1}, {3}, {2, 3}}]
TeRules == SomeRules({"b", "x"}, {"a", "x"}, {"allow", "type_transition"})

RuleA == [s |-> "a", t |-> "b", c |-> "file", kind |-> "allow", data |-> {1}]
RuleB == [s |-> "b", t |-> "b", c |-> "file", kind |-> "allow", data |-> {1, 2}]

MCBases ==
  {[te |-> {}, cond |-> c] : c \in {{}} \cup {{r} : r \in SomeRules({"x"}, {"x"}, {"allow"})}}
  \cup {[te |-> {r}, cond |-> {}] : r \in {RuleA, [RuleA EXCEPT !.kind = "type_transition"]}}

File(rules)  == [fault |-> "none", rules |-> rules]
Faulty       == [fault : {"missing", "empty", "syntax", "semantic"}, rules : {{RuleB}}]
Command(b, o, files) == [base |-> b, output |-> o, files |-> files]

MCJobs ==
  {<<Command("base", "out", <<File({r})>>)>> : r \in TeRules}
  \cup {<<Command("base", o, files)>> :
          o \in {"base", "out", None},
          files \in {<<>>, <<File({RuleA}), File({RuleB})>>, <<File({RuleB}), File({RuleA})>>}
                    \cup {<<File({RuleA}), f>> : f \in Faulty}}
  \cup {<<Command("base", o, <<File({RuleA})>>), Command(o, p, <<File({RuleB})>>)>> :
          o \in {"base", "out"}, p \in {"base", "out"}}

Arg(names) == [op : {"EQUALS", "NOT"}, name : names] \cup {[op |-> "ANY", name |-> ""]}
None4      == [op |-> "NONE", name |-> ""]

MCNoQuery == [s |-> None4, t |-> None4, c |-> None4, p |-> None4, given |-> FALSE]
MCQueries ==
  [s : Arg({"a"}) \cup {[op |-> "EQUALS", name |-> "none"]}, t : Arg({"b"}), c : Arg({"file"}),
   p : Arg({"read", "map"}), given : {TRUE}]
  \cup {[s |-> [op |-> "EQUALS", name |-> "a"], t |-> [op |-> "EQUALS", name |-> "b"],
         c |-> [op |-> "EQUALS", name |-> c], p |-> [op |-> "EQUALS", name |-> "map"], given |-> g] :
          c \in {"dir", "none"}, g \in BOOLEAN}
=============================================================================
