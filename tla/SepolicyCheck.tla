--------------------------- MODULE SepolicyCheck ----------------------------
(***************************************************************************)
(* sepolicy-check (tools/sepolicy-check.c): is there a rule in a policy    *)
(* for a source, a target, a class and a permission?  Each argument is a   *)
(* name, "-" and a name, or "*".  The answer is the exit status: 1 when a  *)
(* rule was found, 0 when there is none, others for errors.                *)
(*                                                                         *)
(* A rule of the access vector table has a set of bits as its data.  What  *)
(* they stand for depends on the kind of rule: bit n is the permission     *)
(* with value n in an allow rule or an auditallow rule, and a bit of the   *)
(* number of a type in a type_transition.                                  *)
(***************************************************************************)
EXTENDS Naturals

CONSTANTS Types,            \* types and attributes: the table p_types
          Members(_),       \* the types of an attribute; {t} for a type
          Classes,          \* the table p_classes
          Perms,
          Value(_, _),      \* Value(c, p): of permission p of class c; 0 if none
          MaskBits,         \* width of perm_bitmask, an uint16_t
          Policies,         \* records te, cond: the two tables
          Queries           \* records s, t, c, p of arguments [op, name], and given,
                            \* whether all the options are there

Rule == [s : Types, t : Types, c : Classes, kind : {"allow", "auditallow", "type_transition"},
         data : SUBSET (Nat \ {0})]

ASSUME MaskBitsNat   == MaskBits \in Nat \ {0}
ASSUME ValuesNat     == \A c \in Classes, p \in Perms : Value(c, p) \in Nat
ASSUME QueryArguments ==
  \A q \in Queries : \A a \in {q.s, q.t, q.c, q.p} : a.op \in {"EQUALS", "NOT", "ANY"}
ASSUME PolicyTables  == \A p \in Policies : p.te \subseteq Rule /\ p.cond \subseteq Rule

VARIABLES policy, query, pc,
          printed,          \* "Match found!" was printed
          status            \* of the exit

vars == <<policy, query, pc, printed, status>>

Running   == 1000    \* no exit status yet
Error     == 255     \* check_rule returned -1
Crashed   == 139     \* a null pointer
Undefined == 1001    \* policydb_destroy got memory that was never set

Init ==
  /\ policy \in Policies /\ query \in Queries
  /\ pc = "options" /\ printed = FALSE /\ status = Running

Exit(n) == pc' = "done" /\ status' = n /\ UNCHANGED printed
Goto(l) == pc' = l /\ UNCHANGED <<printed, status>>
FoundZero == pc' = "done" /\ status' = 0 /\ printed' = TRUE    \* (mutant) the status is inverted
Found   == pc' = "done" /\ status' = 1 /\ printed' = TRUE

ParseOptions ==
  /\ pc = "options"
  /\ IF query.given THEN Goto("load") ELSE Exit(1)
  /\ UNCHANGED <<policy, query>>

\* match is 1 until check_rule sets it; a policy that could not even be opened is
\* destroyed all the same
LoadPolicy ==
  /\ pc = "load"
  /\ Goto("resolve") \/ Exit(1) \/ Exit(Undefined)
  /\ UNCHANGED <<policy, query>>

-----------------------------------------------------------------------------
\* the names that check_rule does not find, before it needs the class
Unknown == \/ query.s.op # "ANY" /\ query.s.name \notin Types
           \/ query.t.op # "ANY" /\ query.t.name \notin Types
           \/ query.c.op # "ANY" /\ query.c.name \notin Classes

PermValue   == Value(query.c.name, query.p.name)
NoClass     == query.p.op # "ANY" /\ query.c.op = "ANY"      \* cls is NULL
UnknownPerm == query.p.op # "ANY" /\ query.c.op # "ANY" /\ PermValue = 0

Resolve ==
  /\ pc = "resolve"
  /\ CASE Unknown -> Exit(Error)
       [] ~Unknown /\ NoClass -> Exit(Crashed)
       [] ~Unknown /\ ~NoClass /\ UnknownPerm -> Exit(Error)
       [] OTHER -> Goto("te")
  /\ UNCHANGED <<policy, query>>

-----------------------------------------------------------------------------
CheckNotReversed(arg, name) ==    \* (mutant) an inequality is taken for an equality
  arg.op = "ANY" \/ arg.name = name
Check(arg, name) ==
  CASE arg.op = "EQUALS" -> arg.name = name
    [] arg.op = "NOT"    -> arg.name # name
    [] OTHER             -> TRUE

\* the one bit that perm_bitmask has room for
PermBitmask(v) == {v} \cap 1 .. MaskBits

CheckPerm(rule) == rule.data \cap PermBitmask(PermValue) # {}

\* expand_avtab: an attribute stands for its types
ExpandedSource(table) == UNION {{[r EXCEPT !.s = s] : s \in Members(r.s)} : r \in table}   \* (mutant)
Expanded(table) ==
  UNION {{[r EXCEPT !.s = st[1], !.t = st[2]] : st \in Members(r.s) \X Members(r.t)} : r \in table}

Matches(rule) == /\ Check(query.s, rule.s) /\ Check(query.t, rule.t) /\ Check(query.c, rule.c)
                 /\ CheckPerm(rule)

\* expand_and_check; all four tests are made for every entry, the last one with
\* a null pointer if the permission is "*"
Search(table, next) ==
  LET entries == Expanded(table)
  IN  \/ Exit(Error)                                   \* out of memory
      \/ /\ query.p.op = "ANY" /\ entries # {}
         /\ Exit(Crashed)
      \/ /\ query.p.op # "ANY" /\ \E e \in entries : Matches(e)
         /\ Found
      \/ /\ entries = {} \/ query.p.op # "ANY"
         /\ \A e \in entries : ~Matches(e)
         /\ next

\* (mutant) the table of the conditional rules is left out
SearchTeOnly ==
  /\ pc = "te" /\ Search(policy.te, Exit(0))
  /\ UNCHANGED <<policy, query>>
SearchTe ==
  /\ pc = "te" /\ Search(policy.te, Goto("cond"))
  /\ UNCHANGED <<policy, query>>

SearchCond ==
  /\ pc = "cond" /\ Search(policy.cond, Exit(0))
  /\ UNCHANGED <<policy, query>>

Next == ParseOptions \/ LoadPolicy \/ Resolve \/ SearchTe \/ SearchCond
Spec == Init /\ [][Next]_vars

-----------------------------------------------------------------------------
TypeOK ==
  /\ policy \in Policies /\ query \in Queries
  /\ pc \in {"options", "load", "resolve", "te", "cond", "done"}
  /\ status \in {Running, 0, 1, Error, Crashed, Undefined} /\ (pc = "done" <=> status # Running)
  /\ printed \in BOOLEAN /\ (printed => status = 1)

\* what the documentation says of an argument
Fits(arg, name) == \/ arg.op = "ANY"
                   \/ arg.op = "EQUALS" /\ name = arg.name
                   \/ arg.op = "NOT" /\ name # arg.name

\* a rule of the policy, attributes included, that gives a permission with value
\* v to what the query is about
Holds(rule, v) ==
  /\ \E s \in Members(rule.s) : Fits(query.s, s)
  /\ \E t \in Members(rule.t) : Fits(query.t, t)
  /\ Fits(query.c, rule.c)
  /\ v \in rule.data

Rules == policy.te \cup policy.cond

\* "No match" can be relied on: all the names were there, and no rule of either
\* table gives the permission, be it through attributes.  The permission has to be one that the
\* mask has room for, given by its name.
NoMissedGrant ==
  status = 0 /\ query.p.op = "EQUALS" =>
    /\ \A arg \in {query.s, query.t} : arg.op # "ANY" => arg.name \in Types
    /\ PermValue \in 1 .. MaskBits => \A r \in Rules : ~Holds(r, PermValue)

\* "Match found!" comes from a rule that has the bit.  The status does not say
\* so: it is also 1 if the options or the policy were bad.
MatchReal == printed => \E r \in Rules : Holds(r, PermValue)

\* README: "A tool for auditing a sepolicy file for any allow rule that grants a
\* given permission."
OnlyAllowRules == printed => \E r \in Rules : r.kind = "allow" /\ Holds(r, PermValue)

\* The same, for the answer that there is none.
EveryPermission ==
  status = 0 /\ query.p.op = "EQUALS" =>
    \A r \in Rules : r.kind = "allow" => ~Holds(r, PermValue)

\* "A string starting with "-" will be matched by inequality."
Inequality ==
  status = 0 /\ query.p.op = "NOT" =>
    \A r \in Rules : \A v \in r.data : r.kind = "allow" /\ v # PermValue => ~Holds(r, v)

\* "A string starting with "*" will be treated as a wildcard."
Wildcards == status # Crashed
=============================================================================
