-------------------------- MODULE SepolicyAnalyze --------------------------
(***************************************************************************)
(* sepolicy-analyze without its command neverallow.  typecmp makes for     *)
(* each type an ordered list of its rules, in which the type itself is 0,  *)
(* and compares the lists of every two types; dups looks for rules that    *)
(* another one, with attributes, makes superfluous; attribute, permissive  *)
(* and booleans list what the policy declares.                             *)
(*                                                                         *)
(* Types, attributes and classes are their values.  A bit mask is a set.   *)
(* One action is one rule that avtab_map visits, or the comparison of two  *)
(* types.  The tables and their expansion are libsepol.                    *)
(***************************************************************************)
EXTENDS Integers, Sequences, FiniteSets, SequencesExt

CONSTANTS NPrim,        \* the greatest value of a type or an attribute
          Attributes,   \* those of the values that are attributes
          Members,      \* a function from them to their types
          Calls         \* what the program is called with: [policy, request]

ASSUME PrimAssumption ==
  /\ NPrim \in Nat \ {0} /\ Attributes \subseteq 1 .. NPrim
  /\ Members \in [Attributes -> SUBSET ((1 .. NPrim) \ Attributes)]

Values == 1 .. NPrim
Types  == Values \ Attributes

Components == {"typecmp", "dups", "attribute", "permissive", "booleans", "none"}

\* A rule of a table: source and target are types or attributes, and a rule that
\* grants nothing is in no table.
IsRule(r) ==
  /\ r.source \in Values /\ r.target \in Values /\ r.class \in Nat
  /\ r.perms # {} /\ r.enabled \in BOOLEAN

ASSUME CallsAssumption ==
  \A c \in Calls :
    /\ \A r \in c.policy.te \cup c.policy.cond : IsRule(r)
    /\ \A r \in c.policy.te : r.enabled
    /\ c.policy.permissive \subseteq Types
    /\ c.request.component \in Components

VARIABLES
  policy,     \* te, cond: sets of [source, target, class, kind, perms, enabled];
              \* permissive: bits of permissive_map; bools
  request,    \* [loads, component, words]: options and names
  todo,       \* the rules that avtab_map has still to visit
  type_rules, \* a list of rules for each type
  i, j,       \* the types that are compared
  pc,
  printed,    \* the reports, in any order
  status

vars == <<policy, request, todo, type_rules, i, j, pc, printed, status>>

Running == -1

-----------------------------------------------------------------------------
\* expand_avtab (libsepol): a rule for each two types that a rule stands for,
\* one for all the rules of the same types, class and kind
TypesOf(v) == IF v \in Attributes THEN Members[v] ELSE {v}
Expanded(rules) ==
  LET keys == UNION {{[source |-> s, target |-> t, class |-> r.class, kind |-> r.kind, enabled |-> r.enabled] :
                        s \in TypesOf(r.source), t \in TypesOf(r.target)} : r \in rules}
      perms(k) == UNION {r.perms : r \in {q \in rules :
                    /\ k.source \in TypesOf(q.source) /\ k.target \in TypesOf(q.target)
                    /\ q.class = k.class /\ q.kind = k.kind /\ q.enabled = k.enabled}}
  IN  {[source |-> k.source, target |-> k.target, class |-> k.class, kind |-> k.kind,
        enabled |-> k.enabled, perms |-> perms(k)] : k \in keys}

\* the bits of "specified" that the two functions given to avtab_map look at
Taken(r) == r.kind = "allow" /\ r.enabled

-----------------------------------------------------------------------------
(***************************************************************************)
(* insert_type_rule and create_type_rules_helper                           *)
(***************************************************************************)
SameKey(n, m) == n.source = m.source /\ n.target = m.target /\ n.class = m.class
NotAfter(n, m) ==
  \/ n.source < m.source
  \/ n.source = m.source /\ n.target < m.target
  \/ n.source = m.source /\ n.target = m.target /\ n.class <= m.class

\* the first node of a list, from position k on, that n does not come after
Place(n, list, k) ==
  CHOOSE p \in k .. Len(list) + 1 :
    /\ p > Len(list) \/ NotAfter(n, list[p])
    /\ \A q \in k .. p - 1 : ~NotAfter(n, list[q])

\* (mutant) the rules of a key that is there are not added to it
InsertedTwice(n, list) == InsertAt(list, Place(n, list, 1), n)

Inserted(n, list) ==
  LET p == Place(n, list, 1)
  IN  IF p <= Len(list) /\ SameKey(n, list[p])
      THEN [list EXCEPT ![p].perms = @ \cup n.perms]
      ELSE InsertAt(list, p, n)

Node(s, t, r) == [source |-> s, target |-> t, class |-> r.class, perms |-> r.perms]

CreateTypeRules(r) ==
  IF r.source = r.target
  THEN [type_rules EXCEPT ![r.source] = Inserted(Node(0, 0, r), @)]
  ELSE [type_rules EXCEPT ![r.source] = Inserted(Node(0, r.target, r), @),
                          ![r.target] = Inserted(Node(r.source, 0, r), @)]

-----------------------------------------------------------------------------
Init ==
  /\ \E call \in Calls : policy = call.policy /\ request = call.request
  /\ todo = {} /\ type_rules = [t \in Values |-> <<>>] /\ i = 1 /\ j = 2
  /\ pc = "main" /\ printed = {} /\ status = Running

Exit(n) == pc' = "done" /\ status' = n

\* the words on the command line: [option |-> o], "?" for one it does not know, or
\* [name |-> v]
Asked(o) == [option |-> o] \in Range(request.words)
Names    == {n \in DOMAIN request.words : "name" \in DOMAIN request.words[n]}
FirstName == request.words[Min(Names)].name   \* getopt_long puts the options first

BadOption(known) == \E o \in {"d", "e", "l", "r", "?"} \ known : Asked(o)
TypecmpMisused   == BadOption({"d", "e"}) \/ ~(Asked("d") \/ Asked("e"))
AttributeMisused ==
  \/ BadOption({"l", "r"}) \/ (Asked("l") /\ Asked("r"))
  \/ Len(request.words) # 1 /\ ~(Asked("r") /\ Len(request.words) = 2)
Misused == CASE request.component = "typecmp"   -> TypecmpMisused
             [] request.component = "attribute" -> AttributeMisused
             [] OTHER                           -> request.words # <<>>

\* load_policy, and main
Unreadable == ~request.loads
Main ==
  /\ pc = "main"
  /\ IF Unreadable \/ request.component = "none" \/ Misused
     THEN Exit(1) /\ UNCHANGED todo
     ELSE /\ UNCHANGED status
          /\ pc' = IF request.component = "typecmp" THEN "te" ELSE request.component
          /\ todo' = CASE request.component = "dups"    -> policy.te
                       [] request.component = "typecmp" -> Expanded(policy.te)
                       [] OTHER                         -> {}
  /\ UNCHANGED <<policy, request, type_rules, i, j, printed>>

\* analyze_types: avtab_map over the one table and then the other
MapRule ==
  /\ pc \in {"te", "cond"} /\ todo # {}
  /\ \E r \in todo :
       /\ todo' = todo \ {r}
       /\ type_rules' = IF Taken(r) THEN CreateTypeRules(r) ELSE type_rules
  /\ UNCHANGED <<policy, request, i, j, pc, printed, status>>

Mapped ==
  /\ pc \in {"te", "cond"} /\ todo = {}
  /\ pc' = IF pc = "te" THEN "cond" ELSE "compare"
  /\ todo' = IF pc = "te" THEN Expanded(policy.cond) ELSE {}
  /\ UNCHANGED <<policy, request, type_rules, i, j, printed, status>>

-----------------------------------------------------------------------------
(***************************************************************************)
(* The comparison of two types                                             *)
(***************************************************************************)
\* display_allow
Shown(n, idx) == [source |-> IF n.source = 0 THEN idx ELSE n.source,
                  target |-> IF n.target = 0 THEN idx ELSE n.target,
                  class |-> n.class, perms |-> n.perms]
ShownPart(n, idx, perms) == Shown([n EXCEPT !.perms = perms], idx)

\* find_match: the rules of both that it displays, if they differ in permissions
Match(n, idx1, list, k, idx2) ==
  LET p == Place(n, list, k)
  IN  IF p > Len(list) \/ ~SameKey(n, list[p]) THEN {}
      ELSE {s \in {ShownPart(n, idx1, n.perms \ list[p].perms),
                   ShownPart(list[p], idx2, list[p].perms \ n.perms)} : s.perms # {}}

\* the first place at which the lists differ, or one of them is at its end
Differ(l1, l2) ==
  CHOOSE p \in 1 .. Len(l1) + 1 :
    /\ p > Len(l1) \/ p > Len(l2) \/ l1[p] # l2[p]
    /\ \A q \in 1 .. p - 1 : q <= Len(l2) /\ l1[q] = l2[q]

\* (mutant) the lists are the same if one of them is the beginning of the other
SameSoFar(l1, l2) == LET p == Differ(l1, l2) IN p > Len(l1) \/ p > Len(l2)
Same(l1, l2)      == LET p == Differ(l1, l2) IN p > Len(l1) /\ p > Len(l2)

StartingWith(l1, l2) ==
  LET p == Differ(l1, l2)
      one == IF p > Len(l1) THEN {} ELSE {Shown(l1[p], i)}
      two == IF p > Len(l2) THEN {} ELSE {Shown(l2[p], j)}
      matches == IF one = {} \/ two = {} THEN {}
                 ELSE IF Match(l1[p], i, l2, p, j) # {} THEN Match(l1[p], i, l2, p, j)
                 ELSE Match(l2[p], j, l1, p, i)
  IN  IF matches # {} THEN matches ELSE one \cup two

Report(is, i1, j1, shown) == [is |-> is, i |-> i1, j |-> j1, shown |-> shown]

\* (mutant) the list of a type that is equivalent to an earlier one is kept, and
\* that of one that differs is not
FreedWrong(same) == ~same
Freed(same)      == same

\* the loop over j, for the i that has rules and is a type
Compare ==
  /\ pc = "compare" /\ i < NPrim /\ j <= NPrim
  /\ type_rules[i] # <<>> /\ i \in Types
  /\ j' = j + 1
  /\ IF j \in Attributes
     THEN type_rules' = [type_rules EXCEPT ![j] = <<>>] /\ UNCHANGED printed
     ELSE LET same == Same(type_rules[i], type_rules[j])
          IN  /\ type_rules' = IF Freed(same) THEN [type_rules EXCEPT ![j] = <<>>] ELSE type_rules
              /\ printed' = printed \cup
                   (IF same /\ Asked("e") THEN {Report("equivalent", i, j, {})}
                    ELSE IF ~same /\ Asked("d")
                    THEN {Report("differ", i, j, StartingWith(type_rules[i], type_rules[j]))} ELSE {})
  /\ UNCHANGED <<policy, request, todo, i, pc, status>>

NextRow ==
  /\ pc = "compare" /\ i < NPrim
  /\ j > NPrim \/ type_rules[i] = <<>> \/ i \in Attributes
  /\ type_rules' = [type_rules EXCEPT ![i] = <<>>]
  /\ i' = i + 1 /\ j' = i + 2
  /\ UNCHANGED <<policy, request, todo, pc, printed, status>>

Compared ==
  /\ pc = "compare" /\ i >= NPrim
  /\ Exit(0)
  /\ UNCHANGED <<policy, request, todo, type_rules, i, j, printed>>

-----------------------------------------------------------------------------
(***************************************************************************)
(* find_dups_helper, for a rule r of the table                             *)
(***************************************************************************)
TypeAttrMap(v)  == {v} \cup {a \in Attributes : v \in Members[a]}
WithAttribute(r) == r.source \in Attributes \/ r.target \in Attributes
Candidates(r) ==
  {n \in policy.te :
     /\ n.source \in TypeAttrMap(r.source) /\ n.target \in TypeAttrMap(r.target)
     /\ <<n.source, n.target>> # <<r.source, r.target>> /\ n.source # n.target
     /\ n.class = r.class /\ n.kind = r.kind}

\* (mutant) any permission that both rules have makes a duplicate
Overlap(r, n) ==
  n.perms \cap r.perms # {} /\ (WithAttribute(r) \/ WithAttribute(n))
Covers(r, n) ==
  LET perms == n.perms \cap r.perms
  IN  \/ WithAttribute(r) /\ perms = n.perms
      \/ WithAttribute(n) /\ perms = r.perms

FindDups ==
  /\ pc = "dups" /\ todo # {}
  /\ \E r \in todo :
       /\ todo' = todo \ {r}
       /\ printed' = printed \cup
            {[rule |-> r, by |-> n] : n \in
               {m \in Candidates(r) :
                  /\ r.kind = "allow" /\ r.source # r.target
                  /\ ~(WithAttribute(r) /\ WithAttribute(m)) /\ Covers(r, m)}}
  /\ UNCHANGED <<policy, request, type_rules, i, j, pc, status>>

DupsFound ==
  /\ pc = "dups" /\ todo = {}
  /\ Exit(0)
  /\ UNCHANGED <<policy, request, todo, type_rules, i, j, printed>>

-----------------------------------------------------------------------------
(***************************************************************************)
(* attribute, permissive, booleans                                         *)
(***************************************************************************)
\* p_type_val_to_name counts from 0; the maps of types and attributes do so too,
\* the one of permissive types does not
NameAt(index)     == index + 1
AttrTypeMap(a)    == {t - 1 : t \in Members[a]}
TypeAttrBits(t)   == {v - 1 : v \in TypeAttrMap(t)}
PermissiveAt(bit) == NameAt(bit)            \* (mutant) as the other maps
Permissive(bit)   == NameAt(bit - 1)

List(what) ==
  /\ printed' = {[name |-> n] : n \in what} /\ Exit(0)
  /\ UNCHANGED <<policy, request, todo, type_rules, i, j>>

ListAllAttributes == pc = "attribute" /\ Asked("l") /\ List(Attributes)

\* without a name the table is searched for a null pointer
Crashed == 139
Refuse(n) == Exit(n) /\ UNCHANGED <<policy, request, todo, type_rules, i, j, printed>>
NoName == pc = "attribute" /\ ~Asked("l") /\ Names = {} /\ Refuse(Crashed)

ListAttribute ==
  /\ pc = "attribute" /\ ~Asked("l") /\ Names # {}
  /\ LET v == FirstName
     IN  IF v \notin Values \/ Asked("r") = (v \in Attributes) THEN Refuse(255)
         ELSE IF Asked("r") THEN List({NameAt(b) : b \in TypeAttrBits(v)} \ {v})
         ELSE List({NameAt(b) : b \in AttrTypeMap(v)})

ListPermissive == pc = "permissive" /\ List({Permissive(b) : b \in policy.permissive})
ListBooleans   == pc = "booleans" /\ List(policy.bools)

Next == \/ Main \/ MapRule \/ Mapped \/ Compare \/ NextRow \/ Compared \/ FindDups \/ DupsFound
        \/ ListAllAttributes \/ NoName \/ ListAttribute \/ ListPermissive \/ ListBooleans
Spec == Init /\ [][Next]_vars

-----------------------------------------------------------------------------
(***************************************************************************)
(* What the policy allows, and which types are alike in it                 *)
(***************************************************************************)
Access(s, t, c) ==
  UNION {r.perms : r \in {q \in policy.te \cup policy.cond :
    Taken(q) /\ s \in TypesOf(q.source) /\ t \in TypesOf(q.target) /\ q.class = c}}
Classes == {r.class : r \in policy.te \cup policy.cond}

\* nothing changes if the two types change places
Alike(x, y) ==
  \A c \in Classes :
    /\ \A t \in Types \ {x, y} : Access(x, t, c) = Access(y, t, c) /\ Access(t, x, c) = Access(t, y, c)
    /\ Access(x, x, c) = Access(y, y, c) /\ Access(x, y, c) = Access(y, x, c)
Between(x, y) == \E c \in Classes : Access(x, y, c) \cup Access(y, x, c) # {}
HasRules(x)   == \E t \in Types, c \in Classes : Access(x, t, c) \cup Access(t, x, c) # {}

Nodes(t) ==
  {n \in {[source |-> 0, target |-> 0, class |-> c, perms |-> Access(t, t, c)] : c \in Classes}
         \cup UNION {{[source |-> 0, target |-> u, class |-> c, perms |-> Access(t, u, c)],
                      [source |-> u, target |-> 0, class |-> c, perms |-> Access(u, t, c)]} :
                       u \in Types \ {t}, c \in Classes}
   : n.perms # {}}

Reports(what) == {<<r.i, r.j>> : r \in {q \in printed : "is" \in DOMAIN q /\ q.is = what}}
Done(component) == pc = "done" /\ status = 0 /\ request.component = component

\* The lists hold nodes of types, the reports name types, and the program ends
\* with one of two statuses.
TypeOK ==
  /\ pc \in {"main", "te", "cond", "compare", "dups", "attribute", "permissive",
            "booleans", "done"}
  /\ status \in {Running, 0, 1, 255, Crashed}
  /\ \A t \in Values : ToSet(type_rules[t]) \subseteq
       [source : 0 .. NPrim, target : 0 .. NPrim, class : Classes,
        perms : SUBSET UNION {r.perms : r \in policy.te \cup policy.cond}]
  /\ i \in 1 .. NPrim /\ j \in 2 .. NPrim + 2 /\ (pc = "done") = (status # Running)

\* Whatever the order in which the tables are visited, the list of a type that
\* is compared is the same: its rules, one for each key, in ascending order.
\* Two lists that are compared side by side depend on it.
ListsCanonical ==
  pc = "compare" => \A t \in Types :
    \/ /\ ToSet(type_rules[t]) = Nodes(t)
       /\ \A p \in 1 .. Len(type_rules[t]) - 1 : ~NotAfter(type_rules[t][p + 1], type_rules[t][p])
    \/ type_rules[t] = <<>> /\ <<i, j>> # <<1, 2>>

\* README: equivalent types "are identical with respect to allow rules".  Types
\* that are reported as equivalent are, types that are reported as different are
\* not, although lists are freed while others are still compared with them; and
\* what is shown of a difference is granted by the policy.
VerdictsRight ==
  \A r \in {q \in printed : "is" \in DOMAIN q} :
    /\ (r.is = "equivalent") = (Alike(r.i, r.j) /\ ~Between(r.i, r.j))
    /\ \A s \in r.shown : s.perms \subseteq Access(s.source, s.target, s.class)

\* No pair of types is lost: of those that are alike, without a rule between
\* them, each is reported with the first of its kind, and the first of each kind is
\* reported to differ from each type after it that is of another.
PairsAccounted ==
  Done("typecmp") =>
    \A x, y \in Types :
      LET First == \A z \in 1 .. x - 1 : z \in Types => ~(Alike(z, x) /\ ~Between(z, x))
      IN  x < y /\ HasRules(x) /\ First =>
            IF Alike(x, y) /\ ~Between(x, y)
            THEN Asked("e") => <<x, y>> \in Reports("equivalent")
            ELSE Asked("d") => <<x, y>> \in Reports("differ")

\* README: "pairs of allow rules that grant the same permissions where one allow
\* rule is written directly in terms of individual types and the other is written
\* in terms of attributes associated with those same types": these are reported,
\* and no others, for rules that are not about a type or an attribute and itself.
Narrow(r) == r.kind = "allow" /\ ~WithAttribute(r)
Wide(n)   == n.kind = "allow" /\ WithAttribute(n)
Subsumes(n, r) ==
  /\ r.source \in TypesOf(n.source) /\ r.target \in TypesOf(n.target)
  /\ r.class = n.class /\ r.perms \subseteq n.perms
Proper(r) == r.source # r.target

DupsRight ==
  Done("dups") =>
    printed = {d \in [rule : {r \in policy.te : Narrow(r) /\ Proper(r)},
                      by : {n \in policy.te : Wide(n) /\ Proper(n)}] : Subsumes(d.by, d.rule)}

\* What is listed of an attribute are the types that have it, and of a type the
\* attributes by which it is listed, without itself; what is listed as permissive
\* are the domains that are (bit v of the map is the type of value v).
Listed == {l.name : l \in printed}
ListedRight ==
  /\ Done("attribute") =>
       IF Asked("l") THEN Listed = Attributes
       ELSE LET v == FirstName
            IN  IF Asked("r")
                THEN v \in Types /\ Listed = {a \in Attributes : v \in Members[a]}
                ELSE v \in Attributes /\ Listed = Members[v]
  /\ Done("permissive") => Listed = policy.permissive
  /\ Done("booleans")   => Listed = policy.bools

\* Refuted by TLC: -r without a name gets past the count of the words.
NeverCrashes == status # Crashed

-----------------------------------------------------------------------------
\* README, in full: "Display all type pairs that are equivalent" (types with a
\* rule between them, as those of an attribute have that is allowed to itself, and
\* the second and third of a kind are not displayed),
AllEquivalent ==
  Done("typecmp") /\ Asked("e") =>
    \A x, y \in Types : x < y /\ HasRules(x) /\ Alike(x, y) /\ ~Between(x, y) => <<x, y>> \in Reports("equivalent")
AlikeFound ==
  Done("typecmp") /\ Asked("e") =>
    \A x, y \in Types : x < y /\ HasRules(x) /\ Alike(x, y) =>
      \E z \in Types : {<<z, x>>, <<z, y>>} \subseteq Reports("equivalent") \cup {<<x, x>>}

\* "the first difference found between the two types" (it may be in both, if the
\* list of one of them has been freed or lacks an earlier rule),
ShownDiffers ==
  \A r \in {q \in printed : "is" \in DOMAIN q /\ q.is = "differ"} : \A s \in r.shown :
    LET Of(v) == IF v = r.i THEN r.j ELSE IF v = r.j THEN r.i ELSE v
    IN  ~ s.perms \subseteq Access(Of(s.source), Of(s.target), s.class)

\* and "duplicate allow rules" (a rule of an attribute and itself is taken for one
\* of a type and itself).
AllDups ==
  Done("dups") => \A r, n \in policy.te :
    Narrow(r) /\ Proper(r) /\ Wide(n) /\ Subsumes(n, r) => [rule |-> r, by |-> n] \in printed
=============================================================================
