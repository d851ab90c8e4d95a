----------------------------- MODULE SeappRules -----------------------------
(***************************************************************************)
(* The data of tools/check_seapp.c: the key table, the lines of a          *)
(* seapp_contexts file, the validators, and when a rule violates a         *)
(* neverallow.  Everything here is a pure operator; the program that uses  *)
(* them is module SeappCheck.                                              *)
(*                                                                         *)
(* A value is a sequence of atoms and a key one atom, so that running two  *)
(* words together, which is how the program builds its hash key, means the *)
(* same here as in C.  A line is what strtok leaves of it:                 *)
(*   never    it starts with "neverallow"                                  *)
(*   tokens   its words, each a key and a value; NoValue for a word in     *)
(*            which there is no '='.  No words: a blank or comment line.   *)
(***************************************************************************)
EXTENDS Integers, Sequences, SequencesExt

CONSTANTS OtherCase,  \* spelling |-> name, for spellings that differ by case
          NoValue,    \* the value of a word without '='
          NoPolicy    \* the policy when there is no -p option

(***************************************************************************)
(* The table "rules[]": the selectors a rule may have, and which of them   *)
(* are inputs.                                                             *)
(***************************************************************************)
BoolKeys == {"isSystemServer", "isEphemeralApp", "isPrivApp", "fromRunAs",
             "isIsolatedComputeApp", "isSdkSandboxAudit", "isSdkSandboxNext"}
Inputs   == BoolKeys \cup {"user", "seinfo", "name", "minTargetSdkVersion"}
Outputs  == {"domain", "type", "levelFrom", "level"}
MaxPairs == 15

(***************************************************************************)
(* strcasecmp against the table and against the words of levelFrom.        *)
(***************************************************************************)
IgnoreCase(w) == IF w \in DOMAIN OtherCase THEN OtherCase[w] ELSE w

Known(t)    == IgnoreCase(t.key) \in Inputs \cup Outputs
Entry(t)    == [name |-> IgnoreCase(t.key), data |-> t.value]

-----------------------------------------------------------------------------
(***************************************************************************)
(* Validators.  A policy is a record of its types, of its attributes (a    *)
(* function from each attribute it declares to the types that have it) and *)
(* of the MLS levels it accepts.  Numbers are atoms: "Int32Max" is the     *)
(* largest that validate_uint accepts, and the empty string passes as 0.   *)
(***************************************************************************)
ValidBool(v)      == v \in {<<"true">>, <<"false">>}
ValidUint(v)      == v \in {<<"0">>, <<"30">>, <<"Int32Max">>, <<>>}
ValidLevelFrom(v) == /\ Len(v) = 1
                     /\ IgnoreCase(v[1]) \in {"none", "all", "app", "user"}
ValidLevel(v, policy)  == policy # NoPolicy => v \in policy.levels
ValidType(v, policy)   ==
  policy # NoPolicy =>
    /\ v \in policy.types
    /\ "app_data_file_type" \in DOMAIN policy.attrs =>
         v \in policy.attrs["app_data_file_type"]
ValidDomain(v, policy, vendor) ==
  policy # NoPolicy =>
    /\ v \in policy.types
    /\ vendor => "coredomain" \in DOMAIN policy.attrs

Valid(e, policy, vendor) ==
  /\ e.name \in BoolKeys => ValidBool(e.data)
  /\ e.name = "minTargetSdkVersion" => ValidUint(e.data)
  /\ e.name = "domain"    => ValidDomain(e.data, policy, vendor)
  /\ e.name = "type"      => ValidType(e.data, policy)
  /\ e.name = "levelFrom" => ValidLevelFrom(e.data)
  /\ e.name = "level"     => ValidLevel(e.data, policy)

\* validate_domain puts the entry on coredomain_violation_list
AssignsCoredomain(e, policy, vendor) ==
  /\ e.name = "domain" /\ vendor /\ policy # NoPolicy
  /\ e.data \in policy.attrs["coredomain"]

-----------------------------------------------------------------------------
(***************************************************************************)
(* Regular expressions.  A pattern is a sequence of atoms: literals, ".*", *)
(* "|" between alternatives and "(" when it does not compile.              *)
(* compile_regex puts '^' before the whole pattern and '$' after it, so    *)
(* that '^' binds to the first alternative only and '$' to the last.       *)
(***************************************************************************)
Compiles(p) == ~Contains(p, "(")

Bars(p) == {i \in DOMAIN p : p[i] = "|"}

Alternative(p, b) ==  \* the alternative that follows position b
  LET ends == {i \in Bars(p) : i > b}
      e    == IF ends = {} THEN Len(p) + 1 ELSE CHOOSE i \in ends : \A j \in ends : i <= j
  IN  SubSeq(p, b + 1, e - 1)

Finds(alt, v, first, last) ==
  \/ alt = <<".*">>
  \/ \E i \in 1 .. Len(v) + 1 : \E j \in i - 1 .. Len(v) :
       /\ SubSeq(v, i, j) = alt
       /\ first => i = 1
       /\ last  => j = Len(v)

MatchesRegex(p, v) ==
  \E b \in Bars(p) \cup {0} :
    Finds(Alternative(p, b), v, b = 0, \A i \in Bars(p) : i <= b)

-----------------------------------------------------------------------------
(***************************************************************************)
(* rule_map_new: a line becomes a rule when every word is a known key,     *)
(* none appears twice, every value validates (for a neverallow: is a       *)
(* pattern that compiles), and something goes into its hash key.           *)
(***************************************************************************)
RuleEntries(l) == [i \in 1 .. Len(l.tokens) |-> Entry(l.tokens[i])]

\* key and value of the inputs (of everything, for a neverallow), run together
HashKey(l) ==
  FlattenSeq([i \in 1 .. Len(l.tokens) |->
    IF l.never \/ IgnoreCase(l.tokens[i].key) \in Inputs
      THEN <<l.tokens[i].key>> \o l.tokens[i].value
      ELSE <<>>])

RuleOf(l) == [never |-> l.never, key |-> HashKey(l), m |-> RuleEntries(l)]

Blank(l) == l.tokens = <<>>

WellFormed(l, policy, vendor) ==
  /\ Len(l.tokens) <= MaxPairs
  /\ \A i \in DOMAIN l.tokens : l.tokens[i].value # NoValue /\ Known(l.tokens[i])
  /\ \A i, j \in DOMAIN l.tokens :
       IgnoreCase(l.tokens[i].key) = IgnoreCase(l.tokens[j].key) => i = j
  /\ \A i \in DOMAIN l.tokens :
       IF l.never THEN Compiles(l.tokens[i].value)
                  ELSE Valid(Entry(l.tokens[i]), policy, vendor)
  /\ HashKey(l) # <<>>

NotesCoredomain(l, pol, vendor) ==
  ~l.never /\ \E i \in DOMAIN l.tokens : AssignsCoredomain(Entry(l.tokens[i]), pol, vendor)

-----------------------------------------------------------------------------
(***************************************************************************)
(* rule_map_validate, one neverallow: each of its entries matches the      *)
(* entry of that name in the rule, or asks (with "") for there to be none. *)
(***************************************************************************)
EmptyPattern == <<"\"\"">>

EntryMatches(r, n) ==
  \/ \E i \in DOMAIN r.m : r.m[i].name = n.name /\ MatchesRegex(n.data, r.m[i].data)
  \/ n.data = EmptyPattern /\ \A i \in DOMAIN r.m : r.m[i].name # n.name

Violates(r, a) == \A j \in DOMAIN a.m : EntryMatches(r, a.m[j])

(***************************************************************************)
(* rule_map_cmp, whose answer is only printed.  "matches" counts the       *)
(* entries of a found in b; the two other counters are incremented         *)
(* together, so that comparing them tells nothing.                         *)
(***************************************************************************)
MatchingIn(a, b) == {i \in DOMAIN a.m : \E j \in DOMAIN b.m : a.m[i] = b.m[j]}

Cmp(a, b) ==
  LET inputsFound   == {i \in MatchingIn(a, b) : a.m[i].name \in Inputs}
      matchedInputs == {i \in MatchingIn(a, b) : a.m[i].name \in Inputs}
  IN  CASE MatchingIn(a, b) = DOMAIN a.m  -> "map_matched"
        [] inputsFound = matchedInputs    -> "map_input_matched"
        [] OTHER                          -> "map_no_matches"
=============================================================================
