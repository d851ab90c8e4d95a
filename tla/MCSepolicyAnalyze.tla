------------------------- MODULE MCSepolicyAnalyze -------------------------
(***************************************************************************)
(* Small policies for SepolicyAnalyze: types 1 to 4, an attribute of two   *)
(* of them and one of three, so that there are kinds of three types and    *)
(* types between the members of a kind.                                    *)
(***************************************************************************)
EXTENDS SepolicyAnalyze

MCMembers == [a \in {5, 6} |-> IF a = 5 THEN {1, 3} ELSE {1, 3, 4}]

Rule(s, t, c, kind, perms, enabled) ==
  [source |-> s, target |-> t, class |-> c, kind |-> kind, perms |-> perms, enabled |-> enabled]
Allow(s, t, c, perms) == Rule(s, t, c, "allow", perms, TRUE)

\* tables with no more than one rule for each key
Tables(sets) ==
  {t \in sets : \A r, q \in t : r # q =>
     <<r.source, r.target, r.class, r.kind>> # <<q.source, q.target, q.class, q.kind>>}

Few  == {Allow(s, t, c, perms) : s \in {1, 5, 6}, t \in {2, 3}, c \in {1, 2}, perms \in {{"r"}, {"r", "w"}}}
More == {Allow(s, t, 1, {"r"}) : s \in {1, 2, 5, 6}, t \in {1, 2, 3, 6}}
Odd  == {Rule(s, 2, 1, "auditallow", {"r"}, TRUE) : s \in {1, 5}}

Conds == {Rule(s, t, 1, "allow", perms, enabled) :
            s \in {1, 6}, t \in {1, 2, 3}, perms \in {{"r"}, {"w"}}, enabled \in BOOLEAN}

Policy(te, cond) == [te |-> te, cond |-> cond, permissive |-> {2, 4}, bools |-> {1}]
MCPolicies ==
  {Policy(t, {}) : t \in Tables(
     {{r, q} : r, q \in Few} \cup {{r, q} : r, q \in More}
     \cup {{r, q, u} : r, q \in {m \in More : m.target # 6}, u \in Few \cup More})}
  \cup {Policy(t, {c}) : t \in Tables({{r} : r \in More \cup Odd}), c \in Conds}
  \cup {Policy({}, {c, d}) : c, d \in Conds}

Request(loads, component, words) == [loads |-> loads, component |-> component, words |-> words]
Opt(o)  == [option |-> o]
Name(v) == [name |-> v]

Requests ==
  {Request(TRUE, "typecmp", <<Opt("d"), Opt("e")>>), Request(TRUE, "dups", <<>>),
   Request(TRUE, "typecmp", <<>>), Request(TRUE, "typecmp", <<Opt("d"), Opt("?")>>),
   Request(TRUE, "dups", <<Name(1)>>), Request(FALSE, "dups", <<>>), Request(TRUE, "none", <<>>)}
Words == {Opt(o) : o \in {"l", "r", "?"}} \cup {Name(v) : v \in {1, 2, 4, 5, 6, 9}}
ListRequests ==
  {Request(TRUE, "attribute", words) : words \in UNION {[1 .. n -> Words] : n \in 0 .. 3}}
  \cup {Request(TRUE, c, words) : c \in {"permissive", "booleans"}, words \in {<<>>, <<Name(1)>>}}
  \cup {Request(TRUE, "typecmp", words) : words \in {<<Name(1)>>, <<Opt("e"), Name(1)>>}}

MCCalls == [policy : MCPolicies, request : Requests]
           \cup [policy : {Policy({}, {})}, request : ListRequests]
=============================================================================
