---------------------------- MODULE MCSeappCheck ----------------------------
(***************************************************************************)
(* Small instances of SeappCheck: seapp_contexts files of a few lines.     *)
(***************************************************************************)
EXTENDS SeappCheck

Word(k, v)  == [key |-> k, value |-> v]
Allow(ws)   == [never |-> FALSE, tokens |-> ws]
Forbid(ws)  == [never |-> TRUE, tokens |-> ws]

UserA   == Word("user", <<"a">>)
UserB   == Word("user", <<"b">>)
NameB   == Word("name", <<"b">>)
Shell   == Word("domain", <<"shell">>)
System  == Word("domain", <<"system_app">>)
AnyUser == Word("user", <<".*">>)
AOrC    == Word("user", <<"a", "|", "c">>)
NoName  == Word("name", EmptyPattern)

MCOtherCase == [USER |-> "user", ALL |-> "all"]

MCPolicy == [types  |-> {<<"shell">>, <<"system_app">>, <<"data">>},
             attrs  |-> [coredomain |-> {<<"system_app">>}, app_data_file_type |-> {<<"data">>}],
             levels |-> {<<"s0">>}]
BarePolicy == [types |-> {<<"shell">>, <<"data">>}, attrs |-> [other |-> {}], levels |-> {}]

(***************************************************************************)
(* Rules and neverallow rules over two users, enough for one rule to       *)
(* violate several neverallow rules and one neverallow to be violated by   *)
(* several rules.                                                          *)
(***************************************************************************)
ClashLines ==
  { Allow(<<UserA, Shell>>), Allow(<<UserB, System>>), Allow(<<UserA, NameB, System>>),
    Forbid(<<AnyUser, Shell>>), Forbid(<<AnyUser, System>>), Forbid(<<AnyUser, NoName>>),
    Forbid(<<AOrC>>) }

(***************************************************************************)
(* Every way in which a line can be rejected, next to lines that are not:  *)
(* comments, an unknown key, a word without '=', a repeated key, values    *)
(* that each validator refuses, a pattern that does not compile, outputs   *)
(* alone, and keys or values in another case.                              *)
(***************************************************************************)
FormLines ==
  { Allow(<<>>), Allow(<<UserA, Shell>>), Allow(<<Word("USER", <<"b">>), System>>),
    Allow(<<Word("User", <<"a">>)>>), Allow(<<Word("neverallow", NoValue), UserA>>),
    Allow(<<UserA, Word("USER", <<"b">>)>>), Allow(<<Shell>>),
    Allow(<<Word("isPrivApp", <<"yes">>)>>), Allow(<<Word("isPrivApp", <<"true">>)>>),
    Allow(<<UserB, Word("type", <<"data">>), Word("levelFrom", <<"ALL">>)>>),
    Allow(<<UserB, Word("type", <<"shell">>)>>),
    Allow(<<UserB, Word("levelFrom", <<"some">>)>>),
    Allow(<<Word("minTargetSdkVersion", <<"30">>), Word("level", <<"s0">>)>>),
    Allow(<<Word("minTargetSdkVersion", <<"-1">>)>>),
    Forbid(<<Word("user", <<"(">>)>>), Forbid(<<NoName, Shell>>) }

(***************************************************************************)
(* Entries that say the same in another order or case, entries whose words *)
(* run together into the same hash key, and a pattern with alternatives.   *)
(***************************************************************************)
TwinLines ==
  { Allow(<<UserA, NameB, Shell>>), Allow(<<NameB, UserA, System>>),
    Allow(<<Word("USER", <<"a">>), NameB>>), Allow(<<UserA, NameB, System>>),
    Allow(<<Word("user", <<"a", "name", "b">>)>>), Forbid(<<AOrC, Shell>>) }

MCPolicies == {NoPolicy, MCPolicy, BarePolicy}

(***************************************************************************)
(* Four lines that clash, three that are malformed in some way, and five   *)
(* that are good: more than the table of four entries can take.            *)
(***************************************************************************)
ClashFiles == BoundedSeq(ClashLines, 4)
FormFiles  == BoundedSeq(FormLines, 3)
LongFile   == <<Allow(<<UserA, Shell>>), Allow(<<UserB, Shell>>),
                Allow(<<Word("isPrivApp", <<"true">>)>>), Forbid(<<UserA, System>>),
                Allow(<<UserA, NameB, Shell>>)>>
LongFiles  == {SubSeq(LongFile, 1, n) : n \in 1 .. 5}

MCLines == ClashLines \cup FormLines \cup ToSet(LongFile)

AllFiles == ClashFiles \cup FormFiles \cup LongFiles
MCFiles(p) == IF p = NoPolicy THEN AllFiles ELSE FormFiles

TwinFiles     == BoundedSeq(TwinLines, 3)
MCTwinFiles(p) == TwinFiles
=============================================================================
