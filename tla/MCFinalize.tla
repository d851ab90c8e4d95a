----------------------------- MODULE MCFinalize -----------------------------
(***************************************************************************)
(* Two old types, foo and bar, and two that are new or not, n and m.  The  *)
(* files of Latest map each of the new ones to foo, to bar, to both or to  *)
(* the attribute dev_type, which has no version, or ignore it, or do not   *)
(* know it; bar may be gone, and the mapping file may lack its attribute.  *)
(* One of two policy files may be gone.                                    *)
(***************************************************************************)
EXTENDS Finalize

NO    == "new_objects"
Olds  == {"foo", "bar"}
News  == {"n", "m"}
MCTypes == Olds \cup News \cup {NO}

MCAt(t, v)  == <<t, v>>
MCAttrs     == (MCTypes \X {1, 2}) \cup {<<NO>>, <<"dev_type">>}
MCBase(a)   == a[1]
MCTwoPart(a) == FALSE      \* versions are like 202504
MCNewObjects == <<NO>>

MapOf(decl, sets) ==
  [types |-> decl, typeattributes |-> {<<n>> : n \in decl \cap {NO}},
   attrs |-> {a \in MCAttrs : sets[a] # {}}, sets |-> sets]

\* where a developer puts a new type
Foo == <<"foo", 1>>
Bar == <<"bar", 1>>
Places(n) == IF n = "n" THEN {{Foo}, {Bar}, {Foo, Bar}, {<<NO>>}, {}}
                        ELSE {{Bar}, {<<"dev_type">>}, {<<NO>>}}

\* where says where each new type is; kept are the old types that are still there
Latest1(where, kept) ==
  MapOf(Olds \ kept, [a \in MCAttrs |->
    IF a = <<NO>> THEN {} ELSE {n \in News : a \in where[n]} \cup
                               {t \in Olds : a = <<t, 1>>}])
Ignore1(where) ==
  MapOf({NO}, [a \in MCAttrs |-> IF a = <<NO>> THEN {NO} \cup {n \in News : a \in where[n]} ELSE {}])
Mapping(has) ==
  MapOf({}, [a \in MCAttrs |-> IF a \in has \X {2} THEN {a[1]} ELSE {}])

\* the new types that the old policy had, and those that are public
Kinds == {<<{}, News>>, <<{}, {"n"}>>, <<{"m"}, News>>}

MCSources == {{"f", "g"}, {"f"}}

MCInputs ==
  {[mapping |-> Mapping(has \cup (News \cap k[1])), latest |-> Latest1(where, kept),
    ignore |-> Ignore1(where), base |-> kept \cup News, old |-> Olds \cup k[1],
    pub |-> kept \cup k[2]] :
     has \in {Olds, {"foo"}}, kept \in {Olds, {"foo"}}, k \in Kinds,
     where \in {w \in [News -> Places("n") \cup Places("m")] : \A n \in News : w[n] \in Places(n)}}
=============================================================================
