---------------------------- MODULE MCCompatChain ---------------------------
(***************************************************************************)
(* Three types over two frozen versions and the current policy.  A type    *)
(* stays, goes or comes between any two of them, and may come back.  The   *)
(* maps are what a developer may write after such a change: a type that is *)
(* new is put into the attribute of an old type, or into new_objects, or   *)
(* forgotten; a type that is gone stays in its attribute or is replaced,   *)
(* and is declared or not.  Every ignore file has new_objects in itself,   *)
(* as the template of sepolicy_generate_compat has.                        *)
(***************************************************************************)
EXTENDS CompatChain, Sequences

Names == {"a", "b", "c"}
NO    == "new_objects"

MCTypes    == Names \cup {NO}
MCNewObjects == <<NO>>
MCAt(t, v) == <<t, v>>
MCAttrs    == (Names \X (1 .. 2)) \cup {<<NO>>}
MCBase(x)  == x[1]
MCTwoPart(x) == Len(x) = 2   \* versions are like 33.0
MCOnePart(x) == FALSE        \* versions are like 202404

MapOf(decl, sets) ==
  [types |-> decl, typeattributes |-> {<<n>> : n \in decl \cap {NO}},
   attrs |-> {x \in MCAttrs : sets[x] # {}}, sets |-> sets]

\* the two files of version v, when old and new are the types of v and v + 1
Files(v, old, new) ==
  LET added == new \ old
      gone  == old \ new
  IN  {<<MapOf(decl, [x \in MCAttrs |->
            IF Len(x) = 2 /\ x[2] = v /\ x[1] \in old
            THEN {n \in added : place[n] = x[1]}
                   \cup (IF x[1] \in swapped /\ \E n \in added : place[n] = x[1]
                         THEN {} ELSE {x[1]})
            ELSE {}]),
         MapOf({NO}, [x \in MCAttrs |->
            IF x = <<NO>> THEN {NO} \cup {n \in added : place[n] = NO} ELSE {}])>> :
       decl \in SUBSET gone, swapped \in SUBSET gone,
       place \in [added -> old \cup {NO, "forgotten"}]}

\* "a" is in every version
Pubs == {{"a"} \cup s : s \in SUBSET {"b", "c"}}

MCHistories ==
  UNION {{[pub |-> p, plat |-> <<f1[1], f2[1]>>, ignore |-> <<f1[2], f2[2]>>] :
            f1 \in Files(1, p[1], p[2]), f2 \in Files(2, p[2], p[3])} : p \in [1 .. 3 -> Pubs]}
=============================================================================
