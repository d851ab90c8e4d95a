------------------------------- MODULE CilMaps ------------------------------
(***************************************************************************)
(* Compatibility maps as MiniCilParser (tests/mini_parser.py) holds them:  *)
(*   types, typeattributes   the declarations                              *)
(*   attrs                   the keys of typeattributesets                 *)
(*   sets                    typeattributesets; {} for an attribute that   *)
(*                           is not a key                                  *)
(* and what the tools that read them compute.                              *)
(***************************************************************************)
EXTENDS FiniteSets

CONSTANTS Types,       \* names of types
          Attrs,       \* names of type attributes
          Base(_),     \* what (\w+?)_\d+(_0)? has in its group for an
                       \* attribute, or the attribute itself
          TwoPart(_)   \* whether a name ends as (\w+)_\d+_\d+ does: the version
                       \* is 33.0, not 202404

Map == [types : SUBSET Types, typeattributes : SUBSET Attrs, attrs : SUBSET Attrs,
        sets : [Attrs -> SUBSET Types]]

\* rTypeattributesets, which _parseTypeattributeset builds with the sets
ROf(m) == [t \in Types |-> {a \in m.attrs : t \in m.sets[a]}]

\* pubtypes: the types that have a versioned attribute
PubTypes(m) == {t \in Types : \E a \in m.attrs : Base(a) = t /\ TwoPart(a)}

\* one file after the other: the parser adds what it reads to what it has
Cat(m, n) == [types          |-> m.types \cup n.types,
              typeattributes |-> m.typeattributes \cup n.typeattributes,
              attrs          |-> m.attrs \cup n.attrs,
              sets           |-> [a \in Attrs |-> m.sets[a] \cup n.sets[a]]]

-----------------------------------------------------------------------------
(***************************************************************************)
(* Combine of tests/combine_maps.py as a function.  CombineMaps has it     *)
(* step by step.                                                           *)
(***************************************************************************)
\* a set of one type is taken for a type that is mapped to itself
Carries(top, a) == Cardinality(top.sets[a]) # 1

\* the types that top brings to the attribute b of bottom, through the
\* attributes in A
Brought(top, bottom, A, b) ==
  UNION {top.sets[a] : a \in {x \in A : /\ Carries(top, x) /\ Base(x) \in Types
                                        /\ b \in bottom.attrs /\ Base(x) \in bottom.sets[b]}}

\* (mutant) the declarations of top are left behind
CombinedBare(top, bottom) ==
  [bottom EXCEPT !.sets = [b \in Attrs |-> @[b] \cup Brought(top, bottom, top.attrs, b)]]
Combined(top, bottom) ==
  [types          |-> bottom.types \cup top.types,
   typeattributes |-> bottom.typeattributes \cup top.typeattributes,
   attrs          |-> bottom.attrs,
   sets           |-> [b \in Attrs |-> bottom.sets[b] \cup Brought(top, bottom, top.attrs, b)]]
=============================================================================
