----------------------------- MODULE CombineMaps ----------------------------
(***************************************************************************)
(* Combine of tests/combine_maps.py: from a map of the types of policy x   *)
(* to those of y (top) and one from y to z (bottom), a map from x to z.    *)
(* The reverse mapping it reads is not kept up to date with the map.       *)
(*                                                                         *)
(* Combine goes through the keys of a dict, in an order that is of no      *)
(* concern to it; one action is one turn of that loop.                     *)
(***************************************************************************)
EXTENDS CilMaps

CONSTANT Maps   \* the maps that the files may hold

ASSUME MapsAreMaps == Maps \subseteq Map

VARIABLES
  top, bottom,   \* the two maps; bottom is changed in place
  given,         \* history: bottom as it was given
  r,             \* bottom.rTypeattributesets, as the parser left it
  todo,          \* the keys of top.typeattributesets that are still to come
  pc             \* "declare", "map", "done"

loopVars == <<top, bottom, given, r, todo, pc>>

LoopInit ==
  /\ top \in Maps /\ bottom \in Maps /\ given = bottom
  /\ r = ROf(bottom) /\ todo = top.attrs /\ pc = "declare"

Declare ==
  /\ pc = "declare"
  /\ bottom' = [bottom EXCEPT !.types = @ \cup top.types,
                              !.typeattributes = @ \cup top.typeattributes]
  /\ pc' = "map"
  /\ UNCHANGED <<top, given, r, todo>>

\* (mutant) the reverse mapping follows the changes of the map
LiveTargets(t) == IF t \in Types THEN ROf(bottom)[t] ELSE {}
Targets(t)     == IF t \in Types THEN r[t] ELSE {}

Updated(old, new) == old \cup new

MapOne(a) ==
  /\ pc = "map" /\ a \in todo
  /\ todo' = todo \ {a}
  /\ bottom' =
       IF Carries(top, a)
       THEN [bottom EXCEPT !.sets =
               [b \in Attrs |-> IF b \in Targets(Base(a)) THEN Updated(@[b], top.sets[a])
                                                          ELSE @[b]]]
       ELSE bottom
  /\ UNCHANGED <<top, given, r, pc>>

Finish ==
  /\ pc = "map" /\ todo = {}
  /\ pc' = "done"
  /\ UNCHANGED <<top, bottom, given, r, todo>>

LoopNext == Declare \/ (\E a \in todo : MapOne(a)) \/ Finish
LoopSpec == LoopInit /\ [][LoopNext]_loopVars /\ WF_loopVars(LoopNext)

-----------------------------------------------------------------------------
LoopTyped ==
  /\ top \in Map /\ given \in Map /\ bottom \in Map
  /\ r = ROf(given) /\ todo \subseteq top.attrs
  /\ pc \in {"declare", "map", "done"}

\* Whatever the order of the keys, the result is the one map in which an
\* attribute of bottom has, besides its own types, those that top maps to each
\* of them: the types it gains on the way are never mapped again, although
\* they are put into the very sets that are being mapped.
ResultRight == pc = "done" => bottom = Combined(top, given)

\* and until then each attribute has what the keys so far have brought
PartialRight ==
  \A b \in Attrs : bottom.sets[b] = given.sets[b] \cup Brought(top, given, top.attrs \ todo, b)

\* What bottom maps is never taken away, so a type that old policy may name
\* stays in its attribute.
NothingLost ==
  /\ given.types \subseteq bottom.types /\ given.typeattributes \subseteq bottom.typeattributes
  /\ \A b \in Attrs : given.sets[b] \subseteq bottom.sets[b]

\* Nobody sees that Combine goes key by key and changes the map it reads: it does
\* what AtomicCombine does.
LoopEnded == pc = "done"
Result   == IF LoopEnded THEN bottom ELSE given
Atomic   == INSTANCE AtomicCombine WITH result <- Result, done <- LoopEnded
IsAtomic == Atomic!Spec

\* "a new type "bar" in top is mapped like this "foo_V_v<-bar", then we map
\* "bar" to whatever "foo" is mapped to in the bottom map. We do this for all
\* new types in the top map."
NewTypesMapped ==
  pc = "done" => \A a \in top.attrs, b \in given.attrs :
                   Base(a) \in given.sets[b] => top.sets[a] \subseteq bottom.sets[b]

\* the declarations are added once, before the sets
Declared ==
  /\ bottom.attrs = given.attrs
  /\ IF pc = "declare"
       THEN bottom = given /\ todo = top.attrs
       ELSE /\ bottom.types = given.types \cup top.types
            /\ bottom.typeattributes = given.typeattributes \cup top.typeattributes
  /\ pc = "done" => todo = {}

LoopInv == LoopTyped /\ PartialRight /\ NothingLost /\ Declared
=============================================================================
