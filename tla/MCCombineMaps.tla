---------------------------- MODULE MCCombineMaps ---------------------------
(***************************************************************************)
(* Three types; the attributes are those of two of them in an old version, *)
(* and new_objects, which the ignore maps use as a type and as an          *)
(* attribute.  An attribute is a key exactly when its set is not empty.    *)
(***************************************************************************)
EXTENDS CombineMaps

MCTypes   == {"foo", "bar", "new_objects"}
MCAttrs   == {"foo_v", "bar_v", "new_objects"}
MCBase(a) == CASE a = "foo_v" -> "foo" [] a = "bar_v" -> "bar" [] OTHER -> a

MCTwoPart(a) == a # "new_objects"

MapOf(sets) ==
  [types          |-> IF sets["new_objects"] = {} THEN {} ELSE {"new_objects"},
   typeattributes |-> IF sets["new_objects"] = {} THEN {} ELSE {"new_objects"},
   attrs          |-> {a \in MCAttrs : sets[a] # {}},
   sets           |-> sets]

MCMaps == {MapOf(sets) : sets \in {s \in [MCAttrs -> SUBSET MCTypes] :
             s["new_objects"] \in {{}, {"new_objects"}, {"foo", "bar"}, {"bar", "new_objects"}}}}
=============================================================================
