---------------------------- MODULE AtomicCombine ---------------------------
(***************************************************************************)
(* What the callers of Combine (tests/combine_maps.py) count on: it is one *)
(* step, from two maps to their combination.  CombineMaps does it one key  *)
(* after the other, in the map that it returns.                            *)
(***************************************************************************)
CONSTANTS Maps,           \* the maps that the files may hold
          Combined(_, _)  \* of top and bottom, see CilMaps

VARIABLES top, given, result, done

vars == <<top, given, result, done>>

Init == top \in Maps /\ given \in Maps /\ result = given /\ done = FALSE

Combine ==
  /\ ~done /\ done' = TRUE
  /\ result' = Combined(top, given)
  /\ UNCHANGED <<top, given>>

Next == Combine
Spec == Init /\ [][Next]_vars
=============================================================================
