----------------------------- MODULE CompatChain ----------------------------
(***************************************************************************)
(* The compatibility maps of a build and the tests that guard them.        *)
(*                                                                         *)
(* For every frozen version v there are a map file and an ignore file,     *)
(* written by hand, from the types of version v + 1 to those of v.  The    *)
(* se_cil_compat_map modules (build/soong/cil_compat_map.go) combine them  *)
(* downwards, each with the one above it (top_half), into maps from the    *)
(* current policy to v; treble_sepolicy_tests then compares the public     *)
(* types of the two versions with the map, for each v.  The modules of the *)
(* version that the platform itself has are left out, and the freeze test  *)
(* compares that version with the current policy.                          *)
(*                                                                         *)
(* Versions are 1 .. Last, and Last + 1 is the current policy.  A build    *)
(* runs its rules in any order that respects their inputs.                 *)
(***************************************************************************)
EXTENDS CilMaps, Integers

CONSTANTS Last,         \* the newest frozen version
          At(_, _),     \* At(t, v): the attribute of type t in version v
          NewObjects,   \* new_objects: a type, and an attribute without version
          Histories     \* what the developers may have written: records
                        \*   pub[v], the public types of v
                        \*   plat[v], ignore[v], the maps

Versions == 1 .. Last
Current  == Last + 1

ASSUME LastNat == Last \in Nat

ASSUME FiniteTypes == IsFiniteSet(Types)

\* The map of a version has the attributes of the types that are public in it, and puts
\* into them types of the two versions only; an ignore file has new_objects, in itself,
\* and declares no type that was ever public.
ASSUME HistoriesAreFiles ==
  \A h \in Histories :
    /\ h.pub \in [1 .. Current -> SUBSET Types]
    /\ \A v \in Versions :
         /\ h.plat[v] \in Map /\ h.ignore[v] \in Map
         /\ \A a \in Attrs : h.plat[v].sets[a] \subseteq h.pub[v] \cup h.pub[v + 1]
         /\ \A t \in h.pub[v] : At(t, v) \in h.plat[v].attrs /\ Base(At(t, v)) = t
         /\ \A a \in h.plat[v].attrs : \E t \in h.pub[v] : a = At(t, v)
         /\ NewObjects \in h.ignore[v].attrs
         /\ Base(NewObjects) \in h.ignore[v].sets[NewObjects] \cap h.ignore[v].types
         /\ \A w \in 1 .. Current : h.ignore[v].types \cap h.pub[w] = {}

VARIABLES
  hist,      \* the sources
  frozen,    \* the platform version is Last: no modules for it
  map,       \* map[v]: plat_v.cil, when it is built
  ignore,    \* ignore[v]: v.ignore.cil, when it is built
  verdict    \* verdict[v]: of treble_sepolicy_tests_v; verdict[Current]: of
             \* the freeze test

vars == <<hist, frozen, map, ignore, verdict>>

None == [absent |-> TRUE]

Init ==
  /\ hist \in Histories /\ frozen \in BOOLEAN
  /\ map = [v \in Versions |-> None] /\ ignore = [v \in Versions |-> None]
  /\ verdict = [v \in 1 .. Current |-> "none"]

\* shouldSkipBuild
Skipped(v) == frozen /\ v = Last

\* expandTopHalf finds no file when the module above builds nothing
HasTopNever(v)  == FALSE       \* (mutant) the tag of the dependency is not found
HasTopAlways(v) == v < Last    \* (mutant) it waits for a module that builds nothing
HasTop(v) == v < Last /\ ~Skipped(v + 1)

TopReady(built, v)     == HasTop(v) => built[v + 1] # None
Built(built, files, v) == IF HasTop(v) THEN Combined(built[v + 1], files[v]) ELSE files[v]

BuildMap(v) ==
  /\ ~Skipped(v) /\ map[v] = None /\ TopReady(map, v)
  /\ map' = [map EXCEPT ![v] = Built(map, hist.plat, v)]
  /\ UNCHANGED <<hist, frozen, ignore, verdict>>

BuildIgnore(v) ==
  /\ ~Skipped(v) /\ ignore[v] = None /\ TopReady(ignore, v)
  /\ ignore' = [ignore EXCEPT ![v] = Built(ignore, hist.ignore, v)]
  /\ UNCHANGED <<hist, frozen, map, verdict>>

-----------------------------------------------------------------------------
\* treble_sepolicy_tests: the violators of its two tests
UnmappedNewTypes(base, old, m) == {n \in base \ old : ROf(m)[n] = {}}

\* (mutant) a type that is in some attribute does not need its declaration
UnmappedRmTypesLax(base, old, m) ==
  {o \in old \ base : o \in PubTypes(m) /\ o \notin m.types /\ ROf(m)[o] = {}}
UnmappedRmTypes(base, old, m) ==
  {o \in old \ base : o \in PubTypes(m) /\ o \notin m.types}

TrebleTest(v) ==
  /\ verdict[v] = "none"
  /\ IF Skipped(v)
       THEN verdict' = [verdict EXCEPT ![v] = "pass"]   \* "touch $(out)"
       ELSE /\ map[v] # None /\ ignore[v] # None
            /\ LET m    == Cat(map[v], ignore[v])
                   base == hist.pub[Current]
                   old  == hist.pub[v]
               IN  verdict' = [verdict EXCEPT ![v] =
                     IF UnmappedNewTypes(base, old, m) = {} /\ UnmappedRmTypes(base, old, m) = {}
                     THEN "pass" ELSE "fail"]
  /\ UNCHANGED <<hist, frozen, map, ignore>>

\* sepolicy_freeze_test, of the types
AddedOnly(current, prebuilt) == current \subseteq prebuilt   \* (mutant) removals are allowed
Unchanged(current, prebuilt) == current = prebuilt

FreezeTest ==
  /\ frozen /\ verdict[Current] = "none"
  /\ verdict' = [verdict EXCEPT ![Current] =
       IF Unchanged(hist.pub[Current], hist.pub[Last]) THEN "pass" ELSE "fail"]
  /\ UNCHANGED <<hist, frozen, map, ignore>>

Next == FreezeTest \/ \E v \in Versions : BuildMap(v) \/ BuildIgnore(v) \/ TrebleTest(v)
Spec == Init /\ [][Next]_vars /\ WF_vars(Next)

-----------------------------------------------------------------------------
\* the build succeeds: every test has run and passed
Green == /\ \A v \in Versions : verdict[v] = "pass"
         /\ frozen => verdict[Current] = "pass"

Finished == /\ \A v \in Versions : verdict[v] # "none"
            /\ frozen => verdict[Current] # "none"

TypeOK ==
  /\ \A v \in Versions : \A m \in {map[v], ignore[v]} \ {None} :
       m \in Map /\ m.attrs = {a \in Attrs : m.sets[a] # {}}
  /\ verdict \in [1 .. Current -> {"none", "pass", "fail"}]

\* the types of a version that the current policy no longer has
Removed(v) == hist.pub[v] \ hist.pub[Current]

\* A green build can be compiled with a vendor policy of any version: a public
\* type that some version had and that the current policy has not is declared
\* by the map of that version ("Make sure that any public type removed in the
\* current policy has its declaration added to the mapping file for use in
\* non-platform policy").
RemovedDeclared ==
  Green => \A v \in Versions : Removed(v) # {} => /\ ~Skipped(v)
                                                  /\ Removed(v) \subseteq map[v].types

\* Nor does an attribute of any map name a type that is declared nowhere: such
\* a type came after that version and went before the current one, so only the
\* test of a later version can notice it, and its declaration comes down the
\* chain.
MembersDeclared ==
  Green => \A v \in Versions : ~Skipped(v) =>
    \A a \in Attrs : map[v].sets[a] \subseteq hist.pub[Current] \cup map[v].types

\* So a vendor policy of any version refers to no type that is declared nowhere.
TypesDeclared == RemovedDeclared /\ MembersDeclared

\* The files of each version, taken for themselves, are complete: every type
\* stays in its own attribute, what is new is mapped or ignored, what is gone
\* is declared; and nothing is mapped to a type that an older version ignores.
NewIn(v)     == hist.pub[v + 1] \ hist.pub[v]
Ignored(v)   == hist.ignore[v].sets[NewObjects]
Complete ==
  \A v \in Versions :
    /\ \A t \in hist.pub[v] : t \in hist.plat[v].sets[At(t, v)]
    /\ NewIn(v) \subseteq Ignored(v) \cup UNION {hist.plat[v].sets[At(t, v)] : t \in hist.pub[v]}
    /\ hist.pub[v] \ hist.pub[v + 1] \subseteq hist.plat[v].types
    /\ \A w \in (v + 1) .. Last : \A n \in Ignored(v) \cap hist.pub[w] :
         hist.plat[w].sets[At(n, w)] \subseteq {n}

\* Then the maps combined from them are complete for every version, however far
\* back: nothing is left to be added to the files of older versions.
ChainComplete ==
  Finished /\ Complete /\ (frozen => hist.pub[Last] = hist.pub[Current]) => Green

\* The rules are enough to build everything, in every order.
Finishes == <>Finished
=============================================================================
