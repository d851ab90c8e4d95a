--------------------------- MODULE GenerateCompat ---------------------------
(***************************************************************************)
(* sepolicy_generate_compat (tools/sepolicy_generate_compat.py): when a    *)
(* version is frozen (Target), it writes the map, the compat file and the  *)
(* ignore map from the current policy to Target, out of the mapping file   *)
(* of the Target build and of what the developers wrote for the version    *)
(* before (Latest).  It first puts modules into compat/Android.bp and      *)
(* makes empty files, so that a run that fails leaves those behind, and is *)
(* run again later with other inputs.                                      *)
(***************************************************************************)
EXTENDS CilMaps, Integers, Sequences

CONSTANTS At(_, _),         \* At(t, v): the attribute of type t in version v
          Latest, Target,
          NewObjects,       \* new_objects, the attribute and the type
          NewObjectsType,
          Inputs,           \* what a run may be given
          MaxRuns           \* bound on the runs

\* a map as the parser leaves it: what has a set is a key
Parsed(m) == m \in Map /\ \A a \in Attrs : m.sets[a] # {} => a \in m.attrs

ASSUME AttributesOfTypes ==
  /\ \A t \in Types : At(t, Latest) \in Attrs /\ At(t, Target) \in Attrs
  /\ \A t, u \in Types : At(t, Latest) = At(u, Latest) => t = u
  /\ \A t \in Types : Base(At(t, Target)) = t
ASSUME NewObjectsNames == /\ NewObjects \in Attrs /\ NewObjectsType \in Types
                          /\ Base(NewObjects) = NewObjectsType
ASSUME InputsAreMaps ==
  \A i \in Inputs : /\ Parsed(i.mapping) /\ Parsed(i.latest) /\ Parsed(i.ignore)
                    /\ i.base \subseteq Types /\ i.old \subseteq Types
                    /\ i.pub \subseteq Types \ {NewObjectsType}

VARIABLES
  in,        \* the files and policies the run reads:
             \*   mapping        --plat-mapping-file
             \*   base, old, pub types of the three policies
             \*   latest, ignore the two maps of Latest
  bp,        \* compat/Android.bp: how often it has the modules of Target, and
             \* which modules of Latest have a top_half
  files,     \* the three files of Target
  work,      \* mapping_file_cil
  ignored,   \* target_ignored_types
  removed,   \* target_removed_types
  at,        \* the position in the list that the step goes through
  pc,
  runs

vars == <<in, bp, files, work, ignored, removed, at, pc, runs>>

Absent  == [absent |-> TRUE]
Nothing == [types |-> {}, typeattributes |-> {}, attrs |-> {}, sets |-> [a \in Attrs |-> {}]]

FileNames == <<"map", "compat", "ignore">>
ToPatch   == <<"map", "ignore">>     \* the modules of Latest, one for each kind

Init ==
  /\ in \in Inputs
  /\ bp = [modules |-> 0, top |-> {}]
  /\ files = [f \in {"map", "compat", "ignore"} |-> Absent]
  /\ work = Nothing /\ ignored = {} /\ removed = {}
  /\ at = 1 /\ pc = "create" /\ runs = 1

\* an exception, sys.exit, or a signal
Fail ==
  /\ pc \notin {"done", "failed"}
  /\ pc' = "failed"
  /\ UNCHANGED <<in, bp, files, work, ignored, removed, at, runs>>

Rerun ==
  /\ pc \in {"done", "failed"} /\ runs < MaxRuns
  /\ runs' = runs + 1 /\ in' \in Inputs
  /\ pc' = "create" /\ at' = 1
  /\ work' = Nothing /\ ignored' = {} /\ removed' = {}
  /\ UNCHANGED <<bp, files>>

-----------------------------------------------------------------------------
\* create_target_compat_modules appends
CreateModules ==
  /\ pc = "create"
  /\ bp' = [bp EXCEPT !.modules = @ + 1]
  /\ pc' = "patch"
  /\ UNCHANGED <<in, files, work, ignored, removed, at, runs>>

\* to the next of the n elements of a list, or to the next step
Advance(n, step) == /\ at' = IF at < n THEN at + 1 ELSE 1
                    /\ pc' = IF at < n THEN pc ELSE step

\* bpmodify, once for each module of Latest
PatchTopHalf ==
  /\ pc = "patch"
  /\ bp' = [bp EXCEPT !.top = @ \cup {ToPatch[at]}]
  /\ Advance(Len(ToPatch), "touch")
  /\ UNCHANGED <<in, files, work, ignored, removed, runs>>

Touch ==
  /\ pc = "touch"
  /\ files' = [files EXCEPT ![FileNames[at]] = IF @ = Absent THEN Nothing ELSE @]
  /\ Advance(Len(FileNames), "parse")
  /\ UNCHANGED <<in, bp, work, ignored, removed, runs>>

\* Step 1 and Step 2
Parse ==
  /\ pc = "parse"
  /\ work' = [in.mapping EXCEPT !.types = {}, !.typeattributes = {}]
  /\ pc' = "map"
  /\ UNCHANGED <<in, bp, files, ignored, removed, at, runs>>

-----------------------------------------------------------------------------
\* Step 3
NewTypes     == in.pub \cap (in.base \ in.old)
RemovedTypes == PubTypes(in.mapping) \cap (in.old \ in.base)

\* Step 4
Ignorable   == {t \in Types : ROf(in.ignore)[t] # {}}
IsMapped(n) == ROf(in.latest)[n] # {}

\* change_api_level, where it does not raise an error
OfLatest(a)      == \E t \in Types : a = At(t, Latest)
ChangeApiLevel(a) == At(CHOOSE t \in Types : a = At(t, Latest), Target)

\* the attributes of Target for a new type
TargetsOf(n) == {ChangeApiLevel(a) : a \in {x \in ROf(in.latest)[n] : OfLatest(x)}}

ToIgnore == NewTypes \cap Ignorable
ToMap    == {n \in NewTypes \ Ignorable : IsMapped(n)}

\* (mutant) an attribute that the mapping file has not is passed over
InvalidNewOnly ==
  \/ ~ NewTypes \subseteq ToIgnore \cup ToMap
  \/ ~ RemovedTypes \subseteq in.latest.types
Invalid ==
  \/ ~ NewTypes \subseteq ToIgnore \cup ToMap                  \* invalid_new_types
  \/ \E n \in ToMap : ~ TargetsOf(n) \subseteq work.attrs      \* invalid_mapping_types
  \/ ~ RemovedTypes \subseteq in.latest.types                  \* invalid_removed_types

Raises == \E n \in ToMap : \E a \in ROf(in.latest)[n] : ~OfLatest(a)

\* (mutant) a new type goes into every attribute that its latest map has a set for
AddedToAll == [b \in Attrs |-> work.sets[b] \cup
                 {n \in ToMap : b \in {ChangeApiLevel(a) : a \in {x \in in.latest.attrs : OfLatest(x)}}}]
Added      == [b \in Attrs |-> work.sets[b] \cup
                 {n \in ToMap : b \in TargetsOf(n) \cap work.attrs}]

MapTypes ==
  /\ pc = "map" /\ ~Raises /\ ~Invalid
  /\ work' = [work EXCEPT !.sets = Added]
  /\ ignored' = ToIgnore
  /\ removed' = RemovedTypes \cap in.latest.types
  /\ pc' = "write"
  /\ UNCHANGED <<in, bp, files, at, runs>>

Reject ==
  /\ pc = "map" /\ (Raises \/ Invalid)
  /\ pc' = "failed"
  /\ UNCHANGED <<in, bp, files, work, ignored, removed, at, runs>>

-----------------------------------------------------------------------------
\* Step 5: what the run writes to a file
Text(f) ==
  CASE f = "map"    -> [work EXCEPT !.types = removed]
    [] f = "compat" -> Nothing
    [] f = "ignore" -> [types |-> {NewObjectsType}, typeattributes |-> {NewObjects},
                        attrs |-> {NewObjects},
                        sets  |-> [a \in Attrs |-> IF a = NewObjects
                                                   THEN {NewObjectsType} \cup ignored ELSE {}]]

Appended(old, text)    == Cat(old, text)   \* (mutant) the files are opened with "a"
Overwritten(old, text) == text

Write ==
  /\ pc = "write"
  /\ files' = [files EXCEPT ![FileNames[at]] = Overwritten(@, Text(FileNames[at]))]
  /\ Advance(Len(FileNames), "done")
  /\ UNCHANGED <<in, bp, work, ignored, removed, runs>>

Next == \/ CreateModules \/ PatchTopHalf \/ Touch \/ Parse
        \/ MapTypes \/ Reject \/ Write \/ Fail \/ Rerun
Spec == Init /\ [][Next]_vars

-----------------------------------------------------------------------------
\* a file exists before it is written, and a run that gets so far has as many
\* modules in Android.bp as there were runs before it, at most
TypeOK ==
  /\ work \in Map /\ ignored \subseteq Types /\ removed \subseteq Types
  /\ bp.modules \in 0 .. runs /\ bp.top \subseteq {"map", "ignore"} /\ runs \in 1 .. MaxRuns
  /\ \A f \in DOMAIN files : files[f] \in Map \cup {Absent}
  /\ pc \in {"parse", "map", "write", "done"} =>
       bp.modules > 0 /\ bp.top = {"map", "ignore"} /\ \A f \in DOMAIN files : files[f] # Absent

\* A run that succeeds has treated every new type the way the developers did in
\* the files of Latest: ignored, or mapped to the same types and to no other;
\* and about the types that are not new the map says what the mapping file of
\* the build said.  This holds whatever earlier runs have left behind.
SameTreatment ==
  pc = "done" =>
    /\ \A n \in NewTypes :
         IF n \in files["ignore"].sets[NewObjects]
         THEN ROf(in.ignore)[n] # {}
         ELSE /\ ROf(in.latest)[n] # {}
              /\ \A t \in Types : n \in in.latest.sets[At(t, Latest)]
                                    => n \in files["map"].sets[At(t, Target)]
    /\ \A a \in Attrs : \A n \in files["map"].sets[a] \ in.mapping.sets[a] :
         /\ n \in NewTypes
         /\ \E t \in Types : a = At(t, Target) /\ n \in in.latest.sets[At(t, Latest)]
    /\ files["ignore"].sets[NewObjects] \subseteq NewTypes \cup {NewObjectsType}

\* What treble_sepolicy_tests will ask of the map that the run wrote, for the
\* public types that the old policy had not in any part of it.
NewTypesCovered ==
  pc = "done" => \A n \in in.pub \cap (in.base \ in.old) :
                   ROf(Cat(files["map"], files["ignore"]))[n] # {}

\* The modules of Latest get those of Target as their top half.  The maps that
\* are then combined for Latest are those that it had, if it puts each type into one
\* attribute, a type that has a set into its own, if the mapping file has each type in
\* its own attribute, and the ignore file has new_objects only: the new files bring
\* nothing that was not there, and nothing goes to another type.
OneEach(m)   == \A t \in Types : \A a, b \in ROf(m)[t] : a = b
InOwn(m, v)  == \A t \in Types : m.sets[At(t, v)] # {} => t \in m.sets[At(t, v)]
OnlyOwn(m, v) == \A a \in m.attrs : \E t \in Types : a = At(t, v) /\ m.sets[a] \subseteq {t}
LatestKept ==
  pc = "done" /\ OneEach(in.latest) /\ InOwn(in.latest, Latest)
    /\ OnlyOwn(in.mapping, Target) /\ in.ignore.attrs \subseteq {NewObjects}
  => /\ Combined(files["map"], in.latest).sets = in.latest.sets
     /\ Combined(files["ignore"], in.ignore).sets = in.ignore.sets

\* "Step 4. Map new types and removed types appropriately, based on the latest
\* mapping": a type of the old policy that is gone and that the files of Latest
\* declare is declared by those of Target.
RemovedHandled ==
  pc = "done" => \A t \in (in.old \ in.base) \cap in.latest.types :
                   in.mapping.sets[At(t, Target)] # {} => t \in files["map"].types
=============================================================================
