--------------------------- MODULE FinalizeProofs ---------------------------
(***************************************************************************)
(* For all inputs, and any number of runs that fail anywhere:              *)
(*                                                                         *)
(* what the files say that a run of sepolicy_generate_compat leaves when   *)
(* it succeeds, by hand or as a command of finalize-vintf-resources.sh,    *)
(* and what the maps of the version before are combined to with them;      *)
(*                                                                         *)
(* that each edit of the script is made once, and all of them when the     *)
(* script succeeds, for any number of versions.                            *)
(***************************************************************************)
EXTENDS Finalize, FiniteSetTheorems, TLAPS

\* The work of a run is that of its own inputs: what earlier runs left is in the files,
\* and those are written anew one after the other.
Typed  == in \in Inputs /\ DOMAIN files = {"map", "compat", "ignore"}
AtRight == /\ pc \in {"create", "parse", "map"} => at = 1
           /\ pc = "patch" => at \in 1 .. 2
           /\ pc \in {"touch", "write"} => at \in 1 .. 3
OfMapping == pc = "map" => /\ work.attrs = in.mapping.attrs /\ work.sets = in.mapping.sets
                           /\ work = [in.mapping EXCEPT !.types = {}, !.typeattributes = {}]
NewMapped ==
  /\ NewTypes \subseteq ToIgnore \cup ToMap
  /\ \A n \in ToMap : /\ TargetsOf(n) \subseteq in.mapping.attrs
                      /\ \A a \in ROf(in.latest)[n] : OfLatest(a)
  /\ ignored = ToIgnore
  /\ work \in Map
  /\ work.attrs = in.mapping.attrs
  /\ work.sets = [b \in Attrs |-> in.mapping.sets[b] \cup
                                    {n \in ToMap : b \in TargetsOf(n) \cap in.mapping.attrs}]
Mapped  == pc \in {"write", "done"} => NewMapped
Written == /\ pc = "write" => \A k \in 1 .. at - 1 : files[FileNames[k]] = Text(FileNames[k])
           /\ pc = "done" => \A f \in DOMAIN files : files[f] = Text(f)
ToolInv == Typed /\ AtRight /\ OfMapping /\ Mapped /\ Written

\* The inputs change only before the tool has begun.
Before == {"idle", "snapshot", "prebuilt bp", "build", "copy dist", "cts data", "add to cts",
           "freeze", "config"}
NotBegun == line \in Before => pc = "create"

-----------------------------------------------------------------------------
LEMMA InputMaps ==
  ASSUME in \in Inputs
  PROVE  /\ Parsed(in.mapping) /\ Parsed(in.latest) /\ Parsed(in.ignore)
         /\ NewTypes \subseteq Types \ {NewObjectsType}
BY InputsAreMaps DEF NewTypes

\* Starting over, with any inputs, leaves nothing to show.
LEMMA Afresh ==
  ASSUME ToolInv, in' \in Inputs, pc' = "create", at' = 1, files' = files
  PROVE  ToolInv'
BY DEF ToolInv, Typed, AtRight, OfMapping, Mapped, Written

LEMMA SameTool == ToolInv /\ UNCHANGED vars => ToolInv'
<1> SUFFICES ASSUME ToolInv, UNCHANGED vars PROVE ToolInv'
  OBVIOUS
<1>1. /\ in' = in /\ files' = files /\ work' = work /\ ignored' = ignored
      /\ removed' = removed /\ at' = at /\ pc' = pc
  BY DEF vars
<1>2. /\ NewTypes' = NewTypes /\ ToIgnore' = ToIgnore /\ ToMap' = ToMap
      /\ \A n : TargetsOf(n)' = TargetsOf(n)
      /\ \A f : Text(f)' = Text(f)
  BY <1>1 DEF NewTypes, ToIgnore, ToMap, TargetsOf, Text, Ignorable, IsMapped
<1>3. NewMapped => NewMapped'
  BY <1>1, <1>2 DEF NewMapped
<1>4. Written'
  BY <1>1, <1>2 DEF ToolInv, Written
<1> QED
  BY <1>1, <1>3, <1>4 DEF ToolInv, Typed, AtRight, OfMapping, Mapped

\* The tool keeps its invariant.
LEMMA ToolKeeps == ToolInv /\ (ToolStep \/ Rerun) => ToolInv'
<1> SUFFICES ASSUME ToolInv, ToolStep \/ Rerun PROVE ToolInv'
  OBVIOUS
<1>l. Len(FileNames) = 3 /\ Len(ToPatch) = 2
  BY DEF FileNames, ToPatch
<1>1. CASE CreateModules
  BY <1>1 DEF CreateModules, ToolInv, Typed, AtRight, OfMapping, Mapped, Written
<1>2. CASE PatchTopHalf
  BY <1>2, <1>l DEF PatchTopHalf, Advance, ToolInv, Typed, AtRight, OfMapping, Mapped, Written
<1>3. CASE Touch
  BY <1>3, <1>l DEF Touch, Advance, ToolInv, Typed, AtRight, OfMapping, Mapped, Written
<1>4. CASE Parse
  <2>1. /\ pc = "parse" /\ pc' = "map" /\ in' = in /\ files' = files /\ at' = at
        /\ work' = [in.mapping EXCEPT !.types = {}, !.typeattributes = {}]
    BY <1>4 DEF Parse
  <2>2. in.mapping \in Map
    BY InputMaps DEF ToolInv, Typed, Parsed
  <2>3. work'.attrs = in.mapping.attrs /\ work'.sets = in.mapping.sets
    BY <2>1, <2>2 DEF Map
  <2> QED
    BY <2>1, <2>3 DEF ToolInv, Typed, AtRight, OfMapping, Mapped, Written
<1>5. CASE MapTypes
  <2>1. /\ pc = "map" /\ pc' = "write" /\ in' = in /\ files' = files /\ at' = at /\ at = 1
        /\ ~Raises /\ ~Invalid /\ work' = [work EXCEPT !.sets = Added] /\ ignored' = ToIgnore
    BY <1>5 DEF MapTypes, ToolInv, AtRight
  <2>2. work.attrs = in.mapping.attrs /\ work.sets = in.mapping.sets
    BY <2>1 DEF ToolInv, OfMapping
  <2>3. work' \in Map /\ work'.attrs = in.mapping.attrs /\ work'.sets = Added
    <3>1. in.mapping \in Map
      BY InputMaps DEF ToolInv, Typed, Parsed
    <3>2. work \in Map
      BY <2>1, <3>1 DEF ToolInv, OfMapping, Map
    <3>3. NewTypes \subseteq Types
      BY InputMaps DEF ToolInv, Typed
    <3>4. Added \in [Attrs -> SUBSET Types]
      BY <3>2, <3>3 DEF Added, ToMap, Map
    <3> QED
      BY <2>1, <2>2, <3>2, <3>4 DEF Map
  <2>4. Added = [b \in Attrs |-> in.mapping.sets[b] \cup
                                   {n \in ToMap : b \in TargetsOf(n) \cap in.mapping.attrs}]
    BY <2>2 DEF Added
  <2>5. /\ NewTypes \subseteq ToIgnore \cup ToMap
        /\ \A n \in ToMap : /\ TargetsOf(n) \subseteq in.mapping.attrs
                            /\ \A a \in ROf(in.latest)[n] : OfLatest(a)
    BY <2>1, <2>2 DEF Raises, Invalid
  <2>6. /\ NewTypes' = NewTypes /\ ToIgnore' = ToIgnore /\ ToMap' = ToMap
        /\ \A n : TargetsOf(n)' = TargetsOf(n)
    BY <2>1 DEF NewTypes, ToIgnore, ToMap, TargetsOf, Ignorable, IsMapped
  <2>7. NewMapped'
    BY <2>1, <2>3, <2>4, <2>5, <2>6 DEF NewMapped
  <2> QED
    BY <2>1, <2>7 DEF ToolInv, Typed, AtRight, OfMapping, Mapped, Written
<1>6. CASE Reject \/ Fail
  BY <1>6 DEF Reject, Fail, ToolInv, Typed, AtRight, OfMapping, Mapped, Written
<1>7. CASE Write
  <2>1. /\ pc = "write" /\ at \in 1 .. 3 /\ UNCHANGED <<in, work, ignored, removed>>
        /\ files' = [files EXCEPT ![FileNames[at]] = Text(FileNames[at])]
        /\ \/ at < 3 /\ at' = at + 1 /\ pc' = "write"
           \/ at = 3 /\ at' = 1 /\ pc' = "done"
    BY <1>7, <1>l DEF Write, Advance, Overwritten, ToolInv, AtRight
  <2>2. \A f : Text(f)' = Text(f)
    BY <2>1 DEF Text
  <2>3. \A k \in 1 .. at : files'[FileNames[k]] = Text(FileNames[k])
    BY <2>1 DEF ToolInv, Typed, Written, FileNames
  <2>4. \A f \in {"map", "compat", "ignore"} : \E k \in 1 .. 3 : FileNames[k] = f
    BY DEF FileNames
  <2>5. Written'
    BY <2>1, <2>2, <2>3, <2>4 DEF ToolInv, Typed, Written
  <2>6. NewMapped'
    <3>1. /\ NewTypes' = NewTypes /\ ToIgnore' = ToIgnore /\ ToMap' = ToMap
          /\ \A n : TargetsOf(n)' = TargetsOf(n)
      BY <2>1 DEF NewTypes, ToIgnore, ToMap, TargetsOf, Ignorable, IsMapped
    <3> QED
      BY <2>1, <3>1 DEF ToolInv, Mapped, NewMapped
  <2> QED
    BY <2>1, <2>5, <2>6 DEF ToolInv, Typed, AtRight, OfMapping, Mapped
<1>8. CASE Rerun
  BY <1>8, Afresh DEF Rerun
<1> QED
  BY <1>1, <1>2, <1>3, <1>4, <1>5, <1>6, <1>7, <1>8 DEF ToolStep

-----------------------------------------------------------------------------
LEMMA ScriptStart == ScriptInit => ToolInv /\ NotBegun
BY DEF ScriptInit, Init, ToolInv, Typed, AtRight, OfMapping, Mapped, Written, NotBegun

\* A command of the script is a step of the tool, leaves it alone, or has it start
\* with other inputs.
LEMMA ScriptStep == ToolInv /\ NotBegun /\ [ScriptNext]_allVars => ToolInv' /\ NotBegun'
<1> SUFFICES ASSUME ToolInv, NotBegun, [ScriptNext]_allVars PROVE ToolInv' /\ NotBegun'
  OBVIOUS
<1>1. CASE Generate \/ ToolByHand
  BY <1>1, ToolKeeps DEF Generate, ToolByHand, scriptVars, NotBegun, Before
<1>2. CASE Build \/ ByHand
  <2>1. /\ line \in Before /\ in' \in Inputs /\ UNCHANGED <<pc, at, files>>
        /\ line' \in {"copy dist", "by hand"}
    BY <1>2 DEF Build, ByHand, Before
  <2>2. pc = "create" /\ at = 1
    BY <2>1 DEF NotBegun, ToolInv, AtRight
  <2> QED
    BY <2>1, <2>2, Afresh DEF NotBegun
<1>3. CASE StartAgain
  <2>1. AnyInput \in Inputs
    BY DEF AnyInput, ToolInv, Typed
  <2> QED
    BY <1>3, <2>1, Afresh DEF StartAgain, NotBegun
<1>4. CASE \/ Start \/ Snapshot \/ WritePrebuiltBp \/ CopyDist \/ AddCtsData \/ AddToCts
           \/ SetFreezeTest \/ AddToConfig \/ GenerateReturns \/ RemoveDist \/ CopyGenfs
           \/ AddGenfsModule \/ ListGenfs \/ AppendToList \/ SetSelect \/ FormatBp \/ AddTests
           \/ ScriptFails
  <2>1. UNCHANGED vars /\ (line' \in Before => line \in Before)
    BY <1>4 DEF Start, Snapshot, WritePrebuiltBp, CopyDist, AddCtsData, AddToCts,
                SetFreezeTest, AddToConfig, GenerateReturns, RemoveDist, CopyGenfs,
                AddGenfsModule, ListGenfs, AppendToList, SetSelect, FormatBp, AddTests,
                ScriptFails, Command, Before
  <2> QED
    BY <2>1, SameTool DEF NotBegun, vars
<1>5. CASE UNCHANGED allVars
  BY <1>5, SameTool DEF allVars, scriptVars, vars, NotBegun
<1> QED
  BY <1>1, <1>2, <1>3, <1>4, <1>5 DEF ScriptNext

-----------------------------------------------------------------------------
\* What the two files say when a run has succeeded.
LEMMA FilesSay ==
  ASSUME ToolInv, pc = "done"
  PROVE  /\ files["map"].attrs = in.mapping.attrs
         /\ \A b \in Attrs : files["map"].sets[b] = in.mapping.sets[b] \cup
                               {n \in ToMap : b \in TargetsOf(n) /\ b \in in.mapping.attrs}
         /\ files["ignore"].attrs = {NewObjects}
         /\ files["ignore"].sets[NewObjects] = {NewObjectsType} \cup ToIgnore
<1>1. NewMapped /\ files["map"] = Text("map") /\ files["ignore"] = Text("ignore")
  BY DEF ToolInv, Typed, Mapped, Written
<1>2. Text("map") = [work EXCEPT !.types = removed]
  BY DEF Text
<1>3. Text("map").attrs = work.attrs /\ Text("map").sets = work.sets
  BY <1>1, <1>2 DEF NewMapped, Map
<1>4. /\ Text("ignore").attrs = {NewObjects}
      /\ Text("ignore").sets[NewObjects] = {NewObjectsType} \cup ignored
  BY NewObjectsNames DEF Text
<1> QED
  BY <1>1, <1>3, <1>4 DEF NewMapped

\* A new type that is mapped has an attribute of the target version for each type
\* whose attribute it is in, and for no other.
LEMMA Targets ==
  ASSUME NEW n \in Types, NEW t \in Types, in \in Inputs, n \in in.latest.sets[At(t, Latest)]
  PROVE  At(t, Target) \in TargetsOf(n)
<1>1. At(t, Latest) \in ROf(in.latest)[n]
  BY InputMaps, AttributesOfTypes DEF Parsed, Map, ROf
<1>2. OfLatest(At(t, Latest)) /\ ChangeApiLevel(At(t, Latest)) = At(t, Target)
  BY AttributesOfTypes DEF OfLatest, ChangeApiLevel
<1> QED
  BY <1>1, <1>2 DEF TargetsOf

LEMMA TargetsOnly ==
  ASSUME NEW n \in Types, NEW a \in TargetsOf(n), in \in Inputs
  PROVE  \E t \in Types : a = At(t, Target) /\ n \in in.latest.sets[At(t, Latest)]
<1>1. PICK x \in ROf(in.latest)[n] : OfLatest(x) /\ a = ChangeApiLevel(x)
  BY DEF TargetsOf
<1>2. PICK t \in Types : x = At(t, Latest) /\ a = At(t, Target)
  BY <1>1 DEF OfLatest, ChangeApiLevel
<1> QED
  BY <1>1, <1>2 DEF ROf

\* Whatever runs came before and wherever they failed: new types are treated as the
\* developers did in the files of Latest, and the rest as in the mapping file.
THEOREM TreatedAlike == ScriptSpec => []SameTreatment
<1>1. ToolInv => SameTreatment
  <2> SUFFICES ASSUME ToolInv, pc = "done" PROVE SameTreatment
    BY DEF SameTreatment
  <2>1. in \in Inputs /\ NewMapped
    BY DEF ToolInv, Typed, Mapped
  <2>2. ASSUME NEW n \in NewTypes
        PROVE  IF n \in files["ignore"].sets[NewObjects]
               THEN ROf(in.ignore)[n] # {}
               ELSE /\ ROf(in.latest)[n] # {}
                    /\ \A t \in Types : n \in in.latest.sets[At(t, Latest)]
                                          => n \in files["map"].sets[At(t, Target)]
    <3>1. n \in Types /\ n # NewObjectsType
      BY <2>1, InputMaps
    <3>2. CASE n \in files["ignore"].sets[NewObjects]
      BY <3>1, <3>2, FilesSay DEF ToIgnore, Ignorable
    <3>3. CASE n \notin files["ignore"].sets[NewObjects]
      <4>1. n \in ToMap
        BY <2>1, <3>3, FilesSay DEF NewMapped
      <4>2. ASSUME NEW t \in Types, n \in in.latest.sets[At(t, Latest)]
            PROVE  n \in files["map"].sets[At(t, Target)]
        BY <2>1, <3>1, <4>1, <4>2, Targets, FilesSay, AttributesOfTypes DEF NewMapped
      <4> QED
        BY <3>3, <4>1, <4>2 DEF ToMap, IsMapped
    <3> QED
      BY <3>2, <3>3
  <2>3. ASSUME NEW a \in Attrs, NEW n \in files["map"].sets[a] \ in.mapping.sets[a]
        PROVE  /\ n \in NewTypes
               /\ \E t \in Types : a = At(t, Target) /\ n \in in.latest.sets[At(t, Latest)]
    <3>1. n \in ToMap /\ a \in TargetsOf(n)
      BY FilesSay
    <3>2. n \in NewTypes /\ n \in Types
      BY <2>1, <3>1, InputMaps DEF ToMap
    <3> QED
      BY <2>1, <3>1, <3>2, TargetsOnly
  <2>4. files["ignore"].sets[NewObjects] \subseteq NewTypes \cup {NewObjectsType}
    BY FilesSay DEF ToIgnore
  <2> QED
    BY <2>2, <2>3, <2>4 DEF SameTreatment
<1> QED
  BY <1>1, ScriptStart, ScriptStep, PTL DEF ScriptSpec

\* and every new public type has a place in what is left, which is what the treble
\* test asks for.
THEOREM NewAreCovered == ScriptSpec => []NewTypesCovered
<1>1. ToolInv => NewTypesCovered
  <2> SUFFICES ASSUME ToolInv, pc = "done", NEW n \in NewTypes
               PROVE  ROf(Cat(files["map"], files["ignore"]))[n] # {}
    BY DEF NewTypesCovered, NewTypes
  <2> DEFINE m == Cat(files["map"], files["ignore"])
  <2>1. in \in Inputs /\ NewMapped /\ n \in Types
    BY InputMaps DEF ToolInv, Typed, Mapped
  <2>2. /\ m.attrs = files["map"].attrs \cup files["ignore"].attrs
        /\ \A a \in Attrs : m.sets[a] = files["map"].sets[a] \cup files["ignore"].sets[a]
    BY DEF Cat
  <2>3. \E a \in Attrs : a \in m.attrs /\ n \in m.sets[a]
    <3>1. CASE n \in ToIgnore
      BY <2>2, <3>1, FilesSay, NewObjectsNames
    <3>2. CASE n \in ToMap
      <4>1. PICK x \in ROf(in.latest)[n] : OfLatest(x)
        BY <2>1, <3>2 DEF NewMapped, ToMap, IsMapped
      <4>2. ChangeApiLevel(x) \in TargetsOf(n)
        BY <4>1 DEF TargetsOf
      <4>3. ChangeApiLevel(x) \in in.mapping.attrs /\ ChangeApiLevel(x) \in Attrs
        BY <2>1, <3>2, <4>2, InputMaps DEF NewMapped, Parsed, Map
      <4> QED
        BY <2>2, <3>2, <4>2, <4>3, FilesSay
    <3> QED
      BY <2>1, <3>1, <3>2 DEF NewMapped
  <2> HIDE DEF m
  <2>4. ROf(m)[n] # {}
    BY <2>1, <2>3 DEF ROf
  <2> QED
    BY <2>4 DEF m
<1> QED
  BY <1>1, ScriptStart, ScriptStep, PTL DEF ScriptSpec

\* What the attributes of the new maps bring to one of those before: nothing that it
\* has not.
LEMMA MapBringsNothing ==
  ASSUME ToolInv, pc = "done", OneEach(in.latest), InOwn(in.latest, Latest),
         OnlyOwn(in.mapping, Target),
         NEW b \in Attrs
  PROVE  Brought(files["map"], in.latest, files["map"].attrs, b) \subseteq in.latest.sets[b]
<1>0. /\ in \in Inputs /\ NewMapped /\ in.latest \in Map /\ in.mapping \in Map
      /\ \A a \in Attrs : in.latest.sets[a] # {} => a \in in.latest.attrs
  BY InputMaps DEF ToolInv, Typed, Mapped, Parsed
<1> SUFFICES ASSUME NEW a \in files["map"].attrs, NEW x \in files["map"].sets[a],
                    Base(a) \in Types, b \in in.latest.attrs, Base(a) \in in.latest.sets[b]
             PROVE  x \in in.latest.sets[b]
  BY DEF Brought
<1>1. a \in in.mapping.attrs /\ a \in Attrs
  BY <1>0, FilesSay DEF Map
<1>2. x \in in.mapping.sets[a] \/ (x \in ToMap /\ a \in TargetsOf(x))
  BY <1>1, FilesSay
<1>3. CASE x \in in.mapping.sets[a]
  <2>1. PICK t \in Types : a = At(t, Target) /\ x = t
    BY <1>1, <1>3 DEF OnlyOwn
  <2> QED
    BY <2>1, AttributesOfTypes
<1>4. CASE x \in ToMap /\ a \in TargetsOf(x)
  <2>1. x \in Types
    BY <1>0, <1>4, InputMaps DEF ToMap
  <2>2. PICK t \in Types : a = At(t, Target) /\ x \in in.latest.sets[At(t, Latest)]
    BY <1>0, <1>4, <2>1, TargetsOnly
  <2>3. Base(a) = t /\ At(t, Latest) \in Attrs
    BY <2>2, AttributesOfTypes
  <2>4. t \in in.latest.sets[At(t, Latest)] /\ At(t, Latest) \in in.latest.attrs
    BY <1>0, <2>2, <2>3 DEF InOwn
  <2>5. At(t, Latest) \in ROf(in.latest)[t] /\ b \in ROf(in.latest)[t]
    BY <2>3, <2>4 DEF ROf
  <2>6. b = At(t, Latest)
    BY <2>5 DEF OneEach
  <2> QED
    BY <2>2, <2>6
<1> QED
  BY <1>2, <1>3, <1>4

LEMMA IgnoreBringsNothing ==
  ASSUME ToolInv, pc = "done", in.ignore.attrs \subseteq {NewObjects}, NEW b \in Attrs
  PROVE  Brought(files["ignore"], in.ignore, files["ignore"].attrs, b) \subseteq in.ignore.sets[b]
<1>0. in \in Inputs
  BY DEF ToolInv, Typed
<1> SUFFICES ASSUME NEW x \in files["ignore"].sets[NewObjects],
                    b \in in.ignore.attrs, NewObjectsType \in in.ignore.sets[b]
             PROVE  x \in in.ignore.sets[b]
  BY FilesSay, NewObjectsNames DEF Brought
<1>1. b = NewObjects
  OBVIOUS
<1>2. CASE x = NewObjectsType
  BY <1>2
<1>3. CASE x \in ToIgnore
  <2>1. x \in Types /\ ROf(in.ignore)[x] # {}
    BY <1>3 DEF ToIgnore, Ignorable
  <2>2. PICK c \in in.ignore.attrs : x \in in.ignore.sets[c]
    BY <2>1 DEF ROf
  <2> QED
    BY <1>1, <2>2
<1> QED
  BY <1>2, <1>3, FilesSay

\* So the maps that are combined for the version before are those that it had.
THEOREM LatestIsKept == ScriptSpec => []LatestKept
<1>1. ToolInv => LatestKept
  <2> SUFFICES ASSUME ToolInv, pc = "done", OneEach(in.latest), InOwn(in.latest, Latest),
                      OnlyOwn(in.mapping, Target), in.ignore.attrs \subseteq {NewObjects}
               PROVE  /\ Combined(files["map"], in.latest).sets = in.latest.sets
                      /\ Combined(files["ignore"], in.ignore).sets = in.ignore.sets
    BY DEF LatestKept
  <2>1. in.latest \in Map /\ in.ignore \in Map
    BY InputMaps DEF ToolInv, Typed, Parsed
  <2>2. \A b \in Attrs : in.latest.sets[b] \cup
                           Brought(files["map"], in.latest, files["map"].attrs, b) = in.latest.sets[b]
    BY MapBringsNothing
  <2>3. \A b \in Attrs : in.ignore.sets[b] \cup
                           Brought(files["ignore"], in.ignore, files["ignore"].attrs, b) = in.ignore.sets[b]
    BY IgnoreBringsNothing
  <2>4. in.latest.sets = [b \in Attrs |-> in.latest.sets[b]] /\ in.ignore.sets = [b \in Attrs |-> in.ignore.sets[b]]
    BY <2>1 DEF Map
  <2> QED
    BY <2>2, <2>3, <2>4 DEF Combined
<1> QED
  BY <1>1, ScriptStart, ScriptStep, PTL DEF ScriptSpec


-----------------------------------------------------------------------------
\* A set of numbers has a least one, as an inclusion of finite sets has no infinite
\* descent.
LEMMA LeastNat ==
  ASSUME NEW T, T \in SUBSET Nat, T # {}
  PROVE  \E x \in T : \A y \in T : x <= y
<1> DEFINE F == {1 .. x : x \in T}
<1>1. \A x \in T : 1 .. x \in FiniteSubsetsOf(Nat)
  BY FS_Interval DEF FiniteSubsetsOf
<1>2. F \subseteq FiniteSubsetsOf(Nat) /\ F # {}
  BY <1>1
<1>3. PICK f \in F : \A g \in F : ~(<<g, f>> \in StrictSubsetOrdering(Nat))
  BY <1>2, FS_StrictSubsetOrderingWellFounded, WFMin
<1>4. PICK x \in T : f = 1 .. x
  BY <1>3
<1>5. ASSUME NEW y \in T, ~(x <= y) PROVE FALSE
  <2>1. 1 .. y \in F /\ 1 .. y \in SUBSET Nat /\ 1 .. x \in SUBSET Nat
    OBVIOUS
  <2>2. x \in 1 .. x /\ x \notin 1 .. y /\ 1 .. y \subseteq 1 .. x
    BY <1>5
  <2> QED
    BY <1>3, <1>4, <2>1, <2>2 DEF StrictSubsetOrdering
<1> QED
  BY <1>5

\* s/a/a b/ on a list that ends with a.
LEMMA AddedAfterLast ==
  ASSUME NEW n \in Nat
  PROVE  AddedAfter(Upto(n), n, n + 1) = Upto(n + 1)
<1> DEFINE seqs == [i \in DOMAIN Upto(n) |-> IF Upto(n)[i] = n THEN <<n, n + 1>> ELSE <<Upto(n)[i]>>]
           Body(f) == [i \in 1 .. Len(seqs) |-> IF i = 1 THEN seqs[i] ELSE f[i - 1] \o seqs[i]]
           flatten == CHOOSE f : f = Body(f)
           G == [i \in 1 .. n + 1 |-> IF i = n + 1 THEN Upto(n + 1) ELSE Upto(i - 1)]
<1>1. DOMAIN Upto(n) = 1 .. n + 1 /\ \A i \in 1 .. n + 1 : Upto(n)[i] = i - 1
  BY DEF Upto
<1>2. seqs = [i \in 1 .. n + 1 |-> IF i = n + 1 THEN <<n, n + 1>> ELSE <<i - 1>>]
  BY <1>1
<1>3. Len(seqs) = n + 1 /\ seqs # <<>>
  BY <1>2
<1>4. AddedAfter(Upto(n), n, n + 1) = flatten[n + 1]
  <2>1. AddedAfter(Upto(n), n, n + 1) = FlattenSeq(seqs)
    BY DEF AddedAfter
  <2> HIDE DEF seqs
  <2> QED
    BY <1>3, <2>1 DEF FlattenSeq
<1>5. ASSUME NEW i \in 1 .. n + 1 PROVE G[i] = IF i = 1 THEN seqs[i] ELSE G[i - 1] \o seqs[i]
  <2>0. i \in Nat /\ \A k \in Nat : Upto(k) \in Seq(Nat) /\ Len(Upto(k)) = k + 1
    BY DEF Upto
  <2>1. seqs[i] = IF i = n + 1 THEN <<n, n + 1>> ELSE <<i - 1>>
    BY <1>2
  <2>2. CASE i = 1
    <3>1. Upto(0) = <<0>> /\ Upto(1) = <<0, 1>>
      BY DEF Upto
    <3> QED
      BY <2>1, <2>2, <3>1
  <2>3. CASE i # 1 /\ i # n + 1
    <3>1. G[i] = Upto(i - 1) /\ G[i - 1] = Upto(i - 2) /\ i - 2 \in Nat
      BY <2>3
    <3>2. Upto(i - 2) \o <<i - 1>> = Upto(i - 1)
      BY <2>0, <3>1 DEF Upto
    <3> QED
      BY <2>1, <2>3, <3>1, <3>2
  <2>4. CASE i # 1 /\ i = n + 1
    <3>1. G[i] = Upto(n + 1) /\ G[i - 1] = Upto(n - 1) /\ n - 1 \in Nat
      BY <2>4
    <3>2. Upto(n - 1) \o <<n, n + 1>> = Upto(n + 1)
      <4>1. Upto(n - 1) = [k \in 1 .. n |-> k - 1] /\ Upto(n + 1) = [k \in 1 .. n + 2 |-> k - 1]
        BY <3>1 DEF Upto
      <4>2. Len(Upto(n - 1)) = n /\ Upto(n - 1) \in Seq(Nat) /\ <<n, n + 1>> \in Seq(Nat)
        BY <2>0, <3>1
      <4>3. DOMAIN (Upto(n - 1) \o <<n, n + 1>>) = 1 .. n + 2
        BY <4>2
      <4>4. \A k \in 1 .. n + 2 : (Upto(n - 1) \o <<n, n + 1>>)[k] = k - 1
        BY <4>1, <4>2
      <4>5. Upto(n - 1) \o <<n, n + 1>> \in Seq(Nat)
        BY <4>2
      <4> QED
        BY <4>1, <4>3, <4>4, <4>5
    <3> QED
      BY <2>1, <2>4, <3>1, <3>2
  <2> QED
    BY <2>2, <2>3, <2>4
<1>6. G = Body(G)
  BY <1>3, <1>5
<1>7. flatten = Body(flatten)
  <2> HIDE DEF G, Body
  <2> QED
    BY <1>6
<1>8. \A i \in 1 .. n + 1 : flatten[i] = IF i = 1 THEN seqs[i] ELSE flatten[i - 1] \o seqs[i]
  <2> HIDE DEF flatten, seqs
  <2> QED
    BY <1>3, <1>7
<1> HIDE DEF flatten, seqs, G
<1>9. \A i \in 1 .. n + 1 : flatten[i] = G[i]
  <2> SUFFICES ASSUME {i \in 1 .. n + 1 : flatten[i] # G[i]} # {} PROVE FALSE
    OBVIOUS
  <2>0. {i \in 1 .. n + 1 : flatten[i] # G[i]} \in SUBSET Nat
    OBVIOUS
  <2>1. PICK x \in {i \in 1 .. n + 1 : flatten[i] # G[i]} :
          \A y \in {i \in 1 .. n + 1 : flatten[i] # G[i]} : x <= y
    BY <2>0, LeastNat, Zenon
  <2>2. x # 1 => flatten[x - 1] = G[x - 1]
    BY <2>1
  <2> QED
    BY <1>5, <1>8, <2>1, <2>2
<1> QED
  BY <1>4, <1>9 DEF G


-----------------------------------------------------------------------------
(***************************************************************************)
(* The edits of the script.                                                *)
(***************************************************************************)
\* The lines that come after a command.
AfterTests  == {"done"}
AfterSelect == AfterTests \cup {"bpfmt", "tests"}
AfterSeds   == AfterSelect \cup {"select"}
AfterModule == AfterSeds \cup {"list genfs", "sed"}
AfterGenfs  == AfterModule \cup {"genfs module"}
AfterDist   == AfterGenfs \cup {"copy genfs"}
AfterTool   == AfterDist \cup {"remove dist"}
AfterConfig == AfterTool \cup {"generate"}
AfterFreeze == AfterConfig \cup {"config"}
AfterCts    == AfterFreeze \cup {"freeze"}
AfterBuild  == AfterCts \cup {"copy dist", "cts data", "add to cts"}

\* Adding to the CTS is the first edit: as long as it is not made, none is.  A run that
\* gets beyond it has made those edits, and those only, whose commands it has passed; a
\* run that failed there leaves each of them made or not made.
Pristine == tree.cts = Upto(Latest)
Field(now, edited, old, new) ==
  /\ now \in {old, new}
  /\ line \in AfterCts /\ edited => now = new
  /\ Pristine \/ (line \in AfterCts /\ ~edited) => now = old

AllAt(v) == [l \in Lists |-> v]
Once(v)  == [w \in Versions |-> IF w <= v THEN 1 ELSE 0]

FreezeEdit == Field(tree.freeze, line \in AfterFreeze, Latest, Target)
ConfigEdit == Field(tree.config, line \in AfterConfig, Upto(Latest), Upto(Target))
ListsEdit  == /\ DOMAIN tree.lists = Lists
              /\ tree.lists = [l \in Lists |-> tree.lists[l]]
              /\ \A k \in 1 .. 6 :
                   Field(tree.lists[Seds[k]], line \in AfterSeds \/ (line = "sed" /\ k < sedAt),
                         Upto(PrevPrev), Upto(Latest))
SelectEdit == Field(tree.select, line \in AfterSelect, AllAt(Latest), AllAt(Target))
GenfsEdit  == Field(tree.genfs, line \in AfterGenfs, 0 .. Target, 0 .. NextVer)
ModuleEdit == Field(tree.genfsBp, line \in AfterModule, Once(Target), Once(NextVer))
TestsEdit  == Field(tree.tests, line \in AfterTests, Once(Latest), Once(Target))
CtsEdit    == /\ tree.cts \in {Upto(Latest), Upto(Target)}
              /\ line \in {"idle"} \cup (AfterBuild \ AfterCts) => Pristine
              /\ line \in AfterCts => tree.cts = Upto(Target)
Edits == /\ CtsEdit /\ FreezeEdit /\ ConfigEdit /\ ListsEdit /\ SelectEdit /\ GenfsEdit
         /\ ModuleEdit /\ TestsEdit

\* compat/Android.bp, which the tool edits
NoModules  == [modules |-> 0, top |-> {}]
AllModules == [modules |-> 1, top |-> {"map", "ignore"}]
ModulesRight ==
  /\ bp.modules \in {0, 1}
  /\ Pristine \/ line \in AfterCts \ AfterConfig \/ (line = "generate" /\ pc = "create")
       => bp = NoModules
  /\ line = "generate" /\ pc = "patch"
       => bp = [modules |-> 1, top |-> {ToPatch[k] : k \in 1 .. at - 1}]
  /\ line = "generate" /\ pc \in {"touch", "parse", "map", "write", "done"} => bp = AllModules
  /\ line \in AfterTool => bp = AllModules /\ pc = "done"

\* The directory prebuilts/api/Target is made anew.  Its Android.bp does not define the
\* module for the CTS when it is built, so a run that finds Target there ends.
SnapshotRight ==
  /\ line \in {"prebuilt bp", "build"} \cup AfterBuild => sources \subseteq tree.snapshot
  /\ line \in {"build", "copy dist", "cts data"} => tree.bp = {"modules", "dist"}
  /\ line \in AfterCts \cup {"add to cts"} =>
       tree.bp = {"modules", "cts"} \cup (IF line \in AfterDist THEN {} ELSE {"dist"})
  /\ line \in AfterBuild \ {"copy dist"} => tree.dist = TRUE

TreeFields == {"snapshot", "bp", "dist", "cts", "freeze", "config", "lists", "select", "genfs",
               "genfsList", "genfsBp", "tests"}
TreeTyped == /\ tree = [f \in TreeFields |-> tree[f]]
             /\ sedAt \in 1 .. 6 /\ (line \notin {"sed", "failed", "by hand"} => sedAt = 1)
ScriptInv == line # "by hand" => TreeTyped /\ Edits /\ ModulesRight /\ SnapshotRight


\* Versions and lists before and after an edit.
LEMMA VersionFacts ==
  /\ Latest \in Nat /\ Target = Latest + 1 /\ NextVer = Latest + 2
  /\ PrevPrev \in Nat /\ Latest = PrevPrev + 1
BY ConsecutiveVersions DEF NextVer, PrevPrev

LEMMA ListFacts ==
  /\ Upto(Latest) # Upto(Target)
  /\ Target \notin ToSet(Upto(Latest)) /\ Target \in ToSet(Upto(Target))
  /\ Append(Upto(Latest), Target) = Upto(Target)
<1>1. /\ \A n \in Nat : DOMAIN Upto(n) = 1 .. n + 1 /\ Upto(n) \in Seq(Nat) /\ Len(Upto(n)) = n + 1
      /\ \A n \in Nat : \A i \in 1 .. n + 1 : Upto(n)[i] = i - 1
  BY DEF Upto
<1>2. Upto(Latest) # Upto(Target)
  <2>1. Len(Upto(Latest)) = Latest + 1 /\ Len(Upto(Target)) = Latest + 2
    BY <1>1, VersionFacts
  <2> QED
    BY <2>1, VersionFacts
<1>3. Target \notin ToSet(Upto(Latest))
  BY <1>1, VersionFacts DEF ToSet
<1>4. Target \in ToSet(Upto(Target))
  <2>1. Target + 1 \in DOMAIN Upto(Target) /\ Upto(Target)[Target + 1] = Target
    BY <1>1, VersionFacts
  <2> QED
    BY <2>1 DEF ToSet
<1>5. Append(Upto(Latest), Target) = Upto(Target)
  BY <1>1, VersionFacts DEF Upto
<1> QED
  BY <1>2, <1>3, <1>4, <1>5

LEMMA AddedFacts ==
  /\ AddedAfter(Upto(PrevPrev), PrevPrev, Latest) = Upto(Latest)
  /\ AddedAfter(Upto(Latest), Latest, Target) = Upto(Target)
BY VersionFacts, AddedAfterLast

LEMMA OnceFacts ==
  /\ [Once(Target) EXCEPT ![NextVer] = @ + 1] = Once(NextVer)
  /\ [Once(Latest) EXCEPT ![Target] = @ + 1] = Once(Target)
<1>1. NextVer \in Versions /\ Target \in Versions /\ Versions \subseteq Int
  BY VersionFacts DEF Versions
<1>2. [Once(Target) EXCEPT ![NextVer] = @ + 1] =
        [w \in Versions |-> IF w = NextVer THEN Once(Target)[NextVer] + 1 ELSE Once(Target)[w]]
  BY DEF Once
<1>3. [Once(Latest) EXCEPT ![Target] = @ + 1] =
        [w \in Versions |-> IF w = Target THEN Once(Latest)[Target] + 1 ELSE Once(Latest)[w]]
  BY DEF Once
<1>4. /\ \A w \in Versions : /\ Once(Target)[w] = IF w <= Target THEN 1 ELSE 0
                            /\ Once(Latest)[w] = IF w <= Latest THEN 1 ELSE 0
      /\ ~(NextVer <= Target) /\ ~(Target <= Latest)
  BY VersionFacts DEF Once
<1>5. \A w \in Versions : /\ (w <= NextVer <=> w = NextVer \/ w <= Target)
                         /\ (w <= Target <=> w = Target \/ w <= Latest)
  BY <1>1, VersionFacts
<1>6. /\ \A w \in Versions : (IF w = NextVer THEN Once(Target)[NextVer] + 1 ELSE Once(Target)[w])
                             = IF w <= NextVer THEN 1 ELSE 0
      /\ \A w \in Versions : (IF w = Target THEN Once(Latest)[Target] + 1 ELSE Once(Latest)[w])
                             = IF w <= Target THEN 1 ELSE 0
  BY <1>1, <1>4, <1>5
<1> QED
  BY <1>2, <1>3, <1>6 DEF Once

LEMMA OtherFacts ==
  /\ [l \in Lists |-> IF AllAt(Latest)[l] = Latest THEN Target ELSE AllAt(Latest)[l]] = AllAt(Target)
  /\ 0 .. Target \cup {NextVer} = 0 .. NextVer
  /\ Released(Latest).genfsBp = Once(Target) /\ Released(Latest).tests = Once(Latest)
  /\ Released(Target).genfsBp = Once(NextVer) /\ Released(Target).tests = Once(Target)
BY VersionFacts DEF AllAt, Once, Released

\* One field of the tree is edited.
LEMMA OneField ==
  ASSUME TreeTyped, NEW f \in TreeFields, NEW v, tree' = [tree EXCEPT ![f] = v]
  PROVE  /\ tree' = [g \in TreeFields |-> tree'[g]] /\ tree'[f] = v
         /\ \A g \in TreeFields : g # f => tree'[g] = tree[g]
BY DEF TreeTyped

LEMMA ScriptStartInv == ScriptInit => ScriptInv
<1> SUFFICES ASSUME ScriptInit PROVE ScriptInv
  OBVIOUS
<1>1. /\ tree = Released(Latest) /\ line = "idle" /\ sedAt = 1 /\ bp = NoModules
  BY DEF ScriptInit, Init, NoModules
<1>2. TreeTyped
  <2>1. tree = [f \in TreeFields |-> tree[f]]
    BY <1>1, Zenon DEF Released, TreeFields
  <2> QED
    BY <1>1, <2>1 DEF TreeTyped
<1>3. /\ tree.cts = Upto(Latest) /\ tree.freeze = Latest /\ tree.config = Upto(Latest)
      /\ tree.lists = [l \in Lists |-> Upto(PrevPrev)] /\ tree.select = AllAt(Latest)
      /\ tree.genfs = 0 .. Target /\ tree.genfsBp = Once(Target) /\ tree.tests = Once(Latest)
  BY <1>1, OtherFacts, VersionFacts DEF Released, AllAt, PrevPrev
<1>4. line \notin AfterBuild
  BY <1>1 DEF AfterBuild, AfterCts, AfterFreeze, AfterConfig, AfterTool, AfterDist, AfterGenfs,
              AfterModule, AfterSeds, AfterSelect, AfterTests
<1>5. AfterCts \subseteq AfterBuild /\ AfterTool \subseteq AfterBuild
  BY DEF AfterBuild, AfterCts, AfterFreeze, AfterConfig
<1>6. \A k \in 1 .. 6 : Seds[k] \in Lists
  BY DEF Lists, Seds
<1>7. ListsEdit
  BY <1>1, <1>3, <1>4, <1>5, <1>6 DEF ListsEdit, Field
<1>8. Edits
  BY <1>1, <1>3, <1>4, <1>5, <1>7
     DEF Edits, Field, CtsEdit, FreezeEdit, ConfigEdit, SelectEdit, GenfsEdit, ModuleEdit, TestsEdit,
         Pristine
<1>9. ModulesRight
  BY <1>1, <1>4, <1>5 DEF ModulesRight, NoModules
<1>10. SnapshotRight
  BY <1>1, <1>4, <1>5 DEF SnapshotRight
<1> QED
  BY <1>2, <1>8, <1>9, <1>10 DEF ScriptInv


\* A step that goes from one side of a command to the same side, or before the edits.
Same(after) == line' \in AfterCts => line \in AfterCts /\ (line' \in after <=> line \in after)

\* A field that the step leaves alone stays right.
LEMMA FieldsStay ==
  ASSUME Edits, tree'.cts = tree.cts
  PROVE  /\ tree'.freeze = tree.freeze /\ Same(AfterFreeze) => FreezeEdit'
         /\ tree'.config = tree.config /\ Same(AfterConfig) => ConfigEdit'
         /\ tree'.select = tree.select /\ Same(AfterSelect) => SelectEdit'
         /\ tree'.genfs = tree.genfs /\ Same(AfterGenfs) => GenfsEdit'
         /\ tree'.genfsBp = tree.genfsBp /\ Same(AfterModule) => ModuleEdit'
         /\ tree'.tests = tree.tests /\ Same(AfterTests) => TestsEdit'
<1>1. Pristine' = Pristine
  BY DEF Pristine
<1>2. tree'.freeze = tree.freeze /\ Same(AfterFreeze) => FreezeEdit'
  BY <1>1 DEF Edits, FreezeEdit, Field, Same
<1>3. tree'.config = tree.config /\ Same(AfterConfig) => ConfigEdit'
  BY <1>1 DEF Edits, ConfigEdit, Field, Same
<1>4. tree'.select = tree.select /\ Same(AfterSelect) => SelectEdit'
  BY <1>1 DEF Edits, SelectEdit, Field, Same, AllAt
<1>5. tree'.genfs = tree.genfs /\ Same(AfterGenfs) => GenfsEdit'
  BY <1>1 DEF Edits, GenfsEdit, Field, Same
<1>6. tree'.genfsBp = tree.genfsBp /\ Same(AfterModule) => ModuleEdit'
  BY <1>1 DEF Edits, ModuleEdit, Field, Same, Once
<1>7. tree'.tests = tree.tests /\ Same(AfterTests) => TestsEdit'
  BY <1>1 DEF Edits, TestsEdit, Field, Same, Once
<1> QED
  BY <1>2, <1>3, <1>4, <1>5, <1>6, <1>7

LEMMA ListsStay ==
  ASSUME Edits, tree'.cts = tree.cts, tree'.lists = tree.lists, Same(AfterSeds),
         line' \in AfterCts => line # "sed" /\ (line' = "sed" => sedAt' = 1)
  PROVE  ListsEdit'
<1>1. Pristine' = Pristine
  BY DEF Pristine
<1>2. ASSUME NEW k \in 1 .. 6
      PROVE  Field(tree.lists[Seds[k]], line \in AfterSeds \/ (line = "sed" /\ k < sedAt),
                   Upto(PrevPrev), Upto(Latest))'
  <2>1. Field(tree.lists[Seds[k]], line \in AfterSeds \/ (line = "sed" /\ k < sedAt),
              Upto(PrevPrev), Upto(Latest))
    BY DEF Edits, ListsEdit
  <2>2. line' = "sed" /\ line' \in AfterCts => ~(k < sedAt')
    OBVIOUS
  <2> QED
    BY <1>1, <2>1, <2>2 DEF Field, Same
<1> QED
  BY <1>2 DEF Edits, ListsEdit

\* Before the edits, a step that makes none.
LEMMA EarlyStep ==
  ASSUME Edits, ModulesRight, line' \notin AfterCts, bp' = bp,
         \A f \in TreeFields \ {"snapshot", "bp", "dist", "genfsList"} : tree'[f] = tree[f],
         line' \in {"idle"} \cup AfterBuild => Pristine
  PROVE  Edits' /\ ModulesRight'
<1>1. /\ tree'.cts = tree.cts /\ tree'.freeze = tree.freeze /\ tree'.config = tree.config
      /\ tree'.lists = tree.lists /\ tree'.select = tree.select /\ tree'.genfs = tree.genfs
      /\ tree'.genfsBp = tree.genfsBp /\ tree'.tests = tree.tests
  BY DEF TreeFields
<1>2. \A S : Same(S)
  BY DEF Same
<1>3. CtsEdit'
  BY <1>1 DEF Edits, CtsEdit, Pristine
<1>4. Edits'
  BY <1>1, <1>2, <1>3, FieldsStay, ListsStay DEF Edits
<1>5. line' # "generate" /\ line' \notin AfterTool
  BY DEF AfterCts, AfterFreeze, AfterConfig
<1>6. ModulesRight'
  BY <1>1, <1>5 DEF ModulesRight, Pristine, NoModules, AllModules
<1> QED
  BY <1>4, <1>6


LEMMA Lines ==
  /\ AfterBuild = AfterCts \cup {"copy dist", "cts data", "add to cts"}
  /\ AfterCts = {"freeze", "config", "generate", "remove dist"} \cup AfterDist
  /\ AfterDist = {"copy genfs", "genfs module", "list genfs", "sed", "select", "bpfmt", "tests", "done"}
BY DEF AfterBuild, AfterCts, AfterFreeze, AfterConfig, AfterTool, AfterDist, AfterGenfs,
       AfterModule, AfterSeds, AfterSelect, AfterTests

LEMMA FirstOfSix == 1 \in 1 .. 6
OBVIOUS

LEMMA EarlyActions ==
  ASSUME ScriptInv, line # "by hand",
         \/ Start \/ Snapshot \/ WritePrebuiltBp \/ Build \/ CopyDist \/ AddCtsData \/ ScriptFails
         \/ StartAgain
  PROVE  ScriptInv'
<1>0. TreeTyped /\ Edits /\ ModulesRight /\ SnapshotRight
  BY DEF ScriptInv
<1> DEFINE Rest == TreeFields \ {"snapshot", "bp", "dist", "genfsList"}
<1> SUFFICES /\ TreeTyped' /\ SnapshotRight' /\ line' \notin AfterCts /\ bp' = bp
             /\ \A f \in Rest : tree'[f] = tree[f]
             /\ line' \in {"idle"} \cup AfterBuild => Pristine
  BY <1>0, EarlyStep DEF ScriptInv
<1>1. CASE Start
  <2>1. line' = "snapshot" /\ UNCHANGED <<bp, tree, sources, sedAt>> /\ line = "idle"
    BY <1>1 DEF Start, vars
  <2> QED
    BY <1>0, <2>1, Lines DEF TreeTyped, SnapshotRight
<1>2. CASE Snapshot
  <2>1. /\ line = "snapshot" /\ line' = "prebuilt bp" /\ UNCHANGED <<bp, sources, sedAt>>
        /\ tree' = [tree EXCEPT !["snapshot"] = tree.snapshot \cup sources]
    BY <1>2 DEF Snapshot, Command, vars
  <2>2. /\ tree' = [f \in TreeFields |-> tree'[f]] /\ sources' \subseteq tree'.snapshot
        /\ \A f \in TreeFields \ {"snapshot"} : tree'[f] = tree[f]
    BY <1>0, <2>1 DEF TreeTyped, TreeFields
  <2> QED
    BY <1>0, <2>1, <2>2, Lines DEF TreeTyped, SnapshotRight
<1>3. CASE WritePrebuiltBp
  <2>1. /\ line = "prebuilt bp" /\ line' = "build" /\ UNCHANGED <<bp, sources, sedAt>>
        /\ tree' = [tree EXCEPT !["bp"] = {"modules", "dist"}]
    BY <1>3 DEF WritePrebuiltBp, Command, vars
  <2>2. /\ tree' = [f \in TreeFields |-> tree'[f]] /\ tree'.bp = {"modules", "dist"}
        /\ \A f \in TreeFields \ {"bp"} : tree'[f] = tree[f]
    BY <1>0, <2>1 DEF TreeTyped, TreeFields
  <2>3. tree'.snapshot = tree.snapshot
    BY <2>2 DEF TreeFields
  <2> QED
    BY <1>0, <2>1, <2>2, <2>3, Lines DEF TreeTyped, SnapshotRight
<1>4. CASE Build
  <2>1. /\ line = "build" /\ line' = "copy dist" /\ UNCHANGED <<bp, sources, sedAt, tree>>
        /\ ~Undefined
    BY <1>4 DEF Build
  <2>2. tree.bp = {"modules", "dist"}
    BY <1>0, <2>1 DEF SnapshotRight
  <2>3. Target \notin ToSet(tree.cts)
    BY <2>1, <2>2 DEF Undefined
  <2>4. Pristine
    BY <1>0, <2>3, ListFacts DEF Edits, CtsEdit, Pristine
  <2> QED
    BY <1>0, <2>1, <2>4, Lines DEF TreeTyped, SnapshotRight
<1>5. CASE CopyDist
  <2>1. /\ line = "copy dist" /\ line' = "cts data" /\ UNCHANGED <<bp, sources, sedAt>>
        /\ tree' = [tree EXCEPT !["dist"] = TRUE]
    BY <1>5 DEF CopyDist, Command, vars
  <2>2. /\ tree' = [f \in TreeFields |-> tree'[f]] /\ tree'.dist = TRUE
        /\ \A f \in TreeFields \ {"dist"} : tree'[f] = tree[f]
    BY <1>0, <2>1 DEF TreeTyped, TreeFields
  <2>3. tree'.snapshot = tree.snapshot /\ tree'.bp = tree.bp
    BY <2>2 DEF TreeFields
  <2>4. Pristine
    BY <1>0, <2>1, Lines DEF Edits, CtsEdit
  <2> QED
    BY <1>0, <2>1, <2>2, <2>3, <2>4, Lines DEF TreeTyped, SnapshotRight
<1>6. CASE AddCtsData
  <2>1. /\ line = "cts data" /\ line' = "add to cts" /\ UNCHANGED <<bp, sources, sedAt>>
        /\ tree' = [tree EXCEPT !["bp"] = tree.bp \cup {"cts"}]
    BY <1>6 DEF AddCtsData, Command, vars
  <2>2. /\ tree' = [f \in TreeFields |-> tree'[f]] /\ tree'.bp = tree.bp \cup {"cts"}
        /\ \A f \in TreeFields \ {"bp"} : tree'[f] = tree[f]
    BY <1>0, <2>1 DEF TreeTyped, TreeFields
  <2>3. tree'.snapshot = tree.snapshot /\ tree'.dist = tree.dist
    BY <2>2 DEF TreeFields
  <2>4. Pristine
    BY <1>0, <2>1, Lines DEF Edits, CtsEdit
  <2> QED
    BY <1>0, <2>1, <2>2, <2>3, <2>4, Lines DEF TreeTyped, SnapshotRight
<1>7. CASE ScriptFails
  <2>1. line' = "failed" /\ UNCHANGED <<bp, tree, sources, sedAt>>
    BY <1>7 DEF ScriptFails, vars
  <2> QED
    BY <1>0, <2>1, Lines DEF TreeTyped, SnapshotRight
<1>8. CASE StartAgain
  <2>1. line' = "snapshot" /\ sedAt' = 1 /\ UNCHANGED <<bp, tree>>
    BY <1>8 DEF StartAgain
  <2>2. TreeTyped'
    <3>1. tree' = [f \in TreeFields |-> tree'[f]]
      BY <1>0, <2>1 DEF TreeTyped
    <3> QED
      BY FirstOfSix, <2>1, <3>1 DEF TreeTyped
  <2>3. line' \notin {"idle", "prebuilt bp", "build"} \cup AfterBuild
    BY <2>1, Lines
  <2> QED
    BY <2>1, <2>2, <2>3, Lines DEF SnapshotRight
<1> QED
  BY <1>1, <1>2, <1>3, <1>4, <1>5, <1>6, <1>7, <1>8


\* After the first edit: the fields that a command leaves alone, and the one it edits.
LEMMA CtsAction == ASSUME ScriptInv, AddToCts PROVE ScriptInv'
<1>1. /\ line = "add to cts" /\ line' = "freeze" /\ UNCHANGED <<bp, sources, sedAt>>
      /\ tree' = [tree EXCEPT !["cts"] = IF Target \in ToSet(tree.cts) THEN tree.cts
                                         ELSE Append(tree.cts, Target)]
  BY DEF AddToCts, Command, vars
<1>2. TreeTyped /\ Edits /\ ModulesRight /\ SnapshotRight
  BY <1>1 DEF ScriptInv
<1>3. Pristine
  BY <1>1, <1>2, Lines DEF Edits, CtsEdit
<1>4. /\ tree' = [f \in TreeFields |-> tree'[f]] /\ tree'.cts = Upto(Target)
      /\ \A f \in TreeFields \ {"cts"} : tree'[f] = tree[f]
  BY <1>1, <1>2, <1>3, ListFacts DEF TreeTyped, TreeFields, Pristine
<1>5. TreeTyped'
  BY <1>1, <1>2, <1>4 DEF TreeTyped
<1>6. /\ tree'.freeze = tree.freeze /\ tree'.config = tree.config /\ tree'.lists = tree.lists
      /\ tree'.select = tree.select /\ tree'.genfs = tree.genfs /\ tree'.bp = tree.bp
      /\ tree'.genfsBp = tree.genfsBp /\ tree'.tests = tree.tests
      /\ tree'.snapshot = tree.snapshot /\ tree'.dist = tree.dist
  BY <1>4 DEF TreeFields
<1>7. ~Pristine' /\ line' \in AfterCts /\ line' \notin AfterFreeze
  BY <1>1, <1>4, ListFacts
     DEF Pristine, AfterCts, AfterFreeze, AfterConfig, AfterTool, AfterDist, AfterGenfs,
         AfterModule, AfterSeds, AfterSelect, AfterTests
<1>8. /\ AfterConfig \subseteq AfterFreeze /\ AfterGenfs \subseteq AfterFreeze
      /\ AfterModule \subseteq AfterFreeze /\ AfterSeds \subseteq AfterFreeze
      /\ AfterSelect \subseteq AfterFreeze /\ AfterTests \subseteq AfterFreeze
      /\ AfterTool \subseteq AfterFreeze /\ AfterDist \subseteq AfterFreeze
  BY DEF AfterFreeze, AfterConfig, AfterTool, AfterDist, AfterGenfs,
         AfterModule, AfterSeds, AfterSelect, AfterTests
<1>9. ListsEdit'
  <2> SUFFICES ASSUME NEW k \in 1 .. 6
               PROVE  Field(tree.lists[Seds[k]], line \in AfterSeds \/ (line = "sed" /\ k < sedAt),
                            Upto(PrevPrev), Upto(Latest))'
    BY <1>2, <1>6 DEF Edits, ListsEdit
  <2>1. Field(tree.lists[Seds[k]], line \in AfterSeds \/ (line = "sed" /\ k < sedAt),
              Upto(PrevPrev), Upto(Latest))
    BY <1>2 DEF Edits, ListsEdit
  <2> QED
    BY <1>1, <1>3, <1>6, <1>7, <1>8, <2>1 DEF Field
<1>10. CtsEdit'
  BY <1>1, <1>4, <1>7 DEF CtsEdit
<1>11. FreezeEdit' /\ ConfigEdit' /\ GenfsEdit'
  BY <1>2, <1>3, <1>6, <1>7, <1>8 DEF Edits, FreezeEdit, ConfigEdit, GenfsEdit, Field
<1>12. SelectEdit' /\ ModuleEdit' /\ TestsEdit'
  BY <1>2, <1>3, <1>6, <1>7, <1>8 DEF Edits, SelectEdit, ModuleEdit, TestsEdit, Field, AllAt, Once
<1>13. ModulesRight'
  BY <1>1, <1>2, <1>3, <1>7, <1>8 DEF ModulesRight, NoModules, AllModules
<1>14. SnapshotRight'
  BY <1>1, <1>2, <1>6, <1>7, <1>8, Lines DEF SnapshotRight
<1> QED
  BY <1>5, <1>9, <1>10, <1>11, <1>12, <1>13, <1>14 DEF ScriptInv, Edits


\* A command that edits the field f.
LEMMA LateStep ==
  ASSUME ScriptInv, ModulesRight', line \in AfterCts, line' \in AfterCts, sources' = sources,
         sedAt' \in 1 .. 6, line' # "sed" => sedAt' = 1,
         NEW f \in TreeFields \ {"cts", "snapshot", "dist"}, NEW v, tree' = [tree EXCEPT ![f] = v],
         IF f = "bp" THEN SnapshotRight' ELSE line' \in AfterDist <=> line \in AfterDist,
         IF f = "freeze" THEN FreezeEdit' ELSE Same(AfterFreeze),
         IF f = "config" THEN ConfigEdit' ELSE Same(AfterConfig),
         IF f = "lists" THEN ListsEdit'
           ELSE Same(AfterSeds) /\ line # "sed" /\ (line' = "sed" => sedAt' = 1),
         IF f = "select" THEN SelectEdit' ELSE Same(AfterSelect),
         IF f = "genfs" THEN GenfsEdit' ELSE Same(AfterGenfs),
         IF f = "genfsBp" THEN ModuleEdit' ELSE Same(AfterModule),
         IF f = "tests" THEN TestsEdit' ELSE Same(AfterTests)
  PROVE  ScriptInv'
<1>1. TreeTyped /\ Edits /\ SnapshotRight
  BY Lines DEF ScriptInv
<1>2. /\ tree' = [g \in TreeFields |-> tree'[g]] /\ tree'[f] = v
      /\ \A g \in TreeFields : g # f => tree'[g] = tree[g]
  BY <1>1, OneField
<1>3. TreeTyped'
  BY <1>2 DEF TreeTyped
<1>4. /\ tree'.cts = tree.cts /\ tree'.snapshot = tree.snapshot /\ tree'.dist = tree.dist
      /\ f # "freeze" => tree'.freeze = tree.freeze
      /\ f # "config" => tree'.config = tree.config
      /\ f # "lists" => tree'.lists = tree.lists
      /\ f # "select" => tree'.select = tree.select
      /\ f # "genfs" => tree'.genfs = tree.genfs
      /\ f # "genfsBp" => tree'.genfsBp = tree.genfsBp
      /\ f # "tests" => tree'.tests = tree.tests
      /\ f # "bp" => tree'.bp = tree.bp
  BY <1>2 DEF TreeFields
<1>5. FreezeEdit' /\ ConfigEdit' /\ SelectEdit' /\ GenfsEdit' /\ ModuleEdit' /\ TestsEdit'
  BY <1>1, <1>4, FieldsStay
<1>6. ListsEdit'
  BY <1>1, <1>4, ListsStay
<1>7. CtsEdit'
  BY <1>1, <1>4, Lines DEF Edits, CtsEdit
<1>8. SnapshotRight'
  BY <1>1, <1>4, Lines DEF SnapshotRight
<1> QED
  BY <1>3, <1>5, <1>6, <1>7, <1>8 DEF ScriptInv, Edits

\* What the tool has written is not touched.
LEMMA ModulesStay ==
  ASSUME ModulesRight, tree'.cts = tree.cts, bp' = bp, pc' = pc, at' = at,
         line \in AfterCts, line' \in AfterTool => line \in AfterTool,
         line' \notin AfterConfig => line \notin AfterConfig,
         line' = "generate" => line = "config" /\ pc = "create"
  PROVE  ModulesRight'
<1>1. AfterConfig = AfterTool \cup {"generate"} /\ "config" \notin AfterConfig
  BY DEF AfterConfig, AfterTool, AfterDist, AfterGenfs, AfterModule, AfterSeds, AfterSelect, AfterTests
<1>2. Pristine' = Pristine
  BY DEF Pristine
<1>3. line' = "generate" => bp = NoModules
  BY <1>1 DEF ModulesRight
<1>4. line' \in AfterCts \ AfterConfig => bp = NoModules
  BY DEF ModulesRight
<1>5. line' \in AfterTool => bp = AllModules /\ pc = "done"
  BY DEF ModulesRight
<1>6. bp.modules \in {0, 1} /\ (Pristine => bp = NoModules)
  BY DEF ModulesRight
<1> QED
  BY <1>2, <1>3, <1>4, <1>5, <1>6 DEF ModulesRight, NoModules, AllModules

\* The commands, one for each.
LEMMA FreezeAction == ASSUME ScriptInv, NotBegun, SetFreezeTest PROVE ScriptInv'
<1>1. /\ line = "freeze" /\ line' = "config" /\ UNCHANGED <<bp, sources, sedAt, pc, at>>
      /\ tree' = [tree EXCEPT !["freeze"] = Target]
  BY DEF SetFreezeTest, Command, vars
<1>2. TreeTyped /\ Edits /\ ModulesRight /\ SnapshotRight /\ sedAt = 1
  BY <1>1 DEF ScriptInv, TreeTyped
<1>3. /\ line \in AfterCts /\ line' \in AfterCts
      /\ Same(AfterConfig) /\ Same(AfterSelect) /\ Same(AfterGenfs) /\ Same(AfterModule)
      /\ Same(AfterTests) /\ Same(AfterSeds)
      /\ (line' \in AfterDist <=> line \in AfterDist)
  BY <1>1
     DEF Same, AfterCts, AfterFreeze, AfterConfig, AfterTool, AfterDist, AfterGenfs, AfterModule,
         AfterSeds, AfterSelect, AfterTests
<1>4. tree'.cts = tree.cts /\ ~Pristine /\ "freeze" \in TreeFields \ {"cts", "snapshot", "dist"}
  BY <1>1, <1>2, <1>3, ListFacts DEF TreeTyped, TreeFields, Edits, CtsEdit, Pristine
<1>5. ModulesRight'
  <2> QED
    BY <1>1, <1>2, <1>3, <1>4, ModulesStay
       DEF AfterCts, AfterFreeze, AfterConfig, AfterTool, AfterDist, AfterGenfs, AfterModule,
           AfterSeds, AfterSelect, AfterTests
<1>6. FreezeEdit'
  <2>1. tree.freeze = Latest /\ line' \in AfterFreeze
    BY <1>1, <1>2, <1>3 DEF Edits, FreezeEdit, Field,
         AfterCts, AfterFreeze, AfterConfig, AfterTool, AfterDist, AfterGenfs, AfterModule,
           AfterSeds, AfterSelect, AfterTests
  <2>2. tree'.freeze = Target
    BY <1>1, <1>2, <2>1 DEF TreeTyped, TreeFields
  <2> QED
    BY <1>4, <2>1, <2>2, <1>3 DEF FreezeEdit, Field, Pristine
<1> QED
  BY <1>1, <1>2, <1>3, <1>4, <1>5, <1>6, FirstOfSix, LateStep

LEMMA ConfigAction == ASSUME ScriptInv, NotBegun, AddToConfig PROVE ScriptInv'
<1>1. /\ line = "config" /\ line' = "generate" /\ UNCHANGED <<bp, sources, sedAt, pc, at>>
      /\ tree' = [tree EXCEPT !["config"] = AddedAfter(tree.config, Latest, Target)]
  BY DEF AddToConfig, Command, vars
<1>2. TreeTyped /\ Edits /\ ModulesRight /\ SnapshotRight /\ sedAt = 1
  BY <1>1 DEF ScriptInv, TreeTyped
<1>3. /\ line \in AfterCts /\ line' \in AfterCts
      /\ Same(AfterFreeze) /\ Same(AfterSelect) /\ Same(AfterGenfs) /\ Same(AfterModule)
      /\ Same(AfterTests) /\ Same(AfterSeds)
      /\ (line' \in AfterDist <=> line \in AfterDist)
  BY <1>1
     DEF Same, AfterCts, AfterFreeze, AfterConfig, AfterTool, AfterDist, AfterGenfs, AfterModule,
         AfterSeds, AfterSelect, AfterTests
<1>4. tree'.cts = tree.cts /\ ~Pristine /\ "config" \in TreeFields \ {"cts", "snapshot", "dist"}
  BY <1>1, <1>2, <1>3, ListFacts DEF TreeTyped, TreeFields, Edits, CtsEdit, Pristine
<1>5. ModulesRight'
  <2>1. pc = "create"
    BY <1>1 DEF NotBegun, Before
  <2> QED
    BY <1>1, <1>2, <1>3, <1>4, <2>1, ModulesStay
       DEF AfterCts, AfterFreeze, AfterConfig, AfterTool, AfterDist, AfterGenfs, AfterModule,
           AfterSeds, AfterSelect, AfterTests
<1>6. ConfigEdit'
  <2>1. tree.config = Upto(Latest) /\ line' \in AfterConfig
    BY <1>1, <1>2, <1>3 DEF Edits, ConfigEdit, Field,
         AfterCts, AfterFreeze, AfterConfig, AfterTool, AfterDist, AfterGenfs, AfterModule,
           AfterSeds, AfterSelect, AfterTests
  <2>2. tree'.config = Upto(Target)
    BY <1>1, <1>2, <2>1, AddedFacts DEF TreeTyped, TreeFields
  <2> QED
    BY <1>4, <2>1, <2>2, <1>3 DEF ConfigEdit, Field, Pristine
<1> QED
  BY <1>1, <1>2, <1>3, <1>4, <1>5, <1>6, FirstOfSix, LateStep

LEMMA DistAction == ASSUME ScriptInv, NotBegun, RemoveDist PROVE ScriptInv'
<1>1. /\ line = "remove dist" /\ line' = "copy genfs" /\ UNCHANGED <<bp, sources, sedAt, pc, at>>
      /\ tree' = [tree EXCEPT !["bp"] = tree.bp \ {"dist"}]
  BY DEF RemoveDist, Command, vars
<1>2. TreeTyped /\ Edits /\ ModulesRight /\ SnapshotRight /\ sedAt = 1
  BY <1>1 DEF ScriptInv, TreeTyped
<1>3. /\ line \in AfterCts /\ line' \in AfterCts
      /\ Same(AfterFreeze) /\ Same(AfterConfig) /\ Same(AfterSelect) /\ Same(AfterGenfs)
      /\ Same(AfterModule) /\ Same(AfterTests) /\ Same(AfterSeds)
  BY <1>1
     DEF Same, AfterCts, AfterFreeze, AfterConfig, AfterTool, AfterDist, AfterGenfs, AfterModule,
         AfterSeds, AfterSelect, AfterTests
<1>4. tree'.cts = tree.cts /\ ~Pristine /\ "bp" \in TreeFields \ {"cts", "snapshot", "dist"}
  BY <1>1, <1>2, <1>3, ListFacts DEF TreeTyped, TreeFields, Edits, CtsEdit, Pristine
<1>5. ModulesRight'
  <2> QED
    BY <1>1, <1>2, <1>3, <1>4, ModulesStay
       DEF AfterCts, AfterFreeze, AfterConfig, AfterTool, AfterDist, AfterGenfs, AfterModule,
           AfterSeds, AfterSelect, AfterTests
<1>6. SnapshotRight'
  <2>1. /\ tree.bp = {"modules", "cts", "dist"} /\ line' \in AfterDist
        /\ line \in AfterBuild /\ line # "copy dist"
    BY <1>1, <1>2, <1>3, Lines DEF SnapshotRight
  <2>2. tree'.bp = {"modules", "cts"} /\ tree'.snapshot = tree.snapshot /\ tree'.dist = tree.dist
    BY <1>1, <1>2, <2>1 DEF TreeTyped, TreeFields
  <2> QED
    BY <1>1, <1>2, <2>1, <2>2, Lines DEF SnapshotRight
<1> QED
  BY <1>1, <1>2, <1>3, <1>4, <1>5, <1>6, FirstOfSix, LateStep

LEMMA GenfsAction == ASSUME ScriptInv, NotBegun, CopyGenfs PROVE ScriptInv'
<1>1. /\ line = "copy genfs" /\ line' = "genfs module" /\ UNCHANGED <<bp, sources, sedAt, pc, at>>
      /\ tree' = [tree EXCEPT !["genfs"] = tree.genfs \cup {NextVer}]
  BY DEF CopyGenfs, Command, vars
<1>2. TreeTyped /\ Edits /\ ModulesRight /\ SnapshotRight /\ sedAt = 1
  BY <1>1 DEF ScriptInv, TreeTyped
<1>3. /\ line \in AfterCts /\ line' \in AfterCts
      /\ Same(AfterFreeze) /\ Same(AfterConfig) /\ Same(AfterSelect) /\ Same(AfterModule)
      /\ Same(AfterTests) /\ Same(AfterSeds)
      /\ (line' \in AfterDist <=> line \in AfterDist)
  BY <1>1
     DEF Same, AfterCts, AfterFreeze, AfterConfig, AfterTool, AfterDist, AfterGenfs, AfterModule,
         AfterSeds, AfterSelect, AfterTests
<1>4. tree'.cts = tree.cts /\ ~Pristine /\ "genfs" \in TreeFields \ {"cts", "snapshot", "dist"}
  BY <1>1, <1>2, <1>3, ListFacts DEF TreeTyped, TreeFields, Edits, CtsEdit, Pristine
<1>5. ModulesRight'
  <2> QED
    BY <1>1, <1>2, <1>3, <1>4, ModulesStay
       DEF AfterCts, AfterFreeze, AfterConfig, AfterTool, AfterDist, AfterGenfs, AfterModule,
           AfterSeds, AfterSelect, AfterTests
<1>6. GenfsEdit'
  <2>1. tree.genfs = 0 .. Target /\ line' \in AfterGenfs
    BY <1>1, <1>2, <1>3 DEF Edits, GenfsEdit, Field,
         AfterCts, AfterFreeze, AfterConfig, AfterTool, AfterDist, AfterGenfs, AfterModule,
           AfterSeds, AfterSelect, AfterTests
  <2>2. tree'.genfs = 0 .. NextVer
    BY <1>1, <1>2, <2>1, OtherFacts DEF TreeTyped, TreeFields
  <2> QED
    BY <1>4, <2>1, <2>2, <1>3 DEF GenfsEdit, Field, Pristine
<1> QED
  BY <1>1, <1>2, <1>3, <1>4, <1>5, <1>6, FirstOfSix, LateStep

LEMMA ModuleAction == ASSUME ScriptInv, NotBegun, AddGenfsModule PROVE ScriptInv'
<1>1. /\ line = "genfs module" /\ line' = "list genfs" /\ UNCHANGED <<bp, sources, sedAt, pc, at>>
      /\ tree' = [tree EXCEPT !["genfsBp"] = [tree.genfsBp EXCEPT ![NextVer] = @ + 1]]
  BY DEF AddGenfsModule, Command, vars
<1>2. TreeTyped /\ Edits /\ ModulesRight /\ SnapshotRight /\ sedAt = 1
  BY <1>1 DEF ScriptInv, TreeTyped
<1>3. /\ line \in AfterCts /\ line' \in AfterCts
      /\ Same(AfterFreeze) /\ Same(AfterConfig) /\ Same(AfterSelect) /\ Same(AfterGenfs)
      /\ Same(AfterTests) /\ Same(AfterSeds)
      /\ (line' \in AfterDist <=> line \in AfterDist)
  BY <1>1
     DEF Same, AfterCts, AfterFreeze, AfterConfig, AfterTool, AfterDist, AfterGenfs, AfterModule,
         AfterSeds, AfterSelect, AfterTests
<1>4. tree'.cts = tree.cts /\ ~Pristine /\ "genfsBp" \in TreeFields \ {"cts", "snapshot", "dist"}
  BY <1>1, <1>2, <1>3, ListFacts DEF TreeTyped, TreeFields, Edits, CtsEdit, Pristine
<1>5. ModulesRight'
  <2> QED
    BY <1>1, <1>2, <1>3, <1>4, ModulesStay
       DEF AfterCts, AfterFreeze, AfterConfig, AfterTool, AfterDist, AfterGenfs, AfterModule,
           AfterSeds, AfterSelect, AfterTests
<1>6. ModuleEdit'
  <2>1. tree.genfsBp = Once(Target) /\ line' \in AfterModule
    BY <1>1, <1>2, <1>3 DEF Edits, ModuleEdit, Field,
         AfterCts, AfterFreeze, AfterConfig, AfterTool, AfterDist, AfterGenfs, AfterModule,
           AfterSeds, AfterSelect, AfterTests
  <2>2. tree'.genfsBp = Once(NextVer)
    BY <1>1, <1>2, <2>1, OnceFacts DEF TreeTyped, TreeFields
  <2> QED
    BY <1>4, <2>1, <2>2, <1>3 DEF ModuleEdit, Field, Pristine
<1> QED
  BY <1>1, <1>2, <1>3, <1>4, <1>5, <1>6, FirstOfSix, LateStep

LEMMA ListAction == ASSUME ScriptInv, NotBegun, ListGenfs PROVE ScriptInv'
<1>1. /\ line = "list genfs" /\ line' = "sed" /\ UNCHANGED <<bp, sources, sedAt, pc, at>>
      /\ \E v : tree' = [tree EXCEPT !["genfsList"] = v]
  BY DEF ListGenfs, Command, vars
<1>2. TreeTyped /\ Edits /\ ModulesRight /\ SnapshotRight /\ sedAt = 1
  BY <1>1 DEF ScriptInv, TreeTyped
<1>3. /\ line \in AfterCts /\ line' \in AfterCts
      /\ Same(AfterFreeze) /\ Same(AfterConfig) /\ Same(AfterSelect) /\ Same(AfterGenfs)
      /\ Same(AfterModule) /\ Same(AfterTests) /\ Same(AfterSeds)
      /\ (line' \in AfterDist <=> line \in AfterDist)
  BY <1>1
     DEF Same, AfterCts, AfterFreeze, AfterConfig, AfterTool, AfterDist, AfterGenfs, AfterModule,
         AfterSeds, AfterSelect, AfterTests
<1>4. tree'.cts = tree.cts /\ ~Pristine /\ "genfsList" \in TreeFields \ {"cts", "snapshot", "dist"}
  BY <1>1, <1>2, <1>3, ListFacts DEF TreeTyped, TreeFields, Edits, CtsEdit, Pristine
<1>5. ModulesRight'
  <2> QED
    BY <1>1, <1>2, <1>3, <1>4, ModulesStay
       DEF AfterCts, AfterFreeze, AfterConfig, AfterTool, AfterDist, AfterGenfs, AfterModule,
           AfterSeds, AfterSelect, AfterTests
<1>6. PICK v : tree' = [tree EXCEPT !["genfsList"] = v]
  BY <1>1
<1> QED
  BY <1>1, <1>2, <1>3, <1>4, <1>5, <1>6, FirstOfSix, LateStep

LEMMA SelectAction == ASSUME ScriptInv, NotBegun, SetSelect PROVE ScriptInv'
<1>1. /\ line = "select" /\ line' = "bpfmt" /\ UNCHANGED <<bp, sources, sedAt, pc, at>>
      /\ tree' = [tree EXCEPT !["select"] = [l \in Lists |-> IF tree.select[l] = Latest THEN Target ELSE tree.select[l]]]
  BY DEF SetSelect, Command, vars
<1>2. TreeTyped /\ Edits /\ ModulesRight /\ SnapshotRight /\ sedAt = 1
  BY <1>1 DEF ScriptInv, TreeTyped
<1>3. /\ line \in AfterCts /\ line' \in AfterCts
      /\ Same(AfterFreeze) /\ Same(AfterConfig) /\ Same(AfterGenfs) /\ Same(AfterModule)
      /\ Same(AfterTests) /\ Same(AfterSeds)
      /\ (line' \in AfterDist <=> line \in AfterDist)
  BY <1>1
     DEF Same, AfterCts, AfterFreeze, AfterConfig, AfterTool, AfterDist, AfterGenfs, AfterModule,
         AfterSeds, AfterSelect, AfterTests
<1>4. tree'.cts = tree.cts /\ ~Pristine /\ "select" \in TreeFields \ {"cts", "snapshot", "dist"}
  BY <1>1, <1>2, <1>3, ListFacts DEF TreeTyped, TreeFields, Edits, CtsEdit, Pristine
<1>5. ModulesRight'
  <2> QED
    BY <1>1, <1>2, <1>3, <1>4, ModulesStay
       DEF AfterCts, AfterFreeze, AfterConfig, AfterTool, AfterDist, AfterGenfs, AfterModule,
           AfterSeds, AfterSelect, AfterTests
<1>6. SelectEdit'
  <2>1. tree.select = AllAt(Latest) /\ line' \in AfterSelect
    BY <1>1, <1>2, <1>3 DEF Edits, SelectEdit, Field,
         AfterCts, AfterFreeze, AfterConfig, AfterTool, AfterDist, AfterGenfs, AfterModule,
           AfterSeds, AfterSelect, AfterTests
  <2>2. tree'.select = AllAt(Target)
    BY <1>1, <1>2, <2>1, OtherFacts DEF TreeTyped, TreeFields
  <2> QED
    BY <1>4, <2>1, <2>2, <1>3 DEF SelectEdit, Field, Pristine
<1> QED
  BY <1>1, <1>2, <1>3, <1>4, <1>5, <1>6, FirstOfSix, LateStep

LEMMA FormatAction == ASSUME ScriptInv, NotBegun, FormatBp PROVE ScriptInv'
<1>1. /\ line = "bpfmt" /\ line' = "tests" /\ UNCHANGED <<bp, sources, sedAt, pc, at>>
      /\ \E v : tree' = [tree EXCEPT !["genfsList"] = v]
  BY DEF FormatBp, Command, vars
<1>2. TreeTyped /\ Edits /\ ModulesRight /\ SnapshotRight /\ sedAt = 1
  BY <1>1 DEF ScriptInv, TreeTyped
<1>3. /\ line \in AfterCts /\ line' \in AfterCts
      /\ Same(AfterFreeze) /\ Same(AfterConfig) /\ Same(AfterSelect) /\ Same(AfterGenfs)
      /\ Same(AfterModule) /\ Same(AfterTests) /\ Same(AfterSeds)
      /\ (line' \in AfterDist <=> line \in AfterDist)
  BY <1>1
     DEF Same, AfterCts, AfterFreeze, AfterConfig, AfterTool, AfterDist, AfterGenfs, AfterModule,
         AfterSeds, AfterSelect, AfterTests
<1>4. tree'.cts = tree.cts /\ ~Pristine /\ "genfsList" \in TreeFields \ {"cts", "snapshot", "dist"}
  BY <1>1, <1>2, <1>3, ListFacts DEF TreeTyped, TreeFields, Edits, CtsEdit, Pristine
<1>5. ModulesRight'
  <2> QED
    BY <1>1, <1>2, <1>3, <1>4, ModulesStay
       DEF AfterCts, AfterFreeze, AfterConfig, AfterTool, AfterDist, AfterGenfs, AfterModule,
           AfterSeds, AfterSelect, AfterTests
<1>6. PICK v : tree' = [tree EXCEPT !["genfsList"] = v]
  BY <1>1
<1> QED
  BY <1>1, <1>2, <1>3, <1>4, <1>5, <1>6, FirstOfSix, LateStep

LEMMA TestsAction == ASSUME ScriptInv, NotBegun, AddTests PROVE ScriptInv'
<1>1. /\ line = "tests" /\ line' = "done" /\ UNCHANGED <<bp, sources, sedAt, pc, at>>
      /\ tree' = [tree EXCEPT !["tests"] = [tree.tests EXCEPT ![Target] = @ + 1]]
  BY DEF AddTests, Command, vars
<1>2. TreeTyped /\ Edits /\ ModulesRight /\ SnapshotRight /\ sedAt = 1
  BY <1>1 DEF ScriptInv, TreeTyped
<1>3. /\ line \in AfterCts /\ line' \in AfterCts
      /\ Same(AfterFreeze) /\ Same(AfterConfig) /\ Same(AfterSelect) /\ Same(AfterGenfs)
      /\ Same(AfterModule) /\ Same(AfterSeds)
      /\ (line' \in AfterDist <=> line \in AfterDist)
  BY <1>1
     DEF Same, AfterCts, AfterFreeze, AfterConfig, AfterTool, AfterDist, AfterGenfs, AfterModule,
         AfterSeds, AfterSelect, AfterTests
<1>4. tree'.cts = tree.cts /\ ~Pristine /\ "tests" \in TreeFields \ {"cts", "snapshot", "dist"}
  BY <1>1, <1>2, <1>3, ListFacts DEF TreeTyped, TreeFields, Edits, CtsEdit, Pristine
<1>5. ModulesRight'
  <2> QED
    BY <1>1, <1>2, <1>3, <1>4, ModulesStay
       DEF AfterCts, AfterFreeze, AfterConfig, AfterTool, AfterDist, AfterGenfs, AfterModule,
           AfterSeds, AfterSelect, AfterTests
<1>6. TestsEdit'
  <2>1. tree.tests = Once(Latest) /\ line' \in AfterTests
    BY <1>1, <1>2, <1>3 DEF Edits, TestsEdit, Field,
         AfterCts, AfterFreeze, AfterConfig, AfterTool, AfterDist, AfterGenfs, AfterModule,
           AfterSeds, AfterSelect, AfterTests
  <2>2. tree'.tests = Once(Target)
    BY <1>1, <1>2, <2>1, OnceFacts DEF TreeTyped, TreeFields
  <2> QED
    BY <1>4, <2>1, <2>2, <1>3 DEF TestsEdit, Field, Pristine
<1> QED
  BY <1>1, <1>2, <1>3, <1>4, <1>5, <1>6, FirstOfSix, LateStep

\* A turn of the loop over the lists.
LEMMA SedAction == ASSUME ScriptInv, NotBegun, AppendToList PROVE ScriptInv'
<1> DEFINE new == [tree.lists EXCEPT ![Seds[sedAt]] = AddedAfter(@, PrevPrev, Latest)]
<1>0. Len(Seds) = 6 /\ \A j, k \in 1 .. 6 : Seds[k] \in Lists /\ (Seds[j] = Seds[k] => j = k)
  BY DEF Seds, Lists
<1>1. /\ line = "sed" /\ UNCHANGED <<bp, sources, pc, at>>
      /\ tree' = [tree EXCEPT !["lists"] = new]
      /\ \/ sedAt < 6 /\ sedAt' = sedAt + 1 /\ line' = "sed"
         \/ ~(sedAt < 6) /\ sedAt' = 1 /\ line' = "select"
  BY <1>0 DEF AppendToList, vars
<1>2. TreeTyped /\ Edits /\ ModulesRight /\ SnapshotRight /\ sedAt \in 1 .. 6
  BY <1>1 DEF ScriptInv, TreeTyped
<1>3. /\ line \in AfterCts /\ line' \in AfterCts /\ line \notin AfterSeds
      /\ (line' \in AfterSeds <=> line' = "select")
      /\ Same(AfterFreeze) /\ Same(AfterConfig) /\ Same(AfterSelect)
      /\ Same(AfterGenfs) /\ Same(AfterModule) /\ Same(AfterTests)
      /\ (line' \in AfterDist <=> line \in AfterDist)
  BY <1>1
     DEF Same, AfterCts, AfterFreeze, AfterConfig, AfterTool, AfterDist, AfterGenfs, AfterModule,
         AfterSeds, AfterSelect, AfterTests
<1>4. tree'.cts = tree.cts /\ ~Pristine /\ "lists" \in TreeFields \ {"cts", "snapshot", "dist"}
  BY <1>1, <1>2, <1>3, ListFacts DEF TreeTyped, TreeFields, Edits, CtsEdit, Pristine
<1>5. ModulesRight'
  BY <1>1, <1>2, <1>3, <1>4, ModulesStay
     DEF AfterCts, AfterFreeze, AfterConfig, AfterTool, AfterDist, AfterGenfs, AfterModule,
         AfterSeds, AfterSelect, AfterTests
<1>6. tree'.lists = new
  BY <1>1, <1>2 DEF TreeTyped, TreeFields
<1>7. ListsEdit'
  <2>1. /\ DOMAIN tree.lists = Lists /\ tree.lists = [l \in Lists |-> tree.lists[l]]
        /\ \A k \in 1 .. 6 : tree.lists[Seds[k]] = IF k < sedAt THEN Upto(Latest) ELSE Upto(PrevPrev)
    BY <1>1, <1>2, <1>3 DEF Edits, ListsEdit, Field
  <2>2. /\ DOMAIN new = Lists /\ new = [l \in Lists |-> new[l]]
        /\ \A l \in Lists : new[l] = IF l = Seds[sedAt] THEN AddedAfter(tree.lists[l], PrevPrev, Latest)
                                     ELSE tree.lists[l]
    BY <2>1
  <2>3. tree.lists[Seds[sedAt]] = Upto(PrevPrev)
    BY <1>2, <2>1
  <2> HIDE DEF new
  <2>4. \A k \in 1 .. 6 : new[Seds[k]] = IF k = sedAt THEN Upto(Latest) ELSE tree.lists[Seds[k]]
    BY <1>0, <1>2, <2>2, <2>3, AddedFacts
  <2>5. ASSUME NEW k \in 1 .. 6
        PROVE  Field(tree.lists[Seds[k]], line \in AfterSeds \/ (line = "sed" /\ k < sedAt),
                     Upto(PrevPrev), Upto(Latest))'
    <3>1. tree'.lists[Seds[k]] = IF k <= sedAt THEN Upto(Latest) ELSE Upto(PrevPrev)
      BY <1>2, <1>6, <2>1, <2>4
    <3>2. line' \in AfterSeds \/ (line' = "sed" /\ k < sedAt') <=> k <= sedAt
      BY <1>1, <1>2, <1>3
    <3> QED
      BY <1>3, <1>4, <3>1, <3>2 DEF Field, Pristine
  <2> QED
    BY <1>6, <2>2, <2>5 DEF ListsEdit
<1>8. (sedAt < 6 => sedAt + 1 \in 1 .. 6)
  BY <1>2
<1> HIDE DEF new
<1>9. sedAt' \in 1 .. 6 /\ (line' # "sed" => sedAt' = 1) /\ sources' = sources
  BY <1>1, <1>8, FirstOfSix
<1> QED
  BY <1>1, <1>3, <1>4, <1>5, <1>7, <1>9, LateStep

\* The tool.
LEMMA GenerateAction == ASSUME ScriptInv, ToolInv, Generate PROVE ScriptInv'
<1>0. Len(FileNames) = 3 /\ Len(ToPatch) = 2 /\ ToPatch[1] = "map" /\ ToPatch[2] = "ignore"
  BY DEF FileNames, ToPatch
<1>1. /\ line = "generate" /\ line' = "generate" /\ UNCHANGED <<sources, tree, sedAt>> /\ ToolStep
  BY DEF Generate, scriptVars
<1>2. TreeTyped /\ Edits /\ ModulesRight /\ SnapshotRight
  BY <1>1 DEF ScriptInv
<1>3. line \in AfterCts /\ line \in AfterConfig /\ line \notin AfterTool
  BY <1>1 DEF AfterCts, AfterFreeze, AfterConfig, AfterTool, AfterDist, AfterGenfs, AfterModule,
              AfterSeds, AfterSelect, AfterTests
<1>4. TreeTyped' /\ SnapshotRight' /\ Edits'
  <2>1. TreeTyped' /\ SnapshotRight'
    BY <1>1, <1>2 DEF TreeTyped, SnapshotRight
  <2>2. Pristine' = Pristine /\ \A S : Same(S)
    BY <1>1, <1>3 DEF Pristine, Same
  <2>3. FreezeEdit' /\ ConfigEdit' /\ SelectEdit' /\ GenfsEdit' /\ ModuleEdit' /\ TestsEdit'
    BY <1>1, <1>2, <2>2, FieldsStay
  <2>4. ListsEdit'
    BY <1>1, <1>2, <2>2, ListsStay
  <2>5. CtsEdit'
    BY <1>1, <1>2, <2>2 DEF Edits, CtsEdit
  <2> QED
    BY <2>1, <2>3, <2>4, <2>5 DEF Edits
<1>5. ~Pristine /\ ~Pristine'
  BY <1>1, <1>2, <1>3, ListFacts DEF Edits, CtsEdit, Pristine
<1>6. ModulesRight'
  <2> SUFFICES /\ bp'.modules \in {0, 1}
               /\ pc' = "create" => bp' = NoModules
               /\ pc' = "patch" => bp' = [modules |-> 1, top |-> {ToPatch[k] : k \in 1 .. at' - 1}]
               /\ pc' \in {"touch", "parse", "map", "write", "done"} => bp' = AllModules
    BY <1>1, <1>3, <1>5 DEF ModulesRight, Pristine
  <2>1. CASE CreateModules
    <3>1. pc = "create" /\ bp' = [bp EXCEPT !.modules = @ + 1] /\ pc' = "patch" /\ at' = at
      BY <2>1 DEF CreateModules
    <3>2. bp = NoModules /\ at = 1
      BY <1>1, <1>2, <3>1 DEF ModulesRight, ToolInv, AtRight
    <3>3. bp' = [modules |-> 1, top |-> {}]
      BY <3>1, <3>2 DEF NoModules
    <3>4. {ToPatch[k] : k \in 1 .. at' - 1} = {}
      BY <3>1, <3>2
    <3>5. bp' = [modules |-> 1, top |-> {ToPatch[k] : k \in 1 .. at' - 1}]
      BY <3>3, <3>4
    <3>6. bp'.modules = 1
      BY <3>3
    <3> QED
      BY <3>1, <3>5, <3>6
  <2>2. CASE PatchTopHalf
    <3>1. /\ pc = "patch" /\ bp' = [bp EXCEPT !.top = @ \cup {ToPatch[at]}]
          /\ \/ at < 2 /\ at' = at + 1 /\ pc' = "patch"
             \/ ~(at < 2) /\ at' = 1 /\ pc' = "touch"
      BY <1>0, <2>2 DEF PatchTopHalf, Advance
    <3>2. bp = [modules |-> 1, top |-> {ToPatch[k] : k \in 1 .. at - 1}] /\ at \in 1 .. 2
      BY <1>1, <1>2, <3>1 DEF ModulesRight, ToolInv, AtRight
    <3>3. bp' = [modules |-> 1, top |-> {ToPatch[k] : k \in 1 .. at - 1} \cup {ToPatch[at]}]
      BY <3>1, <3>2
    <3>4. {ToPatch[k] : k \in 1 .. at - 1} \cup {ToPatch[at]} = {ToPatch[k] : k \in 1 .. at}
      BY <3>2
    <3>5. at = 2 => {ToPatch[k] : k \in 1 .. at} = {"map", "ignore"}
      <4>1. 1 .. 2 = {1, 2}
        OBVIOUS
      <4> QED
        BY <1>0, <4>1
    <3>6. CASE at < 2
      <4>1. at' - 1 = at /\ pc' = "patch"
        BY <3>1, <3>2, <3>6
      <4> QED
        BY <3>3, <3>4, <4>1
    <3>7. CASE ~(at < 2)
      <4>1. at = 2 /\ pc' = "touch"
        BY <3>1, <3>2, <3>7
      <4> QED
        BY <3>3, <3>4, <3>5, <4>1 DEF AllModules
    <3> QED
      BY <3>6, <3>7
  <2>3. CASE Touch \/ Parse \/ MapTypes \/ Reject \/ Write \/ Fail
    <3>1. /\ bp' = bp
          /\ \/ pc' = "failed"
             \/ /\ pc \in {"touch", "parse", "map", "write"}
                /\ pc' \in {"touch", "parse", "map", "write", "done"}
      BY <2>3 DEF Touch, Parse, MapTypes, Reject, Write, Fail, Advance
    <3> QED
      BY <1>1, <1>2, <3>1 DEF ModulesRight
  <2> QED
    BY <1>1, <2>1, <2>2, <2>3 DEF ToolStep
<1> QED
  BY <1>4, <1>6 DEF ScriptInv

LEMMA ReturnsAction == ASSUME ScriptInv, GenerateReturns PROVE ScriptInv'
<1>1. /\ line = "generate" /\ UNCHANGED <<bp, pc, at, sources, tree, sedAt>>
      /\ line' = IF pc = "done" THEN "remove dist" ELSE "failed"
  BY DEF GenerateReturns, vars
<1>2. TreeTyped /\ Edits /\ ModulesRight /\ SnapshotRight /\ sedAt = 1
  BY <1>1 DEF ScriptInv, TreeTyped
<1>3. TreeTyped'
  BY <1>1, <1>2 DEF TreeTyped
<1>4. CASE line' = "failed"
  <2>1. line' \notin AfterBuild /\ line' \notin AfterCts
    BY <1>4, Lines
  <2>2. SnapshotRight'
    BY <1>4, <2>1 DEF SnapshotRight
  <2>3. Edits' /\ ModulesRight'
    BY <1>1, <1>2, <1>4, <2>1, EarlyStep
  <2> QED
    BY <1>3, <2>2, <2>3 DEF ScriptInv
<1>5. CASE line' = "remove dist" /\ pc = "done"
  <2>1. /\ line \in AfterCts /\ line' \in AfterCts /\ line' \in AfterConfig /\ line \in AfterConfig
        /\ Same(AfterFreeze) /\ Same(AfterConfig) /\ Same(AfterSelect) /\ Same(AfterSeds)
        /\ Same(AfterGenfs) /\ Same(AfterModule) /\ Same(AfterTests)
        /\ line' \notin AfterDist /\ line \notin AfterDist
    BY <1>1, <1>5
       DEF Same, AfterCts, AfterFreeze, AfterConfig, AfterTool, AfterDist, AfterGenfs, AfterModule,
           AfterSeds, AfterSelect, AfterTests
  <2>2. FreezeEdit' /\ ConfigEdit' /\ SelectEdit' /\ GenfsEdit' /\ ModuleEdit' /\ TestsEdit'
    BY <1>1, <1>2, <2>1, FieldsStay
  <2>3. ListsEdit'
    BY <1>1, <1>2, <1>5, <2>1, ListsStay
  <2>4. CtsEdit' /\ ~Pristine
    BY <1>1, <1>2, <2>1, Lines, ListFacts DEF Edits, CtsEdit, Pristine
  <2>5. ModulesRight'
    <3>1. bp = AllModules
      BY <1>1, <1>2, <1>5 DEF ModulesRight
    <3> QED
      BY <1>1, <1>5, <2>1, <2>4, <3>1 DEF ModulesRight, AllModules, Pristine
  <2>6. SnapshotRight'
    BY <1>1, <1>2, <2>1, <1>5, Lines DEF SnapshotRight
  <2> QED
    BY <1>3, <2>2, <2>3, <2>4, <2>5, <2>6 DEF ScriptInv, Edits
<1> QED
  BY <1>1, <1>4, <1>5


LEMMA ScriptKeeps ==
  ToolInv /\ NotBegun /\ ScriptInv /\ [ScriptNext]_allVars => ScriptInv'
<1> SUFFICES ASSUME ToolInv, NotBegun, ScriptInv, [ScriptNext]_allVars PROVE ScriptInv'
  OBVIOUS
<1>1. CASE ByHand \/ ToolByHand
  BY <1>1 DEF ByHand, ToolByHand, scriptVars, ScriptInv
<1>2. CASE \/ Start \/ Snapshot \/ WritePrebuiltBp \/ Build \/ CopyDist \/ AddCtsData \/ ScriptFails
           \/ StartAgain
  <2>1. line # "by hand"
    BY <1>2 DEF Start, Snapshot, WritePrebuiltBp, Build, CopyDist, AddCtsData, ScriptFails,
                StartAgain, Command
  <2> QED
    BY <1>2, <2>1, EarlyActions
<1>3. CASE AddToCts \/ SetFreezeTest \/ AddToConfig \/ RemoveDist \/ CopyGenfs \/ AddGenfsModule
           \/ ListGenfs \/ AppendToList \/ SetSelect \/ FormatBp \/ AddTests
  BY <1>3, CtsAction, FreezeAction, ConfigAction, DistAction, GenfsAction, ModuleAction, ListAction,
     SedAction, SelectAction, FormatAction, TestsAction
<1>4. CASE Generate \/ GenerateReturns
  BY <1>4, GenerateAction, ReturnsAction
<1>5. CASE UNCHANGED allVars
  <2>1. UNCHANGED <<bp, pc, at, sources, tree, line, sedAt>>
    BY <1>5 DEF allVars, scriptVars, vars
  <2>2. TreeTyped => TreeTyped'
    BY <2>1 DEF TreeTyped
  <2>3. SnapshotRight => SnapshotRight'
    BY <2>1 DEF SnapshotRight
  <2>4. ModulesRight => ModulesRight'
    BY <2>1 DEF ModulesRight, Pristine, NoModules, AllModules
  <2>5. Edits => Edits'
    BY <2>1 DEF Edits, CtsEdit, FreezeEdit, ConfigEdit, ListsEdit, SelectEdit, GenfsEdit, ModuleEdit,
                TestsEdit, Field, Pristine, AllAt, Once
  <2> QED
    BY <2>1, <2>2, <2>3, <2>4, <2>5 DEF ScriptInv
<1> QED
  BY <1>1, <1>2, <1>3, <1>4, <1>5 DEF ScriptNext

LEMMA ScriptInvariance == ScriptSpec => [](ToolInv /\ NotBegun /\ ScriptInv)
BY ScriptStart, ScriptStartInv, ScriptStep, ScriptKeeps, PTL DEF ScriptSpec

-----------------------------------------------------------------------------
\* A script that succeeds leaves everything as the script for the next version needs it,
\* whatever failed before it.
THEOREM TreeIsInStep == ScriptSpec => []InStep
<1>1. ToolInv /\ ScriptInv => InStep
  <2> SUFFICES ASSUME ToolInv, ScriptInv, line = "done"
               PROVE  /\ \A f \in DOMAIN tree \ {"snapshot", "bp", "dist", "genfsList"} :
                           tree[f] = Released(Target)[f]
                      /\ bp = [modules |-> 1, top |-> {"map", "ignore"}]
                      /\ tree.bp = {"modules", "cts"} /\ tree.dist /\ sources \subseteq tree.snapshot
                      /\ \A f \in DOMAIN files : files[f] # Absent
    BY DEF InStep
  <2>1. TreeTyped /\ Edits /\ ModulesRight /\ SnapshotRight
    BY DEF ScriptInv
  <2>2. /\ line \in AfterCts /\ line \in AfterFreeze /\ line \in AfterConfig /\ line \in AfterTool
        /\ line \in AfterDist /\ line \in AfterGenfs /\ line \in AfterModule /\ line \in AfterSeds
        /\ line \in AfterSelect /\ line \in AfterTests /\ line \in AfterBuild
    BY DEF AfterBuild, AfterCts, AfterFreeze, AfterConfig, AfterTool, AfterDist, AfterGenfs,
           AfterModule, AfterSeds, AfterSelect, AfterTests
  <2>3. /\ tree.cts = Upto(Target) /\ tree.freeze = Target /\ tree.config = Upto(Target)
        /\ tree.select = AllAt(Target) /\ tree.genfs = 0 .. NextVer
        /\ tree.genfsBp = Once(NextVer) /\ tree.tests = Once(Target)
    BY <2>1, <2>2 DEF Edits, CtsEdit, FreezeEdit, ConfigEdit, SelectEdit, GenfsEdit, ModuleEdit,
                      TestsEdit, Field
  <2>4. tree.lists = [l \in Lists |-> Upto(Target - 1)]
    <3>1. \A k \in 1 .. 6 : tree.lists[Seds[k]] = Upto(Latest)
      BY <2>1, <2>2 DEF Edits, ListsEdit, Field
    <3>2. \A l \in Lists : \E k \in 1 .. 6 : l = Seds[k]
      BY DEF Lists, Seds
    <3>3. Latest = Target - 1
      BY VersionFacts
    <3> QED
      BY <2>1, <3>1, <3>2, <3>3 DEF Edits, ListsEdit
  <2>5. /\ Released(Target).cts = Upto(Target) /\ Released(Target).freeze = Target
        /\ Released(Target).config = Upto(Target) /\ Released(Target).select = AllAt(Target)
        /\ Released(Target).lists = [l \in Lists |-> Upto(Target - 1)]
        /\ Released(Target).genfs = 0 .. NextVer
        /\ Released(Target).genfsBp = Once(NextVer) /\ Released(Target).tests = Once(Target)
    BY OtherFacts DEF Released, AllAt, NextVer
  <2>6. ASSUME NEW f \in DOMAIN tree \ {"snapshot", "bp", "dist", "genfsList"}
        PROVE  tree[f] = Released(Target)[f]
    <3>1. f \in {"cts", "freeze", "config", "lists", "select", "genfs", "genfsBp", "tests"}
      BY <2>1 DEF TreeTyped, TreeFields
    <3> QED
      BY <2>3, <2>4, <2>5, <3>1
  <2>7. bp = AllModules /\ pc = "done"
    BY <2>1, <2>2 DEF ModulesRight
  <2>8. tree.bp = {"modules", "cts"} /\ tree.dist /\ sources \subseteq tree.snapshot
    BY <2>1, <2>2 DEF SnapshotRight
  <2>9. ASSUME NEW f \in DOMAIN files PROVE files[f] # Absent
    <3>1. files[f] = Text(f) /\ f \in {"map", "compat", "ignore"} /\ work \in Map
      BY <2>7 DEF ToolInv, Typed, Written, Mapped, NewMapped
    <3>2. \E x : Text(f) = [work EXCEPT !.types = removed] \/ Text(f) = Nothing
                   \/ Text(f) = [types |-> {NewObjectsType}, typeattributes |-> {NewObjects},
                                 attrs |-> {NewObjects}, sets |-> x]
      BY <3>1 DEF Text
    <3>3. DOMAIN Text(f) = {"types", "typeattributes", "attrs", "sets"}
      BY <3>1, <3>2 DEF Map, Nothing
    <3>4. DOMAIN Absent = {"absent"}
      BY DEF Absent
    <3> QED
      BY <3>1, <3>3, <3>4
  <2> QED
    BY <2>6, <2>7, <2>8, <2>9 DEF AllModules
<1> QED
  BY <1>1, ScriptInvariance, PTL

LEMMA MadeOnce ==
  ASSUME Edits, ModulesRight
  PROVE  /\ ~Duplicated
         /\ IsInjective(tree.config) /\ IsInjective(tree.cts)
         /\ \A l \in Lists : IsInjective(tree.lists[l])
<1>1. \A n \in Nat : IsInjective(Upto(n))
  BY DEF IsInjective, Upto
<1>2. ~Duplicated
  <2>1. ~(bp.modules > 1)
    BY DEF ModulesRight
  <2>2. \A n \in Nat, v \in Versions : ~(Once(n)[v] > 1)
    BY DEF Once
  <2>3. /\ tree.genfsBp \in {Once(Target), Once(NextVer)}
        /\ tree.tests \in {Once(Latest), Once(Target)}
    BY DEF Edits, ModuleEdit, TestsEdit, Field
  <2> QED
    BY <2>1, <2>2, <2>3, VersionFacts DEF Duplicated
<1>3. tree.config \in {Upto(Latest), Upto(Target)} /\ tree.cts \in {Upto(Latest), Upto(Target)}
  BY DEF Edits, ConfigEdit, CtsEdit, Field
<1>4. \A l \in Lists : tree.lists[l] \in {Upto(PrevPrev), Upto(Latest)}
  <2>1. \A k \in 1 .. 6 : tree.lists[Seds[k]] \in {Upto(PrevPrev), Upto(Latest)}
    BY DEF Edits, ListsEdit, Field
  <2>2. \A l \in Lists : \E k \in 1 .. 6 : l = Seds[k]
    BY DEF Lists, Seds
  <2> QED
    BY <2>1, <2>2
<1> QED
  BY <1>1, <1>2, <1>3, <1>4, VersionFacts

\* No edit is made twice, however often the script fails and is started again.
THEOREM EditsAreMadeOnce == ScriptSpec => []NothingTwice
<1>1. ScriptInv => NothingTwice
  BY MadeOnce DEF NothingTwice, ScriptInv
<1> QED
  BY <1>1, ScriptInvariance, PTL

=============================================================================
