---------------------------- MODULE CilMapsProofs ---------------------------
(***************************************************************************)
(* CombineMaps: Combine gives the same map for every order of the keys,    *)
(* and it is the map Combined, for all names and all maps; what it does    *)
(* key by key is one step to its callers.                                  *)
(*                                                                         *)
(* CompatChain, where it is that one step: for any number of versions and  *)
(* all histories that are made of files of the form that developers        *)
(* write, right or wrong, a green build is one whose vendor policies, of   *)
(* whatever version, refer to no type that is declared nowhere; and files  *)
(* that are complete for each version are complete for all older ones.     *)
(*                                                                         *)
(* MiniCilParser, with which these files are read: it finds the statements *)
(* of every file, of any length.                                           *)
(***************************************************************************)
EXTENDS CombineMaps, CompatChain, MiniCilParser, FiniteSetTheorems, SequenceTheorems,
        TLAPS

-----------------------------------------------------------------------------
(***************************************************************************)
(* The loop.                                                               *)
(***************************************************************************)
\* One more key brings its types to the attributes that have its base.
LEMMA OneMore ==
  ASSUME NEW A, NEW a, NEW b
  PROVE  Brought(top, given, A \cup {a}, b) =
           Brought(top, given, A, b) \cup
             (IF Carries(top, a) /\ Base(a) \in Types /\ b \in given.attrs /\ Base(a) \in given.sets[b]
              THEN top.sets[a] ELSE {})
BY DEF Brought

LEMMA NoneYet == ASSUME NEW b PROVE Brought(top, given, {}, b) = {}
BY DEF Brought

LEMMA LoopInitInv == LoopInit => LoopInv
<1> SUFFICES ASSUME LoopInit PROVE LoopInv
  OBVIOUS
<1>1. LoopTyped
  BY MapsAreMaps DEF LoopInit, LoopTyped, Map
<1>2. PartialRight
  <2>1. top.attrs \ todo = {}
    BY DEF LoopInit
  <2> QED
    BY <2>1, NoneYet DEF LoopInit, PartialRight
<1>3. NothingLost
  BY DEF LoopInit, NothingLost
<1>4. Declared
  BY DEF LoopInit, Declared
<1> QED
  BY <1>1, <1>2, <1>3, <1>4 DEF LoopInv

LEMMA DeclareStep == LoopInv /\ Declare => LoopInv'
<1> SUFFICES ASSUME LoopInv, Declare PROVE LoopInv'
  OBVIOUS
<1>0. bottom \in Map /\ top \in Map
  BY MapsAreMaps DEF LoopInv, LoopTyped
<1>1. /\ bottom' = [bottom EXCEPT !.types = @ \cup top.types,
                                  !.typeattributes = @ \cup top.typeattributes]
      /\ UNCHANGED <<top, given, r, todo>> /\ pc = "declare" /\ pc' = "map"
  BY DEF Declare
<1>2. /\ bottom'.types = bottom.types \cup top.types
      /\ bottom'.typeattributes = bottom.typeattributes \cup top.typeattributes
      /\ bottom'.attrs = bottom.attrs /\ bottom'.sets = bottom.sets
      /\ bottom' \in Map
  BY <1>0, <1>1 DEF Map
<1>3. LoopTyped'
  BY <1>1, <1>2 DEF LoopInv, LoopTyped
<1>4. PartialRight'
  BY <1>1, <1>2 DEF LoopInv, PartialRight, Brought, Carries
<1>5. NothingLost'
  BY <1>1, <1>2 DEF LoopInv, NothingLost
<1>6. Declared'
  BY <1>1, <1>2 DEF LoopInv, Declared
<1> QED
  BY <1>3, <1>4, <1>5, <1>6 DEF LoopInv

LEMMA MapOneStep == ASSUME LoopInv, NEW a \in todo, MapOne(a) PROVE LoopInv'
<1>0. /\ bottom \in Map /\ given \in Map /\ r = ROf(given) /\ todo \subseteq top.attrs
  BY MapsAreMaps DEF LoopInv, LoopTyped
<1>1. UNCHANGED <<top, given, r, pc>> /\ todo' = todo \ {a} /\ pc = "map"
  BY DEF MapOne
<1> DEFINE Now == top.attrs \ todo
           New(b) == IF Carries(top, a) /\ Base(a) \in Types /\ b \in given.attrs
                        /\ Base(a) \in given.sets[b] THEN top.sets[a] ELSE {}
<1>2. top.attrs \ todo' = Now \cup {a}
  BY <1>0, <1>1
<1>3. \A b \in Attrs : b \in Targets(Base(a)) <=>
        Base(a) \in Types /\ b \in given.attrs /\ Base(a) \in given.sets[b]
  BY <1>0 DEF Targets, ROf
<1>4. /\ bottom' \in Map /\ bottom'.types = bottom.types
      /\ bottom'.typeattributes = bottom.typeattributes /\ bottom'.attrs = bottom.attrs
      /\ \A b \in Attrs : bottom'.sets[b] = bottom.sets[b] \cup New(b)
  <2>1. CASE Carries(top, a)
    <3> DEFINE S == [b \in Attrs |-> IF b \in Targets(Base(a)) THEN bottom.sets[b] \cup top.sets[a]
                                                               ELSE bottom.sets[b]]
    <3>1. bottom' = [bottom EXCEPT !.sets = S]
      BY <2>1 DEF MapOne, Updated
    <3>2. top.sets[a] \subseteq Types
      <4>1. top \in Map /\ a \in Attrs
        BY <1>0, MapsAreMaps DEF LoopInv, LoopTyped, Map
      <4> QED
        BY <4>1 DEF Map
    <3>3. S \in [Attrs -> SUBSET Types]
      BY <1>0, <3>2 DEF Map
    <3> HIDE DEF S
    <3>4. bottom' \in Map /\ bottom'.sets = S /\ bottom'.types = bottom.types
          /\ bottom'.typeattributes = bottom.typeattributes /\ bottom'.attrs = bottom.attrs
      BY <1>0, <3>1, <3>3 DEF Map
    <3>5. \A b \in Attrs : S[b] = bottom.sets[b] \cup New(b)
      BY <1>3, <2>1 DEF S
    <3> QED
      BY <3>4, <3>5
  <2>2. CASE ~Carries(top, a)
    BY <1>0, <2>2 DEF MapOne
  <2> QED
    BY <2>1, <2>2
<1>5. LoopTyped'
  BY <1>0, <1>1, <1>4 DEF LoopInv, LoopTyped
<1>6. PartialRight'
  <2> SUFFICES ASSUME NEW b \in Attrs
               PROVE  bottom'.sets[b] = given.sets[b] \cup Brought(top, given, Now \cup {a}, b)
    BY <1>1, <1>2 DEF PartialRight, Brought, Carries
  <2>1. bottom.sets[b] = given.sets[b] \cup Brought(top, given, Now, b)
    BY DEF LoopInv, PartialRight
  <2>2. Brought(top, given, Now \cup {a}, b) = Brought(top, given, Now, b) \cup New(b)
    BY OneMore
  <2> HIDE DEF Now, New
  <2> QED
    BY <1>4, <2>1, <2>2
<1>7. NothingLost'
  <2> HIDE DEF New
  <2> QED
    BY <1>1, <1>4 DEF LoopInv, NothingLost
<1>8. Declared'
  BY <1>1, <1>4 DEF LoopInv, Declared
<1> QED
  BY <1>5, <1>6, <1>7, <1>8 DEF LoopInv

LEMMA FinishStep == LoopInv /\ (Finish \/ UNCHANGED loopVars) => LoopInv'
<1> SUFFICES ASSUME LoopInv, Finish \/ UNCHANGED loopVars PROVE LoopInv'
  OBVIOUS
<1>1. /\ UNCHANGED <<top, bottom, given, r, todo>>
      /\ (pc' = pc \/ (pc' = "done" /\ todo = {} /\ pc = "map"))
  BY DEF Finish, loopVars
<1>2. LoopTyped'
  BY <1>1 DEF LoopInv, LoopTyped
<1>3. PartialRight' /\ NothingLost'
  BY <1>1 DEF LoopInv, PartialRight, NothingLost, Brought, Carries
<1>4. Declared'
  BY <1>1 DEF LoopInv, Declared
<1> QED
  BY <1>2, <1>3, <1>4 DEF LoopInv

\* The invariant of the loop: the reverse mapping that it reads is that of the
\* map it was given, and each attribute has what the keys so far have brought.
THEOREM LoopInvariant == LoopSpec => []LoopInv
<1>1. LoopInv /\ [LoopNext]_loopVars => LoopInv'
  BY DeclareStep, MapOneStep, FinishStep DEF LoopNext
<1> QED
  BY LoopInitInv, <1>1, PTL DEF LoopSpec

\* When no key is left, the map is Combined.
LEMMA AllMapped ==
  ASSUME LoopInv, pc # "declare", todo = {}
  PROVE  bottom = Combined(top, given)
<1>1. bottom \in Map /\ top.attrs \ todo = top.attrs
  BY DEF LoopInv, LoopTyped, Declared
<1>2. \A b \in Attrs : bottom.sets[b] = given.sets[b] \cup Brought(top, given, top.attrs, b)
  BY <1>1 DEF LoopInv, PartialRight
<1>3. bottom.sets = [b \in Attrs |-> given.sets[b] \cup Brought(top, given, top.attrs, b)]
  BY <1>1, <1>2 DEF Map
<1>4. /\ bottom.types = given.types \cup top.types /\ bottom.attrs = given.attrs
      /\ bottom.typeattributes = given.typeattributes \cup top.typeattributes
  BY DEF LoopInv, Declared
<1> QED
  BY <1>1, <1>3, <1>4 DEF Map, Combined

\* The map that is written is Combined, whatever the order of the keys.
THEOREM OrderDoesNotMatter == LoopSpec => []ResultRight
<1>1. LoopInv => ResultRight
  BY AllMapped DEF ResultRight, LoopInv, Declared
<1> QED
  BY LoopInvariant, <1>1, PTL

\* What bottom maps is never taken away.
THEOREM OldMappingsStay == LoopSpec => []NothingLost
<1>1. LoopInv => NothingLost
  BY DEF LoopInv
<1> QED
  BY LoopInvariant, <1>1, PTL

\* Every turn of the loop is a step that the callers of Combine do not see, and
\* the end of it is the one step of AtomicCombine.
THEOREM OneStep == LoopSpec => IsAtomic
<1>1. LoopInit => Atomic!Init
  BY DEF LoopInit, Atomic!Init, LoopEnded, Result
<1>2. LoopInv /\ [LoopNext]_loopVars => [Atomic!Next]_Atomic!vars
  <2> SUFFICES ASSUME LoopInv, [LoopNext]_loopVars PROVE [Atomic!Next]_Atomic!vars
    OBVIOUS
  <2>1. CASE Declare \/ (\E a \in todo : MapOne(a)) \/ UNCHANGED loopVars
    <3>1. UNCHANGED <<top, given, LoopEnded, Result>>
      BY <2>1 DEF Declare, MapOne, loopVars, LoopEnded, Result
    <3> QED
      BY <3>1 DEF Atomic!vars
  <2>2. CASE Finish
    <3>1. ~LoopEnded /\ LoopEnded' /\ UNCHANGED <<top, given, bottom>>
      BY <2>2 DEF Finish, LoopEnded
    <3>2. bottom = Combined(top, given)
      BY <2>2, AllMapped DEF Finish
    <3> QED
      BY <3>1, <3>2 DEF Result, Atomic!Combine, Atomic!Next, LoopEnded
  <2> QED
    BY <2>1, <2>2 DEF LoopNext
<1> QED
  BY <1>1, <1>2, LoopInvariant, PTL DEF LoopSpec, IsAtomic, Atomic!Spec

-----------------------------------------------------------------------------
(***************************************************************************)
(* The maps of all versions.                                               *)
(***************************************************************************)
\* versions are of the form 33.0, which the pattern of the parser is for
OldVersions == \A t \in Types, v \in Versions : TwoPart(At(t, v))

Typed == /\ hist \in Histories /\ frozen \in BOOLEAN
         /\ map \in [Versions -> Map \cup {None}]
         /\ ignore \in [Versions -> Map \cup {None}]
         /\ verdict \in [1 .. Current -> {"none", "pass", "fail"}]

\* A map that is built has the attributes of its version, the declarations of all
\* newer ones, and only types that were public since.
MapBuilt(v) ==
  map[v] # None =>
    /\ map[v].attrs = hist.plat[v].attrs
    /\ \A w \in v .. Last : ~Skipped(w) => map[w] # None /\ map[w].types \subseteq map[v].types
    /\ \A a \in Attrs : \A x \in map[v].sets[a] : \E w \in v .. Current : x \in hist.pub[w]
\* An ignore map declares none of the public types.
IgnoreBuilt(v) ==
  ignore[v] # None => \A w \in 1 .. Current : ignore[v].types \cap hist.pub[w] = {}
\* A test that has passed was one of the maps that are there.
TestRight(v) ==
  verdict[v] = "pass" =>
    \/ Skipped(v)
    \/ /\ map[v] # None /\ ignore[v] # None
       /\ UnmappedRmTypes(hist.pub[Current], hist.pub[v], Cat(map[v], ignore[v])) = {}
FreezeRight == verdict[Current] = "pass" => hist.pub[Current] = hist.pub[Last]

IInv == /\ Typed /\ FreezeRight
        /\ \A v \in Versions : MapBuilt(v) /\ IgnoreBuilt(v) /\ TestRight(v)

-----------------------------------------------------------------------------
\* What the files of a history are.
LEMMA History ==
  ASSUME Typed
  PROVE  /\ Last \in Nat /\ Current = Last + 1
         /\ hist.pub \in [1 .. Current -> SUBSET Types]
         /\ \A v \in Versions :
              /\ hist.plat[v] \in Map /\ hist.ignore[v] \in Map
              /\ \A a \in Attrs : hist.plat[v].sets[a] \subseteq hist.pub[v] \cup hist.pub[v + 1]
              /\ \A t \in hist.pub[v] : At(t, v) \in hist.plat[v].attrs /\ Base(At(t, v)) = t
              /\ \A w \in 1 .. Current : hist.ignore[v].types \cap hist.pub[w] = {}
BY LastNat, HistoriesAreFiles DEF Typed, Current

\* Combining keeps the keys, adds the declarations of the newer map, and moves its
\* types about.
LEMMA CombinedIs ==
  ASSUME NEW t \in Map, NEW m \in Map
  PROVE  /\ Combined(t, m) \in Map
         /\ Combined(t, m).attrs = m.attrs
         /\ Combined(t, m).types = m.types \cup t.types
         /\ \A a \in Attrs : \A x \in Combined(t, m).sets[a] :
              x \in m.sets[a] \/ \E b \in Attrs : x \in t.sets[b]
<1>1. \A b \in Attrs : \A x \in Brought(t, m, t.attrs, b) :
        \E a \in Attrs : x \in t.sets[a]
  BY DEF Brought, Map
<1>2. \A b \in Attrs : Brought(t, m, t.attrs, b) \subseteq Types
  BY <1>1 DEF Map
<1>3. [b \in Attrs |-> m.sets[b] \cup Brought(t, m, t.attrs, b)]
        \in [Attrs -> SUBSET Types]
  BY <1>2 DEF Map
<1>4. Combined(t, m) \in Map
  BY <1>3 DEF Combined, Map
<1>5. \A a \in Attrs : Combined(t, m).sets[a] =
                         m.sets[a] \cup Brought(t, m, t.attrs, a)
  BY DEF Combined
<1> QED
  BY <1>1, <1>4, <1>5 DEF Combined

\* Only the top of a skipped version is left out.
LEMMA NextTop ==
  ASSUME Last \in Nat, NEW v \in Versions, NEW w \in (v + 1) .. Last, ~Skipped(w)
  PROVE  HasTop(v) /\ v + 1 \in Versions
BY DEF HasTop, Skipped, Versions

LEMMA InitInv == Init => IInv
<1> SUFFICES ASSUME Init PROVE IInv
  OBVIOUS
<1>1. Typed
  BY DEF Init, Typed
<1>2. \A v \in Versions : v \in 1 .. Current
  BY LastNat DEF Versions, Current
<1>3. Current \in 1 .. Current
  BY LastNat DEF Current
<1> QED
  BY <1>1, <1>2, <1>3 DEF Init, IInv, MapBuilt, IgnoreBuilt, TestRight, FreezeRight

\* A map is built on those of the newer versions.
LEMMA MapStep ==
  ASSUME IInv, NEW u \in Versions, BuildMap(u)
  PROVE  IInv'
<1>0. Typed /\ FreezeRight /\ \A v \in Versions : MapBuilt(v) /\ IgnoreBuilt(v) /\ TestRight(v)
  BY DEF IInv
<1>1. /\ ~Skipped(u) /\ map[u] = None /\ TopReady(map, u)
      /\ map' = [map EXCEPT ![u] = Built(map, hist.plat, u)]
      /\ hist' = hist /\ frozen' = frozen /\ ignore' = ignore /\ verdict' = verdict
  BY DEF BuildMap
<1>2. /\ \A v \in Versions : Skipped(v)' = Skipped(v)
      /\ \A v \in Versions \ {u} : map'[v] = map[v]
      /\ map'[u] = Built(map, hist.plat, u)
  BY <1>0, <1>1 DEF Skipped, Typed
<1>3. hist.plat[u] \in Map /\ Last \in Nat /\ Current = Last + 1
  BY <1>0, History
<1>4. /\ u \in u .. Current /\ u + 1 \in u .. Current /\ u \in Nat
      /\ u .. Last = {u} \cup (u + 1) .. Last
  BY <1>3 DEF Versions
<1>5. \A a \in Attrs : \A x \in hist.plat[u].sets[a] : \E w \in u .. Current : x \in hist.pub[w]
  BY <1>0, <1>4, History
<1>6. /\ map'[u] \in Map /\ map'[u].attrs = hist.plat[u].attrs
      /\ \A w \in u .. Last : ~Skipped(w) =>
           w = u \/ (w # u /\ map[w] # None /\ map[w].types \subseteq map'[u].types)
      /\ \A a \in Attrs : \A x \in map'[u].sets[a] : \E w \in u .. Current : x \in hist.pub[w]
  <2>1. CASE ~HasTop(u)
    <3>1. map'[u] = hist.plat[u]
      BY <1>2, <2>1 DEF Built
    <3>2. \A w \in (u + 1) .. Last : Skipped(w)
      BY <1>3, <2>1, NextTop
    <3> QED
      BY <1>3, <1>4, <1>5, <3>1, <3>2
  <2>2. CASE HasTop(u)
    <3>1. u + 1 \in Versions /\ map[u + 1] # None /\ map[u + 1] \in Map
      BY <1>0, <1>1, <1>3, <2>2 DEF HasTop, TopReady, Versions, Typed
    <3>2. map'[u] = Combined(map[u + 1], hist.plat[u])
      BY <1>2, <2>2 DEF Built
    <3>3. /\ map'[u] \in Map /\ map'[u].attrs = hist.plat[u].attrs
          /\ map'[u].types = hist.plat[u].types \cup map[u + 1].types
          /\ \A a \in Attrs : \A x \in map'[u].sets[a] :
               x \in hist.plat[u].sets[a] \/ \E b \in Attrs : x \in map[u + 1].sets[b]
      BY <1>3, <3>1, <3>2, CombinedIs
    <3>4. /\ \A w \in (u + 1) .. Last : ~Skipped(w) =>
               map[w] # None /\ map[w].types \subseteq map[u + 1].types
          /\ \A a \in Attrs : \A x \in map[u + 1].sets[a] :
               \E w \in (u + 1) .. Current : x \in hist.pub[w]
      BY <1>0, <3>1 DEF MapBuilt
    <3>5. (u + 1) .. Current \subseteq u .. Current /\ \A w \in (u + 1) .. Last : w # u
      BY <1>3, <1>4
    <3>6. \A w \in u .. Last : ~Skipped(w) =>
            w = u \/ (w # u /\ map[w] # None /\ map[w].types \subseteq map'[u].types)
      BY <1>4, <3>3, <3>4, <3>5
    <3>7. \A a \in Attrs : \A x \in map'[u].sets[a] : \E w \in u .. Current : x \in hist.pub[w]
      BY <1>5, <3>3, <3>4, <3>5
    <3> QED
      BY <3>3, <3>6, <3>7
  <2> QED
    BY <2>1, <2>2
<1>7. map'[u] # None
  BY <1>6 DEF Map, None
<1>8. Typed'
  BY <1>0, <1>1, <1>6 DEF Typed
<1>9. ASSUME NEW v \in Versions PROVE MapBuilt(v)'
  <2>1. \A w \in v .. Last : w \in Versions
    BY <1>3 DEF Versions
  <2>2. CASE v = u
    <3>1. \A w \in u .. Last : ~Skipped(w)' =>
            map'[w] # None /\ map'[w].types \subseteq map'[u].types
      BY <1>2, <1>6, <1>7, <2>1, <2>2
    <3> QED
      BY <1>1, <1>6, <2>2, <3>1 DEF MapBuilt
  <2>3. CASE v # u
    <3>1. map'[v] = map[v]
      BY <1>2, <2>3
    <3>2. ASSUME map[v] # None, NEW w \in v .. Last, ~Skipped(w)
          PROVE  map'[w] # None /\ map'[w].types \subseteq map[v].types
      <4>1. map[w] # None /\ map[w].types \subseteq map[v].types
        BY <1>0, <3>2 DEF MapBuilt
      <4> QED
        BY <1>1, <1>2, <2>1, <4>1
    <3>3. \A w \in v .. Last : Skipped(w)' = Skipped(w)
      BY <1>2, <2>1
    <3> QED
      BY <1>0, <1>1, <3>1, <3>2, <3>3 DEF MapBuilt
  <2> QED
    BY <2>2, <2>3
<1>10. ASSUME NEW v \in Versions PROVE TestRight(v)'
  <2>1. CASE v = u
    BY <1>0, <1>1, <1>2, <2>1 DEF TestRight
  <2>2. CASE v # u
    BY <1>0, <1>1, <1>2, <2>2 DEF TestRight
  <2> QED
    BY <2>1, <2>2
<1>11. FreezeRight' /\ \A v \in Versions : IgnoreBuilt(v)'
  BY <1>0, <1>1 DEF FreezeRight, IgnoreBuilt
<1> QED
  BY <1>8, <1>9, <1>10, <1>11 DEF IInv

\* An ignore map is built in the same way.
LEMMA IgnoreStep ==
  ASSUME IInv, NEW u \in Versions, BuildIgnore(u)
  PROVE  IInv'
<1>0. Typed /\ FreezeRight /\ \A v \in Versions : MapBuilt(v) /\ IgnoreBuilt(v) /\ TestRight(v)
  BY DEF IInv
<1>1. /\ ignore[u] = None /\ TopReady(ignore, u)
      /\ ignore' = [ignore EXCEPT ![u] = Built(ignore, hist.ignore, u)]
      /\ hist' = hist /\ frozen' = frozen /\ map' = map /\ verdict' = verdict
  BY DEF BuildIgnore
<1>2. /\ \A v \in Versions \ {u} : ignore'[v] = ignore[v]
      /\ ignore'[u] = Built(ignore, hist.ignore, u)
  BY <1>0, <1>1 DEF Typed
<1>3. hist.ignore[u] \in Map /\ Last \in Nat /\ Current = Last + 1
  BY <1>0, History
<1>4. ignore'[u] \in Map /\ \A w \in 1 .. Current : ignore'[u].types \cap hist.pub[w] = {}
  <2>1. CASE ~HasTop(u)
    BY <1>0, <1>2, <1>3, <2>1, History DEF Built
  <2>2. CASE HasTop(u)
    <3>1. u + 1 \in Versions /\ ignore[u + 1] # None /\ ignore[u + 1] \in Map
      <4>1. u + 1 \in Versions
        BY <1>3, <2>2 DEF HasTop, Versions
      <4>2. ignore[u + 1] # None
        BY <1>1, <2>2 DEF TopReady
      <4> QED
        BY <1>0, <4>1, <4>2 DEF Typed
    <3>2. /\ ignore'[u] \in Map
          /\ ignore'[u].types = hist.ignore[u].types \cup ignore[u + 1].types
      BY <1>2, <1>3, <2>2, <3>1, CombinedIs DEF Built
    <3>3. \A w \in 1 .. Current : /\ hist.ignore[u].types \cap hist.pub[w] = {}
                                  /\ ignore[u + 1].types \cap hist.pub[w] = {}
      BY <1>0, <3>1, History DEF IgnoreBuilt
    <3> QED
      BY <3>2, <3>3
  <2> QED
    BY <2>1, <2>2
<1>5. Typed'
  BY <1>0, <1>1, <1>4 DEF Typed
<1>6. ASSUME NEW v \in Versions PROVE IgnoreBuilt(v)'
  BY <1>0, <1>1, <1>2, <1>4 DEF IgnoreBuilt
<1>7. ASSUME NEW v \in Versions PROVE MapBuilt(v)' /\ TestRight(v)'
  <2>1. MapBuilt(v)'
    BY <1>0, <1>1 DEF MapBuilt, Skipped
  <2>0. Skipped(v)' = Skipped(v) /\ map'[v] = map[v] /\ verdict'[v] = verdict[v]
    BY <1>1 DEF Skipped
  <2>2. CASE v = u
    <3>1. verdict[v] = "pass" => Skipped(v)
      BY <1>0, <1>1, <2>2 DEF TestRight
    <3> QED
      BY <2>0, <2>1, <3>1 DEF TestRight
  <2>3. CASE v # u
    <3>1. ignore'[v] = ignore[v]
      BY <1>2, <2>3
    <3> QED
      BY <1>0, <1>1, <2>0, <2>1, <3>1 DEF TestRight
  <2> QED
    BY <2>1, <2>2, <2>3
<1>8. FreezeRight'
  BY <1>0, <1>1 DEF FreezeRight
<1> QED
  BY <1>5, <1>6, <1>7, <1>8 DEF IInv

\* The tests change nothing but their verdicts.
LEMMA VerdictStep ==
  ASSUME IInv, hist' = hist, frozen' = frozen, map' = map, ignore' = ignore
  PROVE  \A v \in Versions : MapBuilt(v)' /\ IgnoreBuilt(v)'
BY DEF IInv, MapBuilt, IgnoreBuilt, Skipped

LEMMA TestStep ==
  ASSUME IInv, NEW u \in Versions, TrebleTest(u)
  PROVE  IInv'
<1>0. Typed /\ FreezeRight /\ \A v \in Versions : TestRight(v)
  BY DEF IInv
<1>1. hist' = hist /\ frozen' = frozen /\ map' = map /\ ignore' = ignore
  BY DEF TrebleTest
<1>2. /\ verdict' \in [1 .. Current -> {"none", "pass", "fail"}]
      /\ \A w \in 1 .. Current : w # u => verdict'[w] = verdict[w]
  BY <1>0 DEF TrebleTest, Typed
<1>3. u \in 1 .. Current /\ Current \in 1 .. Current /\ Current # u
  BY LastNat DEF Versions, Current
<1>4. Typed'
  BY <1>0, <1>1, <1>2 DEF Typed
<1>5. FreezeRight'
  BY <1>0, <1>1, <1>2, <1>3 DEF FreezeRight
<1>6. TestRight(u)'
  BY <1>0, <1>1, <1>3 DEF TestRight, TrebleTest, Typed, Skipped
<1>7. ASSUME NEW v \in Versions, v # u PROVE TestRight(v)'
  <2>1. verdict'[v] = verdict[v]
    BY <1>2, <1>7, LastNat DEF Versions, Current
  <2> QED
    BY <1>0, <1>1, <2>1 DEF TestRight, Skipped
<1> QED
  BY <1>1, <1>4, <1>5, <1>6, <1>7, VerdictStep DEF IInv

LEMMA FreezeStep == ASSUME IInv, FreezeTest PROVE IInv'
<1>0. Typed /\ FreezeRight /\ \A v \in Versions : TestRight(v)
  BY DEF IInv
<1>1. hist' = hist /\ frozen' = frozen /\ map' = map /\ ignore' = ignore
  BY DEF FreezeTest
<1>2. /\ verdict' \in [1 .. Current -> {"none", "pass", "fail"}]
      /\ \A w \in Versions : verdict'[w] = verdict[w]
  BY <1>0, LastNat DEF FreezeTest, Typed, Versions, Current
<1>3. FreezeRight'
  BY <1>0, <1>1, LastNat DEF FreezeRight, FreezeTest, Unchanged, Typed, Current
<1>4. ASSUME NEW v \in Versions PROVE TestRight(v)'
  BY <1>0, <1>1, <1>2 DEF TestRight, Skipped
<1> QED
  BY <1>0, <1>1, <1>2, <1>3, <1>4, VerdictStep DEF IInv, Typed

LEMMA Invariance == Spec => []IInv
<1>1. IInv /\ [Next]_vars => IInv'
  <2> SUFFICES ASSUME IInv, [Next]_vars PROVE IInv'
    OBVIOUS
  <2>1. CASE Next
    BY <2>1, MapStep, IgnoreStep, TestStep, FreezeStep DEF Next
  <2>2. CASE UNCHANGED vars
    BY <2>2 DEF vars, IInv, Typed, FreezeRight, MapBuilt, IgnoreBuilt, TestRight, Skipped
  <2> QED
    BY <2>1, <2>2
<1> QED
  BY InitInv, <1>1, PTL DEF Spec

-----------------------------------------------------------------------------
\* In a green build, a type that a version had and that is gone is declared by the
\* map of that version; of the version that is skipped nothing is gone.
LEMMA GoneIsDeclared ==
  ASSUME OldVersions, IInv, Green, NEW v \in Versions
  PROVE  /\ Skipped(v) => hist.pub[v] = hist.pub[Current]
         /\ ~Skipped(v) => map[v] # None /\ Removed(v) \subseteq map[v].types
<1>0. Typed /\ FreezeRight /\ MapBuilt(v) /\ IgnoreBuilt(v) /\ TestRight(v)
  BY DEF IInv
<1>1. verdict[v] = "pass" /\ (frozen => verdict[Current] = "pass")
  BY DEF Green
<1>2. Skipped(v) => hist.pub[v] = hist.pub[Current]
  BY <1>0, <1>1 DEF Skipped, FreezeRight
<1>3. ASSUME ~Skipped(v) PROVE map[v] # None /\ Removed(v) \subseteq map[v].types
  <2>1. /\ map[v] # None
        /\ UnmappedRmTypes(hist.pub[Current], hist.pub[v], Cat(map[v], ignore[v])) = {}
        /\ ignore[v] # None
    BY <1>0, <1>1, <1>3 DEF TestRight
  <2>2. map[v].attrs = hist.plat[v].attrs
    BY <1>0, <2>1 DEF MapBuilt
  <2>3. v \in 1 .. Current /\ hist.pub[v] \subseteq Types
    BY <1>0, History DEF Versions
  <2>4. ASSUME NEW o \in Removed(v) PROVE o \in map[v].types
    <3>1. o \in hist.pub[v] \ hist.pub[Current] /\ o \in Types
      BY <2>3 DEF Removed
    <3>2. At(o, v) \in map[v].attrs /\ Base(At(o, v)) = o /\ TwoPart(At(o, v))
      BY <1>0, <2>2, <3>1, History DEF OldVersions
    <3>3. o \in PubTypes(Cat(map[v], ignore[v]))
      BY <3>1, <3>2 DEF PubTypes, Cat
    <3>4. o \in map[v].types \cup ignore[v].types
      BY <2>1, <3>1, <3>3 DEF UnmappedRmTypes, Cat
    <3>5. o \notin ignore[v].types
      BY <1>0, <2>1, <2>3, <3>1 DEF IgnoreBuilt
    <3> QED
      BY <3>4, <3>5
  <2> QED
    BY <2>1, <2>4
<1> QED
  BY <1>2, <1>3

\* In a green build a vendor policy of any version, with the map of its version,
\* refers to no type that is declared nowhere - as long as versions are such as the
\* pattern of the parser is for.
THEOREM TypesAreDeclared == ASSUME OldVersions PROVE Spec => []TypesDeclared
<1>1. IInv => TypesDeclared
  <2> SUFFICES ASSUME IInv, Green PROVE RemovedDeclared /\ MembersDeclared
    BY DEF TypesDeclared, RemovedDeclared, MembersDeclared
  <2>1. RemovedDeclared
    BY GoneIsDeclared DEF RemovedDeclared, Removed
  <2>2. ASSUME NEW v \in Versions, ~Skipped(v), NEW a \in Attrs, NEW x \in map[v].sets[a]
        PROVE  x \in hist.pub[Current] \cup map[v].types
    <3>1. MapBuilt(v) /\ map[v] # None
      BY <2>2, GoneIsDeclared DEF IInv
    <3>2. PICK w \in v .. Current : x \in hist.pub[w]
      BY <3>1 DEF MapBuilt
    <3>3. CASE w = Current
      BY <3>2, <3>3
    <3>4. CASE w # Current
      <4>1. w \in Versions /\ w \in v .. Last
        BY <3>4, LastNat DEF Versions, Current
      <4>2. ~Skipped(w) => map[w].types \subseteq map[v].types
        BY <3>1, <4>1 DEF MapBuilt
      <4>3. /\ Skipped(w) => hist.pub[w] = hist.pub[Current]
            /\ ~Skipped(w) => Removed(w) \subseteq map[w].types
        BY <4>1, GoneIsDeclared
      <4> QED
        BY <3>2, <4>2, <4>3 DEF Removed
    <3> QED
      BY <3>3, <3>4
  <2>3. MembersDeclared
    BY <2>2 DEF MembersDeclared
  <2> QED
    BY <2>1, <2>3
<1> QED
  BY Invariance, <1>1, PTL

-----------------------------------------------------------------------------
(***************************************************************************)
(* Nothing is left to be added to the files of older versions: with files  *)
(* that are complete for themselves, every test passes.                    *)
(***************************************************************************)
\* Each map is what its file and the map above it combine to, for good, and each verdict
\* is that of the test on them.
MapExact(v)    == map[v] # None => TopReady(map, v) /\ map[v] = Built(map, hist.plat, v)
IgnoreExact(v) == ignore[v] # None =>
                    TopReady(ignore, v) /\ ignore[v] = Built(ignore, hist.ignore, v)
Passes(v) == LET m == Cat(map[v], ignore[v])
             IN  /\ UnmappedNewTypes(hist.pub[Current], hist.pub[v], m) = {}
                 /\ UnmappedRmTypes(hist.pub[Current], hist.pub[v], m) = {}
TestExact(v)   == verdict[v] # "none" =>
                    \/ verdict[v] = "pass"
                    \/ ~Skipped(v) /\ map[v] # None /\ ignore[v] # None /\ ~Passes(v)
FreezeExact    == verdict[Current] # "none" =>
                    verdict[Current] = "pass" \/ hist.pub[Current] # hist.pub[Last]
Exact == /\ FreezeExact
         /\ \A v \in Versions : MapExact(v) /\ IgnoreExact(v) /\ TestExact(v)

LEMMA ExactInit == Init => Exact
<1> SUFFICES ASSUME Init PROVE Exact
  OBVIOUS
<1>1. \A v \in Versions : v \in 1 .. Current
  BY LastNat DEF Versions, Current
<1>2. Current \in 1 .. Current
  BY LastNat DEF Current
<1> QED
  BY <1>1, <1>2 DEF Init, Exact, MapExact, IgnoreExact, TestExact, FreezeExact

\* What is built is not built again, so what was built from it stays what it is.
LEMMA ExactMap ==
  ASSUME IInv, Exact, NEW u \in Versions, BuildMap(u)
  PROVE  Exact'
<1>0. Typed /\ \A v \in Versions : MapExact(v) /\ IgnoreExact(v) /\ TestExact(v)
  BY DEF IInv, Exact
<1>1. /\ map[u] = None /\ TopReady(map, u)
      /\ map' = [map EXCEPT ![u] = Built(map, hist.plat, u)]
      /\ hist' = hist /\ frozen' = frozen /\ ignore' = ignore /\ verdict' = verdict
  BY DEF BuildMap
<1>2. /\ \A v \in Versions : Skipped(v)' = Skipped(v) /\ HasTop(v)' = HasTop(v)
      /\ \A v \in Versions \ {u} : map'[v] = map[v]
      /\ map'[u] = Built(map, hist.plat, u)
  BY <1>0, <1>1 DEF Skipped, HasTop, Typed
<1>3. \A v \in Versions : HasTop(v) => v + 1 \in Versions /\ v + 1 # v
  BY LastNat DEF HasTop, Versions
<1>4. ASSUME NEW v \in Versions PROVE MapExact(v)'
  <2>1. CASE v = u
    <3>1. HasTop(u) => map'[u + 1] = map[u + 1]
      BY <1>2, <1>3
    <3> QED
      BY <1>1, <1>2, <2>1, <3>1 DEF MapExact, TopReady, Built
  <2>2. CASE v # u
    <3>1. map'[v] = map[v]
      BY <1>2, <2>2
    <3>2. ASSUME map[v] # None, HasTop(v) PROVE map[v + 1] # None /\ map'[v + 1] = map[v + 1]
      <4>1. map[v + 1] # None
        BY <1>0, <3>2 DEF MapExact, TopReady
      <4> QED
        BY <1>1, <1>2, <1>3, <3>2, <4>1
    <3>3. map[v] # None => TopReady(map, v) /\ map[v] = Built(map, hist.plat, v)
      BY <1>0 DEF MapExact
    <3> QED
      BY <1>1, <1>2, <3>1, <3>2, <3>3 DEF MapExact, TopReady, Built
  <2> QED
    BY <2>1, <2>2
<1>5. ASSUME NEW v \in Versions PROVE TestExact(v)'
  <2>1. CASE v = u
    BY <1>0, <1>1, <2>1 DEF TestExact
  <2>2. CASE v # u
    BY <1>0, <1>1, <1>2, <2>2 DEF TestExact, Passes
  <2> QED
    BY <2>1, <2>2
<1>6. FreezeExact' /\ \A v \in Versions : IgnoreExact(v)'
  BY <1>1, <1>2 DEF Exact, FreezeExact, IgnoreExact, TopReady, Built
<1> QED
  BY <1>4, <1>5, <1>6 DEF Exact

LEMMA ExactIgnore ==
  ASSUME IInv, Exact, NEW u \in Versions, BuildIgnore(u)
  PROVE  Exact'
<1>0. Typed /\ \A v \in Versions : MapExact(v) /\ IgnoreExact(v) /\ TestExact(v)
  BY DEF IInv, Exact
<1>1. /\ ignore[u] = None /\ TopReady(ignore, u)
      /\ ignore' = [ignore EXCEPT ![u] = Built(ignore, hist.ignore, u)]
      /\ hist' = hist /\ frozen' = frozen /\ map' = map /\ verdict' = verdict
  BY DEF BuildIgnore
<1>2. /\ \A v \in Versions : Skipped(v)' = Skipped(v) /\ HasTop(v)' = HasTop(v)
      /\ \A v \in Versions \ {u} : ignore'[v] = ignore[v]
      /\ ignore'[u] = Built(ignore, hist.ignore, u)
  BY <1>0, <1>1 DEF Skipped, HasTop, Typed
<1>3. \A v \in Versions : HasTop(v) => v + 1 \in Versions /\ v + 1 # v
  BY LastNat DEF HasTop, Versions
<1>4. ASSUME NEW v \in Versions PROVE IgnoreExact(v)'
  <2>1. CASE v = u
    <3>1. HasTop(u) => ignore'[u + 1] = ignore[u + 1]
      BY <1>2, <1>3
    <3> QED
      BY <1>1, <1>2, <2>1, <3>1 DEF IgnoreExact, TopReady, Built
  <2>2. CASE v # u
    <3>1. ignore'[v] = ignore[v]
      BY <1>2, <2>2
    <3>2. ASSUME ignore[v] # None, HasTop(v)
          PROVE  ignore[v + 1] # None /\ ignore'[v + 1] = ignore[v + 1]
      <4>1. ignore[v + 1] # None
        BY <1>0, <3>2 DEF IgnoreExact, TopReady
      <4> QED
        BY <1>1, <1>2, <1>3, <3>2, <4>1
    <3>3. ignore[v] # None => TopReady(ignore, v) /\ ignore[v] = Built(ignore, hist.ignore, v)
      BY <1>0 DEF IgnoreExact
    <3> QED
      BY <1>1, <1>2, <3>1, <3>2, <3>3 DEF IgnoreExact, TopReady, Built
  <2> QED
    BY <2>1, <2>2
<1>5. ASSUME NEW v \in Versions PROVE TestExact(v)'
  <2>1. CASE v = u
    BY <1>0, <1>1, <2>1 DEF TestExact
  <2>2. CASE v # u
    BY <1>0, <1>1, <1>2, <2>2 DEF TestExact, Passes
  <2> QED
    BY <2>1, <2>2
<1>6. FreezeExact' /\ \A v \in Versions : MapExact(v)'
  BY <1>1, <1>2 DEF Exact, FreezeExact, MapExact, TopReady, Built
<1> QED
  BY <1>4, <1>5, <1>6 DEF Exact

LEMMA ExactTests ==
  ASSUME IInv, Exact, FreezeTest \/ \E u \in Versions : TrebleTest(u)
  PROVE  Exact'
<1>0. Typed /\ FreezeExact /\ \A v \in Versions : MapExact(v) /\ IgnoreExact(v) /\ TestExact(v)
  BY DEF IInv, Exact
<1>1. hist' = hist /\ frozen' = frozen /\ map' = map /\ ignore' = ignore
  BY DEF TrebleTest, FreezeTest
<1>2. Last \in Nat /\ Current = Last + 1 /\ \A v \in Versions : v \in 1 .. Current /\ v # Current
  BY LastNat DEF Versions, Current
<1>3. ASSUME NEW v \in Versions PROVE MapExact(v)' /\ IgnoreExact(v)'
  BY <1>0, <1>1 DEF MapExact, IgnoreExact, TopReady, Built, HasTop, Skipped
<1>4. CASE FreezeTest
  <2>1. \A v \in Versions : verdict'[v] = verdict[v]
    BY <1>0, <1>2, <1>4 DEF FreezeTest, Typed
  <2>2. \A v \in Versions : TestExact(v)'
    BY <1>0, <1>1, <2>1 DEF TestExact, Passes, Skipped
  <2>3. FreezeExact'
    BY <1>0, <1>1, <1>2, <1>4 DEF FreezeTest, FreezeExact, Unchanged, Typed
  <2> QED
    BY <1>3, <2>2, <2>3 DEF Exact
<1>5. ASSUME NEW u \in Versions, TrebleTest(u) PROVE Exact'
  <2>1. \A v \in 1 .. Current : v # u => verdict'[v] = verdict[v]
    BY <1>0, <1>2, <1>5 DEF TrebleTest, Typed
  <2>2. ASSUME NEW v \in Versions, v # u PROVE TestExact(v)'
    BY <1>0, <1>1, <1>2, <2>1, <2>2 DEF TestExact, Passes, Skipped
  <2>3. TestExact(u)'
    <3>1. \/ verdict'[u] = "pass"
          \/ ~Skipped(u) /\ map[u] # None /\ ignore[u] # None /\ ~Passes(u)
      BY <1>0, <1>2, <1>5 DEF TrebleTest, Typed, Passes
    <3> QED
      BY <1>1, <3>1 DEF TestExact, Passes, Skipped
  <2>4. FreezeExact'
    BY <1>0, <1>1, <1>2, <2>1 DEF FreezeExact
  <2> QED
    BY <1>3, <2>2, <2>3, <2>4 DEF Exact
<1> QED
  BY <1>4, <1>5

LEMMA ExactInvariance == Spec => [](IInv /\ Exact)
<1>1. IInv /\ Exact /\ [Next]_vars => Exact'
  <2> SUFFICES ASSUME IInv, Exact, [Next]_vars PROVE Exact'
    OBVIOUS
  <2>1. CASE Next
    BY <2>1, ExactMap, ExactIgnore, ExactTests DEF Next
  <2>2. CASE UNCHANGED vars
    BY <2>2 DEF vars, Exact, MapExact, IgnoreExact, TestExact, FreezeExact, TopReady, Built, HasTop,
                Skipped, Passes
  <2> QED
    BY <2>1, <2>2
<1> QED
  BY Invariance, ExactInit, <1>1, PTL DEF Spec


-----------------------------------------------------------------------------
\* From a version to the one before it.
LEMMA LeastNat ==
  ASSUME NEW T, T \in SUBSET Nat, T # {}
  PROVE  \E x \in T : \A y \in T : x <= y
<1> DEFINE F == {1 .. x : x \in T}
<1>1. \A x \in T : 1 .. x \in FiniteSubsetsOf(Nat)
  BY FS_Interval DEF FiniteSubsetsOf
<1>2. F \subseteq FiniteSubsetsOf(Nat) /\ F # {}
  BY <1>1
<1>3. PICK f \in F : \A g \in F : ~(<<g, f>> \in StrictSubsetOrdering(Nat))
  BY <1>2, FS_StrictSubsetOrderingWellFounded, WFMin
<1>4. PICK x \in T : f = 1 .. x
  BY <1>3
<1>5. ASSUME NEW y \in T, ~(x <= y) PROVE FALSE
  <2>1. 1 .. y \in F /\ 1 .. y \in SUBSET Nat /\ 1 .. x \in SUBSET Nat
    OBVIOUS
  <2>2. x \in 1 .. x /\ x \notin 1 .. y /\ 1 .. y \subseteq 1 .. x
    BY <1>5
  <2> QED
    BY <1>3, <1>4, <2>1, <2>2 DEF StrictSubsetOrdering
<1> QED
  BY <1>5

LEMMA Downward ==
  ASSUME NEW newest \in Nat, NEW S, S \subseteq 1 .. newest, newest \notin S,
         \A v \in 1 .. newest : v # newest /\ v + 1 \notin S => v \notin S
  PROVE  S = {}
<1> SUFFICES ASSUME S # {} PROVE FALSE
  OBVIOUS
<1> DEFINE T == {newest - v : v \in S}
<1>1. T \in SUBSET Nat /\ T # {}
  <2>1. \A v \in S : v \in 1 .. newest /\ newest - v \in Nat
    OBVIOUS
  <2>2. PICK v \in S : TRUE
    OBVIOUS
  <2>3. newest - v \in T
    BY <2>2
  <2> QED
    BY <2>1, <2>3
<1>2. PICK x \in T : \A y \in T : x <= y
  BY <1>1, LeastNat, Zenon
<1>3. PICK v \in S : x = newest - v
  BY <1>2
<1>4. v \in 1 .. newest /\ v # newest
  OBVIOUS
<1>5. v + 1 \notin S
  <2> SUFFICES ASSUME v + 1 \in S PROVE FALSE
    OBVIOUS
  <2>1. newest - (v + 1) \in T
    OBVIOUS
  <2>2. x <= newest - (v + 1)
    BY <1>2, <2>1
  <2> QED
    BY <1>3, <1>4, <2>2
<1> QED
  BY <1>4, <1>5

\* The newest version that modules are built for.
Top == IF frozen THEN Last - 1 ELSE Last

LEMMA TopFacts ==
  ASSUME Typed, NEW u \in Versions, ~Skipped(u)
  PROVE  /\ Top \in Nat /\ u \in 1 .. Top /\ Top + 1 \in 1 .. Current
         /\ \A w \in 1 .. Top : w \in Versions /\ w \in 1 .. Current /\ w + 1 \in 1 .. Current
         /\ \A w \in 1 .. Top : HasTop(w) <=> w # Top
         /\ \A w \in 1 .. Top : w # Top => w + 1 \in 1 .. Top
         /\ (frozen => hist.pub[Last] = hist.pub[Current]) => hist.pub[Top + 1] = hist.pub[Current]
<1>1. Last \in Nat /\ Current = Last + 1 /\ Versions = 1 .. Last /\ frozen \in BOOLEAN
  BY LastNat DEF Versions, Current, Typed
<1>2. CASE frozen
  <2>1. Top = Last - 1 /\ u # Last
    BY <1>2 DEF Top, Skipped
  <2>2. Last - 1 + 1 = Last
    BY <1>1
  <2> QED
    BY <1>1, <1>2, <2>1, <2>2 DEF HasTop, Skipped
<1>3. CASE ~frozen
  <2>1. Top = Last
    BY <1>3 DEF Top
  <2> QED
    BY <1>1, <1>3, <2>1 DEF HasTop, Skipped
<1> QED
  BY <1>2, <1>3

LEMMA FilesAre ==
  ASSUME Typed, NEW v \in Versions
  PROVE  /\ hist.plat[v] \in Map /\ hist.ignore[v] \in Map
         /\ hist.pub[v] \subseteq Types
         /\ \A t \in hist.pub[v] : At(t, v) \in hist.plat[v].attrs /\ Base(At(t, v)) = t
         /\ \A a \in hist.plat[v].attrs : \E t \in hist.pub[v] : a = At(t, v)
         /\ NewObjects \in hist.ignore[v].attrs
         /\ Base(NewObjects) \in hist.ignore[v].sets[NewObjects]
         /\ \A w \in 1 .. Current : Base(NewObjects) \notin hist.pub[w]
<1>1. v \in 1 .. Current
  BY LastNat DEF Versions, Current
<1>2. /\ hist.plat[v] \in Map /\ hist.ignore[v] \in Map
      /\ \A t \in hist.pub[v] : At(t, v) \in hist.plat[v].attrs /\ Base(At(t, v)) = t
      /\ \A a \in hist.plat[v].attrs : \E t \in hist.pub[v] : a = At(t, v)
      /\ NewObjects \in hist.ignore[v].attrs
      /\ Base(NewObjects) \in hist.ignore[v].sets[NewObjects] \cap hist.ignore[v].types
      /\ \A w \in 1 .. Current : hist.ignore[v].types \cap hist.pub[w] = {}
  BY HistoriesAreFiles DEF Typed
<1>3. hist.pub[v] \subseteq Types
  BY <1>1, History
<1> QED
  BY <1>2, <1>3

\* A set of two different types is carried down, to every attribute with the base.
LEMMA CombinedBrings ==
  ASSUME NEW t \in Map, NEW m \in Map, NEW a \in t.attrs, NEW x \in t.sets[a], NEW y \in t.sets[a],
         x # y, NEW b \in m.attrs, Base(a) \in m.sets[b]
  PROVE  x \in Combined(t, m).sets[b]
<1>1. a \in Attrs /\ b \in Attrs /\ t.sets[a] \in SUBSET Types /\ m.sets[b] \in SUBSET Types
  BY DEF Map
<1>2. IsFiniteSet(t.sets[a])
  BY <1>1, FiniteTypes, FS_Subset
<1>3. Carries(t, a)
  <2> SUFFICES ASSUME Cardinality(t.sets[a]) = 1 PROVE FALSE
    BY DEF Carries
  <2>1. PICK z : t.sets[a] = {z}
    BY <1>2, FS_Singleton
  <2> QED
    BY <2>1
<1>4. x \in Brought(t, m, t.attrs, b)
  BY <1>1, <1>3 DEF Brought
<1> QED
  BY <1>1, <1>4 DEF Combined

LEMMA CombinedGrows ==
  ASSUME NEW t, NEW m, NEW b \in Attrs
  PROVE  m.sets[b] \subseteq Combined(t, m).sets[b]
BY DEF Combined

\* What a map that is built is made of.
LEMMA MapIs ==
  ASSUME IInv, Exact, NEW v \in Versions, map[v] # None, HasTop(v) => v + 1 \in Versions
  PROVE  /\ ~HasTop(v) => map[v] = hist.plat[v]
         /\ HasTop(v) => /\ map[v + 1] # None /\ map[v + 1] \in Map
                         /\ map[v] = Combined(map[v + 1], hist.plat[v])
         /\ map[v] \in Map /\ map[v].attrs = hist.plat[v].attrs
         /\ \A b \in Attrs : hist.plat[v].sets[b] \subseteq map[v].sets[b]
         /\ hist.plat[v].types \subseteq map[v].types
<1>1. Typed /\ MapExact(v) /\ MapBuilt(v)
  BY DEF IInv, Exact
<1>2. map[v] = Built(map, hist.plat, v) /\ (HasTop(v) => map[v + 1] # None)
  BY <1>1 DEF MapExact, TopReady
<1>3. /\ HasTop(v) => map[v + 1] \in Map
      /\ map[v] \in Map /\ map[v].attrs = hist.plat[v].attrs
  BY <1>1, <1>2 DEF Typed, MapBuilt
<1>4. CASE ~HasTop(v)
  BY <1>2, <1>3, <1>4 DEF Built
<1>5. CASE HasTop(v)
  <2>1. map[v] = Combined(map[v + 1], hist.plat[v])
    BY <1>2, <1>5 DEF Built
  <2>2. hist.plat[v].types \subseteq map[v].types
    BY <2>1 DEF Combined
  <2> QED
    BY <1>2, <1>3, <1>5, <2>1, <2>2, CombinedGrows
<1> QED
  BY <1>4, <1>5

LEMMA IgnoreIs ==
  ASSUME IInv, Exact, NEW v \in Versions, ignore[v] # None, HasTop(v) => v + 1 \in Versions
  PROVE  /\ ~HasTop(v) => ignore[v] = hist.ignore[v]
         /\ HasTop(v) => /\ ignore[v + 1] # None /\ ignore[v + 1] \in Map
                         /\ ignore[v] = Combined(ignore[v + 1], hist.ignore[v])
         /\ ignore[v] \in Map /\ ignore[v].attrs = hist.ignore[v].attrs
         /\ \A b \in Attrs : hist.ignore[v].sets[b] \subseteq ignore[v].sets[b]
<1>1. Typed /\ IgnoreExact(v)
  BY DEF IInv, Exact
<1>2. ignore[v] = Built(ignore, hist.ignore, v) /\ (HasTop(v) => ignore[v + 1] # None)
  BY <1>1 DEF IgnoreExact, TopReady
<1>3. (HasTop(v) => ignore[v + 1] \in Map) /\ ignore[v] \in Map
  BY <1>1, <1>2 DEF Typed
<1>4. CASE ~HasTop(v)
  BY <1>2, <1>3, <1>4 DEF Built
<1>5. CASE HasTop(v)
  <2>1. ignore[v] = Combined(ignore[v + 1], hist.ignore[v])
    BY <1>2, <1>5 DEF Built
  <2>2. ignore[v].attrs = hist.ignore[v].attrs
    BY <2>1 DEF Combined
  <2> QED
    BY <1>2, <1>3, <1>5, <2>1, <2>2, CombinedGrows
<1> QED
  BY <1>4, <1>5


-----------------------------------------------------------------------------
\* What is gone is declared: by the file of the version where it went, and from there on
\* down.
LEMMA GoneDeclared ==
  ASSUME IInv, Exact, Complete, frozen => hist.pub[Last] = hist.pub[Current],
         NEW v \in Versions, ~Skipped(v), map[v] # None
  PROVE  hist.pub[v] \ hist.pub[Current] \subseteq map[v].types
<1>0. Typed
  BY DEF IInv
<1>1. /\ Top \in Nat /\ v \in 1 .. Top
      /\ \A w \in 1 .. Top : w \in Versions
      /\ \A w \in 1 .. Top : HasTop(w) <=> w # Top
      /\ \A w \in 1 .. Top : w # Top => w + 1 \in 1 .. Top
      /\ hist.pub[Top + 1] = hist.pub[Current]
  BY <1>0, TopFacts
<1>2. ASSUME NEW o \in hist.pub[v] \ hist.pub[Current]
      PROVE  o \in map[v].types
  <2> DEFINE S == {w \in 1 .. Top : map[w] # None /\ o \in hist.pub[w] /\ o \notin map[w].types}
  <2>1. \A w \in 1 .. Top : map[w] # None /\ o \in hist.pub[w] \ hist.pub[w + 1] => o \in map[w].types
    <3> SUFFICES ASSUME NEW w \in 1 .. Top, map[w] # None, o \in hist.pub[w] \ hist.pub[w + 1]
                 PROVE  o \in map[w].types
      OBVIOUS
    <3>1. w \in Versions /\ (HasTop(w) => w + 1 \in Versions)
      BY <1>1
    <3>2. o \in hist.plat[w].types
      BY <3>1 DEF Complete
    <3> QED
      BY <3>1, <3>2, MapIs
  <2>2. Top \notin S
    BY <1>1, <2>1
  <2>3. ASSUME NEW w \in 1 .. Top, w # Top, w + 1 \notin S PROVE w \notin S
    <3> SUFFICES ASSUME map[w] # None, o \in hist.pub[w] PROVE o \in map[w].types
      OBVIOUS
    <3>1. w \in Versions /\ HasTop(w) /\ w + 1 \in Versions /\ w + 1 \in 1 .. Top
      BY <1>1, <2>3
    <3>2. map[w + 1] # None /\ map[w] = Combined(map[w + 1], hist.plat[w])
      BY <3>1, MapIs
    <3>3. map[w + 1].types \subseteq map[w].types
      BY <3>2 DEF Combined
    <3>4. o \in hist.pub[w + 1] => o \in map[w + 1].types
      BY <2>3, <3>1, <3>2
    <3> QED
      BY <2>1, <3>3, <3>4
  <2>4. S = {}
    <3>1. S \subseteq 1 .. Top
      OBVIOUS
    <3> HIDE DEF S
    <3> QED
      BY <1>1, <2>2, <2>3, <3>1, Downward
  <2> QED
    BY <1>1, <2>4
<1> QED
  BY <1>2

\* To a type that an older version ignores nothing is mapped, in no combined map either.
LEMMA AloneStays ==
  ASSUME IInv, Exact, Complete,
         NEW u \in Versions, ~Skipped(u), NEW n \in Ignored(u),
         NEW v \in 1 .. Top, v > u, map[v] # None, n \in hist.pub[v]
  PROVE  map[v].sets[At(n, v)] \subseteq {n}
<1>0. Typed
  BY DEF IInv
<1>1. /\ Top \in Nat
      /\ \A w \in 1 .. Top : w \in Versions
      /\ \A w \in 1 .. Top : HasTop(w) <=> w # Top
      /\ \A w \in 1 .. Top : w # Top => w + 1 \in 1 .. Top
  BY <1>0, TopFacts
<1> DEFINE S == {w \in 1 .. Top : w > u /\ map[w] # None /\ n \in hist.pub[w]
                                   /\ ~(map[w].sets[At(n, w)] \subseteq {n})}
<1>2. ASSUME NEW w \in 1 .. Top, w > u, n \in hist.pub[w]
      PROVE  /\ w \in Versions /\ hist.plat[w].sets[At(n, w)] \subseteq {n}
             /\ At(n, w) \in Attrs /\ Base(At(n, w)) = n
  <2>1. w \in Versions
    BY <1>1
  <2>2. w \in (u + 1) .. Last
    BY <1>2, <2>1, LastNat DEF Versions
  <2>3. hist.plat[w].sets[At(n, w)] \subseteq {n}
    BY <1>2, <2>2 DEF Complete
  <2>4. At(n, w) \in Attrs /\ Base(At(n, w)) = n
    BY <1>0, <1>2, <2>1, FilesAre DEF Map
  <2> QED
    BY <2>1, <2>3, <2>4
<1>3. Top \notin S
  <2> SUFFICES ASSUME Top \in S PROVE FALSE
    OBVIOUS
  <2>1. Top \in 1 .. Top /\ Top > u /\ n \in hist.pub[Top] /\ map[Top] # None
    OBVIOUS
  <2>2. ~HasTop(Top) /\ Top \in Versions
    BY <1>1, <2>1
  <2>3. map[Top] = hist.plat[Top]
    BY <2>1, <2>2, MapIs
  <2> QED
    BY <1>2, <2>1, <2>3
<1>4. ASSUME NEW w \in 1 .. Top, w # Top, w + 1 \notin S PROVE w \notin S
  <2> SUFFICES ASSUME w > u, map[w] # None, n \in hist.pub[w],
                      NEW x \in map[w].sets[At(n, w)], x # n
               PROVE  FALSE
    OBVIOUS
  <2>0. w \in Versions /\ HasTop(w) /\ w + 1 \in Versions /\ w + 1 \in 1 .. Top
    BY <1>1, <1>4
  <2>a. w + 1 > u
    <3>1. w \in Nat /\ u \in Nat
      BY <2>0, LastNat DEF Versions
    <3> QED
      BY <3>1
  <2>1. w \in Versions /\ HasTop(w) /\ w + 1 \in Versions /\ w + 1 \in 1 .. Top /\ w + 1 > u
    BY <2>0, <2>a
  <2>2. /\ map[w + 1] # None /\ map[w + 1] \in Map /\ map[w] = Combined(map[w + 1], hist.plat[w])
    BY <2>1, MapIs
  <2>3. map[w + 1].attrs = hist.plat[w + 1].attrs
    BY <2>1, <2>2, <1>1, MapIs
  <2>4. /\ hist.plat[w].sets[At(n, w)] \subseteq {n} /\ At(n, w) \in Attrs
    BY <1>2, <2>1
  <2>5. x \in Brought(map[w + 1], hist.plat[w], map[w + 1].attrs, At(n, w))
    BY <2>2, <2>4 DEF Combined
  <2>6. PICK a \in map[w + 1].attrs : x \in map[w + 1].sets[a] /\ Base(a) \in hist.plat[w].sets[At(n, w)]
    BY <2>5 DEF Brought
  <2>7. PICK s \in hist.pub[w + 1] : a = At(s, w + 1) /\ Base(a) = s
    BY <1>0, <2>1, <2>3, <2>6, FilesAre
  <2>8. s = n
    BY <2>4, <2>6, <2>7
  <2>9. map[w + 1].sets[At(n, w + 1)] \subseteq {n}
    BY <1>4, <2>1, <2>2, <2>7, <2>8
  <2> QED
    BY <2>6, <2>7, <2>8, <2>9
<1>5. S = {}
  <2>1. S \subseteq 1 .. Top
    OBVIOUS
  <2> HIDE DEF S
  <2> QED
    BY <1>1, <1>3, <1>4, <2>1, Downward
<1> QED
  BY <1>5


\* So every type of the current policy is mapped to a type of the version, or ignored by it.
Covers(v, n) == \/ \E t \in hist.pub[v] : n \in map[v].sets[At(t, v)]
                \/ n \in ignore[v].sets[NewObjects]

\* by the files of a version alone, what is public in the next one
LEMMA CoveredHere ==
  ASSUME IInv, Exact, Complete, NEW v \in Versions, HasTop(v) => v + 1 \in Versions,
         map[v] # None, ignore[v] # None, NEW n \in hist.pub[v + 1]
  PROVE  Covers(v, n)
<1>0. Typed
  BY DEF IInv
<1>1. /\ hist.plat[v] \in Map /\ NewObjects \in Attrs
      /\ \A t \in hist.pub[v] : At(t, v) \in Attrs
  BY <1>0, FilesAre DEF Map
<1>2. \A t \in hist.pub[v] : hist.plat[v].sets[At(t, v)] \subseteq map[v].sets[At(t, v)]
  BY <1>1, MapIs
<1>3. Ignored(v) \subseteq ignore[v].sets[NewObjects]
  BY <1>1, IgnoreIs DEF Ignored
<1>4. CASE n \in hist.pub[v]
  <2>1. n \in hist.plat[v].sets[At(n, v)]
    BY <1>4 DEF Complete
  <2> QED
    BY <1>2, <1>4, <2>1 DEF Covers
<1>5. CASE n \notin hist.pub[v]
  <2>1. n \in NewIn(v)
    BY <1>5 DEF NewIn
  <2>2. n \in Ignored(v) \cup UNION {hist.plat[v].sets[At(t, v)] : t \in hist.pub[v]}
    BY <2>1 DEF Complete
  <2> QED
    BY <1>2, <1>3, <2>2 DEF Covers
<1> QED
  BY <1>4, <1>5

\* and through the maps of the next version, what came later
LEMMA CoveredAbove ==
  ASSUME IInv, Exact, Complete, NEW v \in Versions, ~Skipped(v), HasTop(v), v + 1 \in Versions,
         v + 1 \in 1 .. Top, map[v] # None, ignore[v] # None,
         NEW n \in hist.pub[Current], n \notin hist.pub[v + 1], Covers(v + 1, n)
  PROVE  Covers(v, n)
<1>0. Typed
  BY DEF IInv
<1>1. /\ hist.plat[v] \in Map /\ hist.ignore[v] \in Map
      /\ \A t \in hist.pub[v] : At(t, v) \in hist.plat[v].attrs
  BY <1>0, FilesAre
<1>2. /\ map[v + 1] # None /\ map[v + 1] \in Map /\ map[v] = Combined(map[v + 1], hist.plat[v])
      /\ ignore[v + 1] # None /\ ignore[v + 1] \in Map
      /\ ignore[v] = Combined(ignore[v + 1], hist.ignore[v])
  BY MapIs, IgnoreIs
<1>3. HasTop(v + 1) => v + 1 + 1 \in Versions
  BY LastNat DEF Versions, HasTop
<1>4. ASSUME NEW t \in hist.pub[v + 1], n \in map[v + 1].sets[At(t, v + 1)]
      PROVE  \E s \in hist.pub[v] : n \in map[v].sets[At(s, v)]
  <2>1. t # n
    OBVIOUS
  <2>2. At(t, v + 1) \in map[v + 1].attrs /\ Base(At(t, v + 1)) = t /\ At(t, v + 1) \in Attrs
    BY <1>0, <1>2, <1>3, FilesAre, MapIs DEF Map
  <2>3. t \in hist.plat[v + 1].sets[At(t, v + 1)]
    BY DEF Complete
  <2>4. t \in map[v + 1].sets[At(t, v + 1)]
    BY <1>2, <1>3, <2>2, <2>3, MapIs
  <2>5. ASSUME NEW s \in hist.pub[v], t \in hist.plat[v].sets[At(s, v)]
        PROVE  n \in map[v].sets[At(s, v)]
    BY <1>1, <1>2, <1>4, <2>1, <2>2, <2>4, <2>5, CombinedBrings
  <2>6. CASE t \in hist.pub[v]
    <3>1. t \in hist.plat[v].sets[At(t, v)]
      BY <2>6 DEF Complete
    <3> QED
      BY <2>5, <2>6, <3>1
  <2>7. CASE t \notin hist.pub[v]
    <3>1. t \in NewIn(v)
      BY <2>7 DEF NewIn
    <3>2. t \in Ignored(v) \cup UNION {hist.plat[v].sets[At(s, v)] : s \in hist.pub[v]}
      BY <3>1 DEF Complete
    <3>3. t \notin Ignored(v)
      <4> SUFFICES ASSUME t \in Ignored(v) PROVE FALSE
        OBVIOUS
      <4>1. v + 1 > v
        BY LastNat DEF Versions
      <4>2. map[v + 1].sets[At(t, v + 1)] \subseteq {t}
        BY <1>2, <4>1, AloneStays
      <4> QED
        BY <1>4, <2>1, <4>2
    <3> QED
      BY <2>5, <3>2, <3>3
  <2> QED
    BY <2>6, <2>7
<1>5. ASSUME n \in ignore[v + 1].sets[NewObjects]
      PROVE  n \in ignore[v].sets[NewObjects]
  <2>1. /\ NewObjects \in hist.ignore[v].attrs
        /\ Base(NewObjects) \in hist.ignore[v].sets[NewObjects]
    BY <1>0, FilesAre
  <2>2. /\ NewObjects \in hist.ignore[v + 1].attrs
        /\ Base(NewObjects) \in hist.ignore[v + 1].sets[NewObjects]
    BY <1>0, FilesAre
  <2>3. Base(NewObjects) # n
    <3>1. Current \in 1 .. Current
      BY LastNat DEF Current
    <3>2. Base(NewObjects) \notin hist.pub[Current]
      BY <1>0, <3>1, FilesAre
    <3> QED
      BY <3>2
  <2>4. NewObjects \in ignore[v + 1].attrs /\ NewObjects \in Attrs
    BY <1>1, <1>2, <1>3, <2>1, <2>2, IgnoreIs DEF Map
  <2>5. Base(NewObjects) \in ignore[v + 1].sets[NewObjects]
    BY <1>2, <1>3, <2>2, <2>4, IgnoreIs
  <2> QED
    BY <1>1, <1>2, <1>5, <2>1, <2>3, <2>4, <2>5, CombinedBrings
<1> QED
  BY <1>4, <1>5 DEF Covers

LEMMA Covered ==
  ASSUME IInv, Exact, Complete, frozen => hist.pub[Last] = hist.pub[Current],
         NEW v \in Versions, ~Skipped(v), map[v] # None, ignore[v] # None,
         NEW n \in hist.pub[Current]
  PROVE  Covers(v, n)
<1>0. Typed
  BY DEF IInv
<1>1. /\ Top \in Nat /\ v \in 1 .. Top
      /\ \A w \in 1 .. Top : w \in Versions
      /\ \A w \in 1 .. Top : HasTop(w) <=> w # Top
      /\ \A w \in 1 .. Top : w # Top => w + 1 \in 1 .. Top
      /\ hist.pub[Top + 1] = hist.pub[Current]
  BY <1>0, TopFacts
<1> DEFINE S == {w \in 1 .. Top : map[w] # None /\ ignore[w] # None /\ ~Covers(w, n)}
<1>2. Top \notin S
  <2> SUFFICES ASSUME Top \in 1 .. Top, map[Top] # None, ignore[Top] # None
               PROVE  Covers(Top, n)
    OBVIOUS
  <2>1. Top \in Versions /\ ~HasTop(Top) /\ n \in hist.pub[Top + 1]
    BY <1>1
  <2> QED
    BY <2>1, CoveredHere
<1>3. ASSUME NEW w \in 1 .. Top, w # Top, w + 1 \notin S PROVE w \notin S
  <2> SUFFICES ASSUME map[w] # None, ignore[w] # None PROVE Covers(w, n)
    OBVIOUS
  <2>1. w \in Versions /\ HasTop(w) /\ w + 1 \in Versions /\ w + 1 \in 1 .. Top
    BY <1>1, <1>3
  <2>2. CASE n \in hist.pub[w + 1]
    BY <2>1, <2>2, CoveredHere
  <2>3. CASE n \notin hist.pub[w + 1]
    <3>1. map[w + 1] # None /\ ignore[w + 1] # None
      BY <2>1, MapIs, IgnoreIs
    <3>2. Covers(w + 1, n)
      BY <1>3, <2>1, <3>1
    <3>3. ~Skipped(w)
      BY <1>3, <2>1, LastNat DEF Skipped, HasTop, Versions
    <3> QED
      BY <2>1, <2>3, <3>2, <3>3, CoveredAbove
  <2> QED
    BY <2>2, <2>3
<1>4. S = {}
  <2>1. S \subseteq 1 .. Top
    OBVIOUS
  <2> HIDE DEF S
  <2> QED
    BY <1>1, <1>2, <1>3, <2>1, Downward
<1> QED
  BY <1>1, <1>4

\* The two tests look at nothing else.
LEMMA CompletePasses ==
  ASSUME IInv, Exact, Complete, frozen => hist.pub[Last] = hist.pub[Current],
         NEW v \in Versions, ~Skipped(v), map[v] # None, ignore[v] # None
  PROVE  Passes(v)
<1>0. Typed
  BY DEF IInv
<1> DEFINE m == Cat(map[v], ignore[v])
           old == hist.pub[v]
           base == hist.pub[Current]
<1>1. HasTop(v) => v + 1 \in Versions
  BY LastNat DEF Versions, HasTop
<1>2. /\ map[v].attrs = hist.plat[v].attrs /\ ignore[v].attrs = hist.ignore[v].attrs
      /\ map[v] \in Map /\ ignore[v] \in Map
  BY <1>1, MapIs, IgnoreIs
<1>3. /\ m.types = map[v].types \cup ignore[v].types
      /\ m.attrs = map[v].attrs \cup ignore[v].attrs
      /\ \A a \in Attrs : m.sets[a] = map[v].sets[a] \cup ignore[v].sets[a]
  BY DEF Cat
<1>4. /\ NewObjects \in m.attrs /\ NewObjects \in Attrs
      /\ \A t \in old : At(t, v) \in m.attrs /\ At(t, v) \in Attrs
  BY <1>0, <1>2, <1>3, FilesAre DEF Map
<1>5. base \subseteq Types
  <2>1. Current \in 1 .. Current /\ hist \in Histories
    BY <1>0, LastNat DEF Current, Typed
  <2> QED
    BY <2>1, HistoriesAreFiles
<1>6. ASSUME NEW n \in base PROVE ROf(m)[n] # {}
  <2>1. Covers(v, n)
    BY Covered
  <2>2. \E a \in m.attrs : n \in m.sets[a]
    BY <1>3, <1>4, <2>1 DEF Covers
  <2>3. ROf(m)[n] = {a \in m.attrs : n \in m.sets[a]}
    BY <1>5 DEF ROf
  <2> QED
    BY <2>2, <2>3
<1>7. old \ base \subseteq m.types
  BY <1>3, GoneDeclared
<1>8. UnmappedNewTypes(base, old, m) = {}
  BY <1>6 DEF UnmappedNewTypes
<1>9. UnmappedRmTypes(base, old, m) = {}
  BY <1>7 DEF UnmappedRmTypes
<1> QED
  BY <1>8, <1>9 DEF Passes

\* ChainComplete: when the files of each version are complete for themselves, a build that
\* has run all its tests has passed them, whatever the versions in between.
THEOREM ChainIsComplete == Spec => []ChainComplete
<1>1. ASSUME IInv, Exact PROVE ChainComplete
  <2> SUFFICES ASSUME Finished, Complete, frozen => hist.pub[Last] = hist.pub[Current]
               PROVE  Green
    BY DEF ChainComplete
  <2>1. ASSUME NEW v \in Versions PROVE verdict[v] = "pass"
    <3>1. TestExact(v) /\ verdict[v] # "none"
      BY <1>1 DEF Exact, Finished
    <3> QED
      BY <1>1, <3>1, CompletePasses DEF TestExact
  <2>2. frozen => verdict[Current] = "pass"
    BY <1>1 DEF Exact, FreezeExact, Finished
  <2> QED
    BY <2>1, <2>2 DEF Green
<1> QED
  BY <1>1, ExactInvariance, PTL

-----------------------------------------------------------------------------
(***************************************************************************)
(* The mini parser that reads the maps: sequences that are made step by    *)
(* step, the statements of a file, and the loops that find them.           *)
(***************************************************************************)
\* What holds of 0, and of every number behind one of which it holds.
LEMMA Upward ==
  ASSUME NEW n \in Nat, NEW S, S \subseteq 0 .. n, 0 \notin S,
         \A k \in 0 .. n : k # n /\ k \notin S => k + 1 \notin S
  PROVE  S = {}
<1> SUFFICES ASSUME S # {} PROVE FALSE
  OBVIOUS
<1>1. S \in SUBSET Nat
  OBVIOUS
<1>2. PICK x \in S : \A y \in S : x <= y
  BY <1>1, LeastNat, Zenon
<1>3. x \in 1 .. n
  OBVIOUS
<1>4. x - 1 \notin S
  BY <1>2, <1>3
<1> QED
  BY <1>3, <1>4

\* A function whose values follow each from the one before.
Follows(f, n, T, b, next) ==
  /\ f \in [0 .. n -> T] /\ f[0] = b
  /\ \A k \in 1 .. n : f[k] = next[k][f[k - 1]]

\* It exists, by induction on how many numbers it is defined for.
LEMMA SomeFollows ==
  ASSUME NEW n \in Nat, NEW T, NEW b \in T, NEW next, \A k \in 1 .. n : next[k] \in [T -> T]
  PROVE  \E f : Follows(f, n, T, b, next)
<1> DEFINE S == {k \in 0 .. n : ~\E f : Follows(f, k, T, b, next)}
<1>1. 0 \notin S
  <2>1. Follows([k \in 0 .. 0 |-> b], 0, T, b, next)
    BY DEF Follows
  <2> QED
    BY <2>1
<1>2. ASSUME NEW k \in 0 .. n, k # n, k \notin S PROVE k + 1 \notin S
  <2>1. PICK f : Follows(f, k, T, b, next)
    BY <1>2
  <2> DEFINE h == [j \in 0 .. k + 1 |-> IF j = k + 1 THEN next[k + 1][f[k]] ELSE f[j]]
  <2>2. /\ f \in [0 .. k -> T] /\ f[0] = b /\ k \in 0 .. k /\ k + 1 \in 1 .. n
        /\ \A j \in 1 .. k : f[j] = next[j][f[j - 1]]
    BY <1>2, <2>1 DEF Follows
  <2>3. next[k + 1][f[k]] \in T
    BY <2>2
  <2>4. h \in [0 .. k + 1 -> T] /\ h[k + 1] = next[k + 1][f[k]] /\ \A j \in 0 .. k : h[j] = f[j]
    BY <2>2, <2>3
  <2> HIDE DEF h
  <2>5. ASSUME NEW j \in 1 .. k + 1 PROVE h[j] = next[j][h[j - 1]]
    <3>1. CASE j = k + 1
      <4>1. j - 1 = k /\ h[k] = f[k]
        BY <2>2, <2>4, <3>1
      <4> QED
        BY <2>4, <3>1, <4>1
    <3>2. CASE j # k + 1
      <4>1. j \in 1 .. k /\ j \in 0 .. k /\ j - 1 \in 0 .. k
        BY <3>2
      <4> QED
        BY <2>2, <2>4, <4>1
    <3> QED
      BY <3>1, <3>2
  <2>6. h[0] = b
    BY <2>2, <2>4
  <2>7. Follows(h, k + 1, T, b, next)
    BY <2>4, <2>5, <2>6 DEF Follows
  <2> QED
    BY <2>7
<1>3. S \subseteq 0 .. n
  OBVIOUS
<1>4. S = {}
  <2> HIDE DEF S
  <2> QED
    BY <1>1, <1>2, <1>3, Upward
<1>5. n \in 0 .. n
  OBVIOUS
<1> QED
  BY <1>4, <1>5

\* A comment goes from a ";" to the end of its line.
LEMMA CommentIs ==
  ASSUME infile \in Seq(Chars)
  PROVE  /\ ~InComment(0)
         /\ \A k \in 1 .. Len(infile) :
              InComment(k) <=> infile[k] # "nl" /\ (infile[k] = ";" \/ InComment(k - 1))
<1>1. ~InComment(0)
  BY DEF InComment
<1>2. ASSUME NEW k \in 1 .. Len(infile)
      PROVE  InComment(k) <=> infile[k] # "nl" /\ (infile[k] = ";" \/ InComment(k - 1))
  <2>1. k \in Nat /\ k - 1 \in Nat /\ k \in 1 .. k /\ k \notin 1 .. k - 1
    OBVIOUS
  <2>2. ASSUME InComment(k)
        PROVE  infile[k] # "nl" /\ (infile[k] = ";" \/ InComment(k - 1))
    <3>1. PICK j \in 1 .. k : infile[j] = ";" /\ \A m \in j .. k : infile[m] # "nl"
      BY <2>2 DEF InComment
    <3>2. infile[k] # "nl"
      <4>1. k \in j .. k
        OBVIOUS
      <4> QED
        BY <3>1, <4>1
    <3>3. CASE j # k
      <4>1. j \in 1 .. k - 1 /\ \A m \in j .. k - 1 : m \in j .. k
        BY <3>3
      <4> QED
        BY <3>1, <3>2, <4>1 DEF InComment
    <3> QED
      BY <3>1, <3>2, <3>3
  <2>3. ASSUME infile[k] # "nl", infile[k] = ";" \/ InComment(k - 1) PROVE InComment(k)
    <3>1. CASE infile[k] = ";"
      <4>1. \A m \in k .. k : m = k
        OBVIOUS
      <4> QED
        BY <2>1, <2>3, <3>1, <4>1 DEF InComment
    <3>2. CASE InComment(k - 1)
      <4>1. PICK j \in 1 .. k - 1 : infile[j] = ";" /\ \A m \in j .. k - 1 : infile[m] # "nl"
        BY <3>2 DEF InComment
      <4>2. j \in 1 .. k /\ \A m \in j .. k : m = k \/ m \in j .. k - 1
        OBVIOUS
      <4> QED
        BY <2>3, <4>1, <4>2 DEF InComment
    <3> QED
      BY <2>3, <3>1, <3>2
  <2> QED
    BY <2>2, <2>3
<1> QED
  BY <1>1, <1>2

\* the depth behind a character
Deeper(d, k) ==
  IF InComment(k) THEN d
  ELSE IF d + Delta(infile[k]) < 0 THEN 0 ELSE d + Delta(infile[k])

LEMMA DepthIs ==
  ASSUME infile \in Seq(Chars)
  PROVE  /\ Depth \in [0 .. Len(infile) -> Nat] /\ Depth[0] = 0
         /\ \A k \in 1 .. Len(infile) : Depth[k] = Deeper(Depth[k - 1], k)
<1> DEFINE n == Len(infile)
           next == [k \in 1 .. n |-> [d \in Nat |-> Deeper(d, k)]]
           Def(D) == D = [i \in 0 .. n |->
                            IF i = 0 THEN 0
                            ELSE IF InComment(i) THEN D[i - 1]
                            ELSE LET d == D[i - 1] + Delta(infile[i]) IN IF d < 0 THEN 0 ELSE d]
           D == CHOOSE D : Def(D)
<1>0. n \in Nat
  OBVIOUS
<1>1. \A k : Delta(infile[k]) \in {-1, 0, 1}
  BY DEF Delta
<1>2. \A k : \A d \in Nat : Deeper(d, k) \in Nat
  BY <1>1 DEF Deeper
<1>3. \E x : Def(x)
  <2>1. \A k \in 1 .. n : next[k] \in [Nat -> Nat]
    BY <1>2
  <2>2. \A k \in 1 .. n : \A d \in Nat : next[k][d] = Deeper(d, k)
    OBVIOUS
  <2> HIDE DEF next, n
  <2>3. PICK x : Follows(x, n, Nat, 0, next)
    BY <1>0, <2>1, SomeFollows
  <2>4. x \in [0 .. n -> Nat] /\ x[0] = 0 /\ \A k \in 1 .. n : x[k] = next[k][x[k - 1]]
    BY <2>3 DEF Follows
  <2>5. ASSUME NEW k \in 0 .. n
        PROVE  x[k] = IF k = 0 THEN 0 ELSE IF InComment(k) THEN x[k - 1]
                      ELSE LET d == x[k - 1] + Delta(infile[k]) IN IF d < 0 THEN 0 ELSE d
    <3>1. CASE k = 0
      BY <2>4, <3>1
    <3>2. CASE k # 0
      <4>1. k \in 1 .. n /\ k - 1 \in 0 .. n
        BY <1>0, <3>2
      <4>2. x[k] = Deeper(x[k - 1], k)
        BY <2>2, <2>4, <4>1
      <4> QED
        BY <3>2, <4>2 DEF Deeper
    <3> QED
      BY <3>1, <3>2
  <2>6. x = [k \in 0 .. n |-> x[k]]
    BY <2>4
  <2>7. Def(x)
    BY <2>5, <2>6
  <2> QED
    BY <2>7
<1>4. Def(D)
  BY <1>3
<1>5. Depth = D
  BY DEF Depth
<1> HIDE DEF D
<1>6. D = [i \in 0 .. n |-> D[i]] /\ D[0] = 0 /\ \A k \in 1 .. n : D[k] = Deeper(D[k - 1], k)
  <2> HIDE DEF n
  <2>1. D = [i \in 0 .. n |-> D[i]]
    BY <1>4
  <2>2. 0 \in 0 .. n /\ \A k \in 1 .. n : k \in 0 .. n /\ k # 0
    BY <1>0
  <2>3. \A k \in 0 .. n : D[k] = IF k = 0 THEN 0 ELSE IF InComment(k) THEN D[k - 1]
                      ELSE LET d == D[k - 1] + Delta(infile[k]) IN IF d < 0 THEN 0 ELSE d
    BY <1>4
  <2> QED
    BY <2>1, <2>2, <2>3 DEF Deeper
<1> DEFINE Wrong == {k \in 0 .. n : D[k] \notin Nat}
<1>7. 0 \notin Wrong
  BY <1>6
<1>8. ASSUME NEW k \in 0 .. n, k # n, k \notin Wrong PROVE k + 1 \notin Wrong
  <2>1. k + 1 \in 1 .. n /\ k + 1 - 1 = k
    BY <1>0, <1>8
  <2>2. D[k] \in Nat
    BY <1>8
  <2>3. D[k + 1] = Deeper(D[k], k + 1)
    <3> HIDE DEF Wrong, n
    <3> DEFINE q == k + 1
    <3>1. q \in 1 .. n /\ q - 1 = k
      BY <2>1
    <3> HIDE DEF q
    <3>2. D[q] = Deeper(D[q - 1], q)
      BY <1>6, <3>1
    <3> QED
      BY <3>1, <3>2 DEF q
  <2> QED
    BY <1>2, <2>2, <2>3
<1>9. Wrong \subseteq 0 .. n
  OBVIOUS
<1>10. Wrong = {}
  <2> HIDE DEF Wrong, n
  <2> QED
    BY <1>0, <1>7, <1>8, <1>9, Upward
<1>11. D \in [0 .. n -> Nat]
  <2>1. \A k \in 0 .. n : D[k] \in Nat
    BY <1>10
  <2> HIDE DEF n
  <2> QED
    BY <1>6, <2>1
<1> QED
  BY <1>5, <1>6, <1>11

\* The text of a statement is taken character by character ...
LEMMA TextToIs ==
  ASSUME infile \in Seq(Chars), NEW i \in 1 .. Len(infile)
  PROVE  /\ TextTo(i) \in [0 .. Len(infile) -> Seq(Nat)] /\ TextTo(i)[i] = <<>>
         /\ \A k \in i + 1 .. Len(infile) :
              TextTo(i)[k] = IF InComment(k) THEN TextTo(i)[k - 1] ELSE Append(TextTo(i)[k - 1], k)
<1> DEFINE n == Len(infile)
           Longer(t, k) == IF k <= i THEN <<>> ELSE IF InComment(k) THEN t ELSE Append(t, k)
           next == [k \in 1 .. n |-> [t \in Seq(Nat) |-> Longer(t, k)]]
           Def(f) == f = [k \in 0 .. n |->
                            IF k <= i THEN <<>>
                            ELSE IF InComment(k) THEN f[k - 1] ELSE Append(f[k - 1], k)]
           f == CHOOSE f : Def(f)
<1>0. n \in Nat /\ i \in Nat /\ i \in 0 .. n
  OBVIOUS
<1>2. \A k \in Nat : \A t \in Seq(Nat) : Longer(t, k) \in Seq(Nat)
  OBVIOUS
<1>3. \E x : Def(x) /\ x \in [0 .. n -> Seq(Nat)]
  <2>1. \A k \in 1 .. n : next[k] \in [Seq(Nat) -> Seq(Nat)]
    BY <1>2
  <2>2. \A k \in 1 .. n : \A t \in Seq(Nat) : next[k][t] = Longer(t, k)
    OBVIOUS
  <2>3. <<>> \in Seq(Nat)
    OBVIOUS
  <2> HIDE DEF next, n
  <2>4. PICK x : Follows(x, n, Seq(Nat), <<>>, next)
    BY <1>0, <2>1, <2>3, SomeFollows
  <2>5. x \in [0 .. n -> Seq(Nat)] /\ x[0] = <<>> /\ \A k \in 1 .. n : x[k] = next[k][x[k - 1]]
    BY <2>4 DEF Follows
  <2>6. ASSUME NEW k \in 0 .. n
        PROVE  x[k] = IF k <= i THEN <<>>
                      ELSE IF InComment(k) THEN x[k - 1] ELSE Append(x[k - 1], k)
    <3>1. CASE k = 0
      BY <1>0, <2>5, <3>1
    <3>2. CASE k # 0
      <4>1. k \in 1 .. n /\ k - 1 \in 0 .. n
        BY <1>0, <3>2
      <4>2. x[k] = Longer(x[k - 1], k)
        BY <2>2, <2>5, <4>1
      <4> QED
        BY <4>2
    <3> QED
      BY <3>1, <3>2
  <2>7. x = [k \in 0 .. n |-> x[k]]
    BY <2>5
  <2>8. Def(x)
    BY <2>6, <2>7
  <2> QED
    BY <2>5, <2>8
<1>4. Def(f)
  BY <1>3
<1>5. TextTo(i) = f
  BY DEF TextTo
<1> HIDE DEF f
<1>6. /\ f = [k \in 0 .. n |-> f[k]]
      /\ \A k \in 0 .. n : f[k] = IF k <= i THEN <<>>
                                  ELSE IF InComment(k) THEN f[k - 1] ELSE Append(f[k - 1], k)
  <2> HIDE DEF n
  <2> QED
    BY <1>4
<1> DEFINE Wrong == {k \in 0 .. n : f[k] \notin Seq(Nat)}
<1>7. 0 \notin Wrong
  <2>1. 0 \in 0 .. n /\ 0 <= i /\ <<>> \in Seq(Nat)
    BY <1>0
  <2>2. f[0] = <<>>
    <3> HIDE DEF n
    <3> QED
      BY <1>6, <2>1
  <2> QED
    BY <2>1, <2>2
<1>8. ASSUME NEW k \in 0 .. n, k # n, k \notin Wrong PROVE k + 1 \notin Wrong
  <2>1. k + 1 \in 0 .. n /\ k + 1 - 1 = k /\ k + 1 \in Nat
    BY <1>0, <1>8
  <2>2. f[k] \in Seq(Nat)
    BY <1>8
  <2>3. f[k + 1] = Longer(f[k], k + 1)
    <3> HIDE DEF Wrong, n
    <3> DEFINE q == k + 1
    <3>1. q \in 0 .. n /\ q - 1 = k
      BY <2>1
    <3> HIDE DEF q
    <3>2. f[q] = Longer(f[q - 1], q)
      BY <1>6, <3>1
    <3> QED
      BY <3>1, <3>2 DEF q
  <2> QED
    BY <1>2, <2>1, <2>2, <2>3
<1>9. Wrong \subseteq 0 .. n
  OBVIOUS
<1>10. Wrong = {}
  <2> HIDE DEF Wrong, n
  <2> QED
    BY <1>0, <1>7, <1>8, <1>9, Upward
<1>11. f \in [0 .. n -> Seq(Nat)]
  <2>1. \A k \in 0 .. n : f[k] \in Seq(Nat)
    BY <1>10
  <2> HIDE DEF n
  <2> QED
    BY <1>6, <2>1
<1>12. f[i] = <<>>
  BY <1>0, <1>6
<1>13. ASSUME NEW k \in i + 1 .. n
       PROVE  f[k] = IF InComment(k) THEN f[k - 1] ELSE Append(f[k - 1], k)
  <2>1. k \in 0 .. n /\ ~(k <= i)
    BY <1>0
  <2> QED
    BY <1>6, <2>1
<1> QED
  BY <1>5, <1>11, <1>12, <1>13

\* ... up to its end, which is where the depth is 0 for the first time.
LEMMA EndIs ==
  ASSUME infile \in Seq(Chars), NEW i \in 1 .. Len(infile)
  PROVE  /\ End(i) \in i + 1 .. EOF /\ (End(i) = EOF \/ Depth[End(i)] = 0)
         /\ \A k \in i + 1 .. End(i) - 1 : Depth[k] # 0
<1> DEFINE S == {j \in i + 1 .. EOF : j = EOF \/ Depth[j] = 0}
<1>0. i \in Nat /\ Len(infile) \in Nat /\ EOF \in Nat /\ EOF \in i + 1 .. EOF
  BY DEF EOF
<1>1. S \in SUBSET Nat /\ EOF \in S
  BY <1>0
<1>2. PICK j \in S : \A k \in S : j <= k
  BY <1>1, LeastNat
<1>3. j \in i + 1 .. EOF /\ (j = EOF \/ Depth[j] = 0)
  BY <1>2
<1>4. ASSUME NEW k \in i + 1 .. j - 1, Depth[k] = 0 PROVE FALSE
  <2>1. k \in i + 1 .. EOF /\ k < j
    BY <1>0, <1>3
  <2> QED
    BY <1>2, <1>4, <2>1
<1> HIDE DEF S
<1> QED
  BY <1>3, <1>4 DEF End

\* The statements of the file, one by one.
LEMMA StatementsToIs ==
  ASSUME infile \in Seq(Chars)
  PROVE  /\ StatementsTo \in [0 .. Len(infile) -> Seq(Seq(Nat))] /\ StatementsTo[0] = <<>>
         /\ \A k \in 1 .. Len(infile) :
              StatementsTo[k] = IF k \in Opens THEN Append(StatementsTo[k - 1], Text(k))
                                               ELSE StatementsTo[k - 1]
<1> DEFINE n == Len(infile)
           T == Seq(Seq(Nat))
           More(t, k) == IF k \in Opens THEN Append(t, Text(k)) ELSE t
           next == [k \in 1 .. n |-> [t \in T |-> More(t, k)]]
           Def(f) == f = [i \in 0 .. n |->
                            IF i = 0 THEN <<>>
                            ELSE IF i \in Opens THEN Append(f[i - 1], Text(i)) ELSE f[i - 1]]
           f == CHOOSE f : Def(f)
<1>0. n \in Nat
  OBVIOUS
<1>1. ASSUME NEW k \in 1 .. n PROVE Text(k) \in Seq(Nat)
  <2>1. TextTo(k) \in [0 .. n -> Seq(Nat)]
    BY TextToIs
  <2>2. End(k) \in k + 1 .. EOF
    BY EndIs
  <2>3. End(k) - 1 \in 0 .. n
    BY <2>2 DEF EOF
  <2> QED
    BY <2>1, <2>3 DEF Text
<1>2. \A k \in 1 .. n : \A t \in T : More(t, k) \in T
  BY <1>1
<1>3. \E x : Def(x)
  <2>1. \A k \in 1 .. n : next[k] \in [T -> T]
    BY <1>2
  <2>2. \A k \in 1 .. n : \A t \in T : next[k][t] = More(t, k)
    OBVIOUS
  <2>3. <<>> \in T
    OBVIOUS
  <2> HIDE DEF next, n, T
  <2>4. PICK x : Follows(x, n, T, <<>>, next)
    BY <1>0, <2>1, <2>3, SomeFollows
  <2>5. x \in [0 .. n -> T] /\ x[0] = <<>> /\ \A k \in 1 .. n : x[k] = next[k][x[k - 1]]
    BY <2>4 DEF Follows
  <2>6. ASSUME NEW k \in 0 .. n
        PROVE  x[k] = IF k = 0 THEN <<>>
                      ELSE IF k \in Opens THEN Append(x[k - 1], Text(k)) ELSE x[k - 1]
    <3>1. CASE k = 0
      BY <2>5, <3>1
    <3>2. CASE k # 0
      <4>1. k \in 1 .. n /\ k - 1 \in 0 .. n
        BY <1>0, <3>2
      <4>2. x[k] = More(x[k - 1], k)
        BY <2>2, <2>5, <4>1
      <4> QED
        BY <3>2, <4>2
    <3> QED
      BY <3>1, <3>2
  <2>7. x = [k \in 0 .. n |-> x[k]]
    BY <2>5
  <2>8. Def(x)
    BY <2>6, <2>7
  <2> QED
    BY <2>8
<1>4. Def(f)
  BY <1>3
<1>5. StatementsTo = f
  BY DEF StatementsTo
<1> HIDE DEF f
<1>6. /\ f = [k \in 0 .. n |-> f[k]]
      /\ \A k \in 0 .. n : f[k] = IF k = 0 THEN <<>>
                                  ELSE IF k \in Opens THEN Append(f[k - 1], Text(k)) ELSE f[k - 1]
  <2> HIDE DEF n
  <2> QED
    BY <1>4
<1>7. f[0] = <<>> /\ \A k \in 1 .. n : f[k] = More(f[k - 1], k)
  <2>1. 0 \in 0 .. n /\ \A k \in 1 .. n : k \in 0 .. n /\ k # 0
    BY <1>0
  <2> HIDE DEF n
  <2> QED
    BY <1>6, <2>1
<1> DEFINE Wrong == {k \in 0 .. n : f[k] \notin T}
<1>8. 0 \notin Wrong
  <2>1. <<>> \in T
    OBVIOUS
  <2> HIDE DEF T
  <2> QED
    BY <1>7, <2>1
<1>9. ASSUME NEW k \in 0 .. n, k # n, k \notin Wrong PROVE k + 1 \notin Wrong
  <2>1. k + 1 \in 1 .. n /\ k + 1 - 1 = k
    BY <1>0, <1>9
  <2>2. f[k] \in T
    BY <1>9
  <2>3. f[k + 1] = More(f[k], k + 1)
    BY <1>7, <2>1
  <2> QED
    BY <1>2, <2>1, <2>2, <2>3
<1>10. Wrong \subseteq 0 .. n
  OBVIOUS
<1>11. Wrong = {}
  <2> HIDE DEF Wrong, n
  <2> QED
    BY <1>0, <1>8, <1>9, <1>10, Upward
<1>12. f \in [0 .. n -> T]
  <2>1. \A k \in 0 .. n : f[k] \in T
    BY <1>11
  <2> HIDE DEF n, T
  <2> QED
    BY <1>6, <2>1
<1> QED
  BY <1>5, <1>7, <1>12

\* A sequence that begins with another begins with what the other begins with.
LEMMA LongerKeepsPrefix ==
  ASSUME NEW l \in Nat, NEW s, NEW longer, NEW first, Len(s) \in Nat,
         l <= Len(s), Len(longer) = Len(s) + 1,
         \A j \in 1 .. l : s[j] = first[j],
         \A j \in 1 .. Len(s) : longer[j] = s[j]
  PROVE  l <= Len(longer) /\ \A j \in 1 .. l : longer[j] = first[j]
<1>1. 1 .. l \subseteq 1 .. Len(s)
  OBVIOUS
<1> QED
  BY <1>1

\* Up to each character these are the first ones of the file's.
LEMMA StatementsGrow ==
  ASSUME infile \in Seq(Chars), NEW p \in 0 .. Len(infile)
  PROVE  /\ Len(StatementsTo[p]) <= Len(Statements)
         /\ \A j \in 1 .. Len(StatementsTo[p]) : StatementsTo[p][j] = Statements[j]
<1> DEFINE n == Len(infile)
           f == StatementsTo
           l == Len(f[p])
           Fine(k) == l <= Len(f[p + k]) /\ \A j \in 1 .. l : f[p + k][j] = f[p][j]
           Wrong == {k \in 0 .. n - p : ~Fine(k)}
<1>1. /\ f \in [0 .. n -> Seq(Seq(Nat))]
      /\ \A k \in 1 .. n : f[k] = IF k \in Opens THEN Append(f[k - 1], Text(k)) ELSE f[k - 1]
  BY StatementsToIs
<1> HIDE DEF f
<1>2. n \in Nat /\ p \in 0 .. n /\ p \in Nat /\ n - p \in Nat /\ p + (n - p) = n
  OBVIOUS
<1>3. \A k \in 0 .. n : f[k] \in Seq(Seq(Nat)) /\ Len(f[k]) \in Nat
  BY <1>1
<1>4. 0 \notin Wrong
  BY <1>2, <1>3
<1>5. ASSUME NEW k \in 0 .. n - p, k # n - p, k \notin Wrong PROVE k + 1 \notin Wrong
  <2>1. /\ p + (k + 1) \in 1 .. n /\ p + (k + 1) - 1 = p + k /\ p + k \in 0 .. n
    <3> HIDE DEF Wrong, n
    <3> QED
      BY <1>2, <1>5
  <2>2. Fine(k)
    BY <1>5
  <2>3. f[p + (k + 1)] = Append(f[p + k], Text(p + (k + 1))) \/ f[p + (k + 1)] = f[p + k]
    <3> HIDE DEF Wrong, n
    <3> DEFINE q == p + (k + 1)
    <3>1. q \in 1 .. n /\ q - 1 = p + k
      BY <2>1
    <3> HIDE DEF q
    <3>2. f[q] = Append(f[q - 1], Text(q)) \/ f[q] = f[q - 1]
      BY <1>1, <3>1
    <3>3. f[q] = Append(f[p + k], Text(q)) \/ f[q] = f[p + k]
      BY <3>1, <3>2, Zenon
    <3> QED
      BY <3>3, Zenon DEF q
  <2>4. l \in Nat /\ f[p + k] \in Seq(Seq(Nat)) /\ Len(f[p + k]) \in Nat
    BY <1>2, <1>3, <2>1
  <2>5. CASE f[p + (k + 1)] = Append(f[p + k], Text(p + (k + 1)))
    <3>1. /\ Len(f[p + (k + 1)]) = Len(f[p + k]) + 1
          /\ \A j \in 1 .. Len(f[p + k]) : f[p + (k + 1)][j] = f[p + k][j]
      BY <2>4, <2>5
    <3>2. l <= Len(f[p + k]) /\ \A j \in 1 .. l : f[p + k][j] = f[p][j]
      BY <2>2
    <3>3. l <= Len(f[p + (k + 1)]) /\ \A j \in 1 .. l : f[p + (k + 1)][j] = f[p][j]
      <4> DEFINE s == f[p + k]
                 longer == f[p + (k + 1)]
                 first == f[p]
      <4>1. l \in Nat /\ Len(s) \in Nat
        BY <2>4
      <4> HIDE DEF l, n, Wrong
      <4>2. /\ l <= Len(s) /\ Len(longer) = Len(s) + 1
            /\ \A j \in 1 .. l : s[j] = first[j]
            /\ \A j \in 1 .. Len(s) : longer[j] = s[j]
        BY <3>1, <3>2
      <4> HIDE DEF s, longer, first
      <4>3. l <= Len(longer) /\ \A j \in 1 .. l : longer[j] = first[j]
        BY <4>1, <4>2, LongerKeepsPrefix
      <4> QED
        BY <4>3 DEF s, longer, first
    <3>4. Fine(k + 1)
      BY <3>3
    <3> QED
      BY <3>4
  <2>6. CASE f[p + (k + 1)] = f[p + k]
    BY <2>2, <2>6
  <2> QED
    BY <2>3, <2>5, <2>6
<1>6. Wrong \subseteq 0 .. n - p
  OBVIOUS
<1>7. Wrong = {}
  <2> DEFINE m == n - p
  <2>1. m \in Nat /\ Wrong \subseteq 0 .. m
    BY <1>2
  <2>2. \A k \in 0 .. m : k # m /\ k \notin Wrong => k + 1 \notin Wrong
    BY <1>5
  <2> HIDE DEF Wrong, n, m
  <2> QED
    BY <1>4, <2>1, <2>2, Upward
<1>8. Fine(n - p)
  <2>1. n - p \in 0 .. n - p /\ n - p \notin Wrong
    <3> HIDE DEF Wrong
    <3> QED
      BY <1>2, <1>7
  <2> QED
    BY <2>1
<1>9. Statements = f[n]
  BY DEF Statements, f
<1> QED
  BY <1>2, <1>8, <1>9 DEF f

-----------------------------------------------------------------------------
(***************************************************************************)
(* The loops of the parser.                                                *)
(***************************************************************************)
\* What the next character is, and where the one after it stands.
LEMMA CharIs ==
  ASSUME ParseTypeOK
  PROVE  /\ infile \in Seq(Chars) => (pos < EOF => char \in Chars)
         /\ Len(infile) \in Nat /\ EOF = Len(infile) + 1 /\ pos \in 1 .. EOF
         /\ EOF \in Nat /\ pos \in Nat
         /\ pos < EOF => pos \in 1 .. Len(infile) /\ char = infile[pos] /\ After(pos) = pos + 1
         /\ ~(pos < EOF) => pos = EOF /\ char = "eof" /\ After(pos) = pos
<1>1. /\ Len(infile) \in Nat /\ EOF = Len(infile) + 1 /\ pos \in 1 .. EOF
      /\ EOF \in Nat /\ pos \in Nat
  BY DEF ParseTypeOK, EOF
<1>2. pos < EOF => pos \in 1 .. Len(infile) /\ char = infile[pos] /\ After(pos) = pos + 1
  BY <1>1 DEF char, CharAt, After
<1>3. ~(pos < EOF) => pos = EOF /\ char = "eof" /\ After(pos) = pos
  BY <1>1 DEF char, CharAt, After
<1>4. infile \in Seq(Chars) /\ pos < EOF => char \in Chars
  BY <1>2
<1> QED
  BY <1>1, <1>2, <1>3, <1>4

\* What a file holds does not change while it is read.
LEMMA SameFile ==
  ASSUME infile' = infile
  PROVE  /\ EOF' = EOF /\ Depth' = Depth /\ Opens' = Opens /\ Plain' = Plain
         /\ StatementsTo' = StatementsTo /\ Statements' = Statements
         /\ \A i : /\ InComment(i)' = InComment(i) /\ CharAt(i)' = CharAt(i)
                   /\ TextTo(i)' = TextTo(i) /\ Text(i)' = Text(i)
<1>1. \A i : InComment(i)' = InComment(i) /\ CharAt(i)' = CharAt(i)
  BY DEF InComment, CharAt, EOF
<1>2. EOF' = EOF /\ Depth' = Depth
  BY DEF EOF, Depth, InComment
<1>3. \A i : TextTo(i)' = TextTo(i)
  BY DEF TextTo, InComment
<1>4. Opens' = Opens
  BY <1>2 DEF Opens
<1>5. Plain' = Plain
  BY <1>4 DEF Plain
<1>6. \A i : Text(i)' = Text(i)
  BY DEF Text, TextTo, InComment, End, EOF, Depth
<1>7. StatementsTo' = StatementsTo
  BY DEF StatementsTo, Opens, Text, TextTo, InComment, End, EOF, Depth
<1>8. Statements' = Statements
  BY <1>7 DEF Statements
<1> QED
  BY <1>1, <1>2, <1>3, <1>4, <1>5, <1>6, <1>7, <1>8

\* All characters are in the file.
LEMMA ParseTyped ==
  ASSUME ParseTypeOK, infile \in Seq(Chars), [ParseNext]_parseVars
  PROVE  ParseTypeOK' /\ infile' = infile
<1>1. /\ Len(infile) \in Nat /\ EOF = Len(infile) + 1 /\ pos \in 1 .. EOF
      /\ EOF \in Nat /\ pos \in Nat
      /\ pos < EOF => pos \in 1 .. Len(infile) /\ After(pos) = pos + 1
      /\ ~(pos < EOF) => pos = EOF /\ char = "eof" /\ After(pos) = pos
  BY CharIs
<1>2. infile' = infile /\ EOF' = EOF
  BY DEF ParseNext, parseVars, Seek, SeekComment, Open, Body, BodyComment, Return, EOF
<1>3. After(pos) \in pos .. EOF
  BY <1>1
<1>4. ASSUME NEW x, Delta(x) = Delta(x) PROVE Delta(x) \in {-1, 0, 1}
  BY DEF Delta
<1>5. CASE Body
  <2>1. pos \in 1 .. Len(infile) /\ pos' = pos + 1 /\ stmt' = Append(stmt, pos) /\ stmts' = stmts
        /\ parens # 0 /\ parens' = parens + Delta(CharAt(pos'))
        /\ loop' \in {"body", "bodyComment"}
    BY <1>1, <1>5 DEF Body, Taken
  <2>2. stmt' \in Seq(1 .. Len(infile))
    BY <2>1 DEF ParseTypeOK
  <2>3. Delta(CharAt(pos')) \in {-1, 0, 1}
    BY <1>4
  <2>4. parens' \in 0 .. pos' /\ pos' \in 1 .. EOF
    BY <1>1, <2>1, <2>3 DEF ParseTypeOK
  <2> QED
    BY <1>2, <2>1, <2>2, <2>4 DEF ParseTypeOK
<1>6. CASE Return
  <2>1. /\ parens' = 0 /\ stmt' = <<>> /\ loop' \in {"seek", "done"} /\ pos' \in {pos, After(pos)}
        /\ stmts' \in {stmts, Append(stmts, stmt)}
    BY <1>6 DEF Return
  <2>2. stmts' \in Seq(Seq(1 .. Len(infile)))
    <3> DEFINE S == Seq(1 .. Len(infile))
    <3>1. stmts \in Seq(S) /\ stmt \in S
      BY DEF ParseTypeOK
    <3> HIDE DEF S
    <3>2. stmts' \in Seq(S)
      BY <2>1, <3>1
    <3> QED
      BY <3>2 DEF S
  <2>3. stmt' \in Seq(1 .. Len(infile))
    BY <2>1
  <2> QED
    BY <1>1, <1>2, <1>3, <2>1, <2>2, <2>3 DEF ParseTypeOK
<1>7. CASE Seek \/ SeekComment \/ BodyComment \/ UNCHANGED parseVars
  <2>1. /\ stmts' = stmts /\ stmt' = stmt /\ parens' = parens /\ pos' \in {pos, After(pos)}
        /\ loop' \in {loop, "seek", "seekComment", "body"}
    BY <1>7 DEF Seek, SeekComment, BodyComment, SkipComment, parseVars
  <2> QED
    BY <1>1, <1>2, <1>3, <2>1 DEF ParseTypeOK
<1>8. CASE Open
  <2>1. stmts' = stmts /\ stmt' = <<>> /\ parens' = 1 /\ pos' = After(pos) /\ loop' = "body"
    BY <1>8 DEF Open
  <2> QED
    BY <1>1, <1>2, <1>3, <2>1 DEF ParseTypeOK
<1> QED
  BY <1>2, <1>5, <1>6, <1>7, <1>8 DEF ParseNext

\* Outside of all statements there are no depths and no comments to remember.
LEMMA SeekReads ==
  ASSUME ParseTypeOK, infile \in Seq(Chars), Plain, Reading, Seek \/ SeekComment
  PROVE  Reading'
<1> DEFINE n == Len(infile)
<1>1. /\ n \in Nat /\ EOF = n + 1 /\ pos \in 1 .. EOF /\ EOF \in Nat /\ pos \in Nat
      /\ pos < EOF => pos \in 1 .. n /\ char = infile[pos] /\ After(pos) = pos + 1 /\ char \in Chars
      /\ ~(pos < EOF) => pos = EOF /\ char = "eof" /\ After(pos) = pos
  BY CharIs
<1>2. infile' = infile /\ stmts' = stmts /\ stmt' = stmt /\ parens' = parens
  BY DEF Seek, SeekComment
<1>3. /\ EOF' = EOF /\ Depth' = Depth /\ StatementsTo' = StatementsTo
      /\ \A i : InComment(i)' = InComment(i) /\ CharAt(i)' = CharAt(i)
  BY <1>2, SameFile
<1>4. Outside /\ (pos < EOF => Depth[pos - 1] = 0)
  BY DEF Reading, Seek, SeekComment
\* a character that is not "(" opens nothing
<1>5. ASSUME pos < EOF, InComment(pos) \/ char # "("
      PROVE  Depth[pos] = 0 /\ StatementsTo[pos] = StatementsTo[pos - 1]
  <2>1. Depth[pos] = Deeper(Depth[pos - 1], pos)
    BY <1>1, <1>5, DepthIs
  <2>2. InComment(pos) \/ Delta(infile[pos]) \in {-1, 0}
    BY <1>1, <1>5 DEF Delta
  <2>3. Depth[pos] = 0
    BY <1>4, <1>5, <2>1, <2>2 DEF Deeper
  <2>4. pos \notin Opens
    BY <2>3 DEF Opens
  <2> QED
    BY <1>1, <1>5, <2>3, <2>4, StatementsToIs
<1>6. pos < EOF => InComment(pos) <=> (char # "nl" /\ (char = ";" \/ InComment(pos - 1)))
  BY <1>1, CommentIs
<1>7. char' = CharAt(pos')
  BY <1>3 DEF char
<1>8. CASE Seek
  <2>1. pos < EOF /\ loop = "seek" /\ char # "("
    BY <1>1, <1>8 DEF Seek
  <2>2. ~InComment(pos - 1)
    BY <2>1 DEF Reading
  <2>3. CASE char = ";"
    <3>1. pos' = pos /\ loop' = "seekComment"
      BY <1>8, <2>3 DEF Seek
    <3>2. Outside'
      BY <1>2, <1>3, <1>4, <3>1 DEF Outside
    <3>3. Passing'
      BY <1>1, <1>3, <1>6, <1>7, <2>1, <2>3, <3>1 DEF Passing
    <3> QED
      BY <1>3, <1>4, <3>1, <3>2, <3>3 DEF Reading
  <2>4. CASE char # ";"
    <3>0. pos' = After(pos) /\ loop' = "seek"
      BY <1>8, <2>4 DEF Seek
    <3>1. pos' = pos + 1 /\ loop' = "seek" /\ pos' - 1 = pos
      BY <1>1, <2>1, <3>0
    <3>2. Depth[pos] = 0 /\ StatementsTo[pos] = StatementsTo[pos - 1]
      BY <1>5, <2>1
    <3>3. Outside'
      BY <1>2, <1>3, <1>4, <3>1, <3>2 DEF Outside
    <3>4. ~InComment(pos)
      BY <1>6, <2>1, <2>2, <2>4
    <3> QED
      BY <1>3, <3>1, <3>2, <3>3, <3>4 DEF Reading
  <2> QED
    BY <2>3, <2>4
<1>9. CASE SeekComment
  <2>1. Passing /\ loop = "seekComment" /\ pos' = After(pos)
        /\ loop' = IF char = "nl" THEN "seek" ELSE loop
    BY <1>9 DEF Reading, SeekComment
  <2>2. CASE pos < EOF
    <3>1. pos' = pos + 1 /\ pos' - 1 = pos /\ (InComment(pos) \/ char = "nl")
      BY <1>1, <2>1, <2>2 DEF Passing
    <3>2. Depth[pos] = 0 /\ StatementsTo[pos] = StatementsTo[pos - 1]
      BY <1>5, <2>2, <3>1
    <3>3. Outside'
      BY <1>2, <1>3, <1>4, <3>1, <3>2 DEF Outside
    <3>4. CASE char = "nl"
      <4>1. ~InComment(pos) /\ loop' = "seek"
        BY <1>6, <2>1, <2>2, <3>4
      <4> QED
        BY <1>3, <3>1, <3>2, <3>3, <4>1 DEF Reading
    <3>5. CASE char # "nl"
      <4>1. InComment(pos) /\ loop' = "seekComment"
        BY <2>1, <3>1, <3>5
      <4>2. pos + 1 < EOF /\ CharAt(pos + 1) # "nl" => InComment(pos + 1)
        <5> SUFFICES ASSUME pos + 1 < EOF, CharAt(pos + 1) # "nl" PROVE InComment(pos + 1)
          OBVIOUS
        <5> DEFINE q == pos + 1
        <5>1. q \in 1 .. n /\ q - 1 = pos /\ infile[q] # "nl"
          BY <1>1 DEF CharAt
        <5> HIDE DEF q
        <5>2. InComment(q) <=> infile[q] # "nl" /\ (infile[q] = ";" \/ InComment(q - 1))
          BY <5>1, CommentIs
        <5> QED
          BY <4>1, <5>1, <5>2 DEF q
      <4>3. Passing'
        BY <1>3, <1>7, <3>1, <4>2 DEF Passing
      <4> QED
        BY <1>3, <3>1, <3>2, <3>3, <4>1, <4>3 DEF Reading
    <3> QED
      BY <3>4, <3>5
  <2>3. CASE ~(pos < EOF)
    <3>1. pos' = pos /\ loop' = "seekComment"
      BY <1>1, <2>1, <2>3
    <3>2. Outside' /\ Passing' /\ ~(pos' < EOF')
      BY <1>2, <1>3, <1>4, <2>3, <3>1 DEF Outside, Passing
    <3> QED
      BY <3>1, <3>2 DEF Reading
  <2> QED
    BY <2>2, <2>3
<1> QED
  BY <1>8, <1>9

\* A "(" opens a statement, and at the end of the file there is none.
LEMMA OpenReads ==
  ASSUME ParseTypeOK, infile \in Seq(Chars), Plain, Reading, Open
  PROVE  Reading'
<1> DEFINE n == Len(infile)
<1>1. /\ n \in Nat /\ EOF = n + 1 /\ pos \in 1 .. EOF /\ EOF \in Nat /\ pos \in Nat
      /\ pos < EOF => pos \in 1 .. n /\ char = infile[pos] /\ After(pos) = pos + 1 /\ char \in Chars
      /\ ~(pos < EOF) => pos = EOF /\ char = "eof" /\ After(pos) = pos
  BY CharIs
<1>2. /\ infile' = infile /\ stmts' = stmts /\ stmt' = <<>> /\ parens' = 1 /\ loop' = "body"
      /\ pos' = After(pos) /\ loop = "seek"
  BY DEF Open
<1>3. /\ EOF' = EOF /\ Depth' = Depth /\ StatementsTo' = StatementsTo /\ Statements' = Statements
      /\ Opens' = Opens
      /\ \A i : InComment(i)' = InComment(i) /\ TextTo(i)' = TextTo(i) /\ Text(i)' = Text(i)
  BY <1>2, SameFile
<1>4. Outside /\ (pos < EOF => Depth[pos - 1] = 0 /\ ~InComment(pos - 1))
  BY <1>2 DEF Reading
<1>5. CASE ~(pos < EOF)
  <2>1. pos' = EOF /\ pos - 1 = n
    BY <1>1, <1>2, <1>5
  <2>2. stmts = Statements
    BY <1>4, <2>1 DEF Outside, Statements
  <2>3. AtEnd'
    BY <1>2, <1>3, <2>1, <2>2 DEF AtEnd
  <2> QED
    BY <1>2, <2>3 DEF Reading
<1>6. CASE pos < EOF
  <2>1. pos \in 1 .. n /\ infile[pos] = "(" /\ pos' = pos + 1 /\ pos' - 1 = pos
    <3>1. char \in {"eof", "("} /\ char \in Chars
      BY <1>1, <1>6 DEF Open
    <3>2. char = "("
      BY <3>1 DEF Chars
    <3>3. pos \in 1 .. n /\ infile[pos] = "("
      BY <1>1, <1>6, <3>2
    <3>4. pos' = pos + 1 /\ pos' - 1 = pos
      BY <1>1, <1>2, <1>6
    <3> QED
      BY <3>3, <3>4
  <2>2. ~InComment(pos)
    BY <1>4, <1>6, <2>1, CommentIs
  <2>3. Depth[pos] = 1
    <3>1. Depth[pos] = Deeper(Depth[pos - 1], pos)
      BY <2>1, DepthIs
    <3> QED
      BY <1>4, <1>6, <2>1, <2>2, <3>1 DEF Deeper, Delta
  <2>4. pos \in Opens
    BY <1>4, <1>6, <2>1, <2>3 DEF Opens
  <2>5. pos + 1 \in 1 .. n /\ infile[pos + 1] = "x"
    BY <1>1, <2>1, <2>4 DEF Plain
  <2>6. ~InComment(pos + 1) /\ Depth[pos + 1] = 1
    <3> DEFINE q == pos + 1
    <3>1. q \in 1 .. n /\ q - 1 = pos /\ infile[q] = "x"
      BY <1>1, <2>5
    <3> HIDE DEF q
    <3>2. ~InComment(q)
      BY <2>2, <3>1, CommentIs
    <3>3. Depth[q] = Deeper(Depth[pos], q)
      BY <3>1, DepthIs
    <3>4. Depth[q] = 1
      BY <2>3, <3>1, <3>2, <3>3 DEF Deeper, Delta
    <3> QED
      BY <3>2, <3>4 DEF q
  <2>7. TextTo(pos)[pos] = <<>>
    BY <2>1, TextToIs
  <2>8. StatementsTo[pos] = Append(stmts, Text(pos))
    <3>1. StatementsTo[pos] = Append(StatementsTo[pos - 1], Text(pos))
      BY <2>1, <2>4, StatementsToIs
    <3> QED
      BY <1>4, <3>1 DEF Outside
  <2>9. PICK i : i = pos
    OBVIOUS
  <2>10. i \in Opens /\ i \in Nat /\ TextTo(i)[i] = <<>> /\ StatementsTo[i] = Append(stmts, Text(i))
    BY <1>1, <2>4, <2>7, <2>8, <2>9, Zenon
  <2>11. Inside(i)'
    <3>1. i < pos' /\ ~(pos' > i + 1) /\ pos' - 1 = i /\ \A k \in i + 1 .. pos' - 1 : FALSE
      BY <2>1, <2>9, <2>10
    <3>2. /\ stmt' = TextTo(i)'[pos' - 1] /\ StatementsTo'[pos' - 1] = Append(stmts', Text(i)')
      BY <1>2, <1>3, <2>10, <3>1
    <3> QED
      BY <3>1, <3>2 DEF Inside
  <2>12. parens' = Depth'[pos'] /\ ~InComment(pos)'
    <3>1. Depth'[pos'] = 1
      BY <1>3, <2>1, <2>6
    <3>2. ~InComment(pos)'
      <4> DEFINE q == pos + 1
      <4>1. pos' = q /\ ~InComment(q)
        BY <2>1, <2>6
      <4> QED
        BY <1>2, <4>1 DEF InComment
    <3> QED
      BY <1>2, <3>1, <3>2
  <2>13. BodyOf(i)'
    BY <2>11, <2>12 DEF BodyOf
  <2> QED
    BY <1>2, <1>3, <2>10, <2>13 DEF Reading
<1> QED
  BY <1>5, <1>6

\* One more character inside: the statement goes on there.
LEMMA GoesOn ==
  ASSUME ParseTypeOK, infile \in Seq(Chars), NEW i \in Opens, Inside(i), pos < EOF, Depth[pos] # 0,
         infile' = infile, pos' = pos + 1, stmts' = stmts,
         stmt' = IF InComment(pos) THEN stmt ELSE Append(stmt, pos),
         InComment(pos) => pos > i + 1
  PROVE  Inside(i)' /\ pos' > i + 1
<1> DEFINE n == Len(infile)
<1>1. /\ n \in Nat /\ EOF = n + 1 /\ EOF \in Nat /\ pos \in Nat /\ pos \in 1 .. n
  BY CharIs
<1>2. i \in 1 .. n /\ i < pos /\ Depth[i] = 1
  BY <1>1 DEF Opens, Inside
<1>3. /\ Depth' = Depth /\ StatementsTo' = StatementsTo
      /\ TextTo(i)' = TextTo(i) /\ Text(i)' = Text(i)
  BY SameFile
<1>4. pos \in i + 1 .. n /\ pos' - 1 = pos
  BY <1>1, <1>2
<1>5. stmt' = TextTo(i)[pos]
  BY <1>2, <1>4, TextToIs DEF Inside
<1>6. stmt' # <<>>
  <2>1. CASE InComment(pos)
    BY <2>1 DEF Inside
  <2>2. CASE ~InComment(pos)
    <3>1. stmt' = Append(stmt, pos) /\ stmt \in Seq(1 .. Len(infile))
      BY <2>2 DEF ParseTypeOK
    <3>2. pos \in 1 .. Len(infile)
      BY <1>1
    <3>3. Append(stmt, pos) # <<>>
      <4> DEFINE S == 1 .. Len(infile)
      <4>1. stmt \in Seq(S) /\ pos \in S
        BY <3>1, <3>2
      <4> HIDE DEF S
      <4> QED
        BY <4>1, AppendProperties
    <3> QED
      BY <3>1, <3>3
  <2> QED
    BY <2>1, <2>2
<1>7. \A k \in i + 1 .. pos : Depth[k] # 0
  <2>1. \A k \in i + 1 .. pos : k = pos \/ k \in i + 1 .. pos - 1
    BY <1>1, <1>2
  <2> QED
    BY <2>1 DEF Inside
<1>8. StatementsTo[pos] = Append(stmts, Text(i))
  <2>1. Depth[pos - 1] # 0
    <3>1. pos - 1 = i \/ pos - 1 \in i + 1 .. pos - 1
      BY <1>1, <1>2
    <3> QED
      BY <1>2, <3>1 DEF Inside
  <2>2. pos \notin Opens
    BY <2>1 DEF Opens
  <2>3. StatementsTo[pos] = StatementsTo[pos - 1]
    BY <1>1, <2>2, StatementsToIs
  <2> QED
    BY <2>3 DEF Inside
<1>9. i < pos' /\ pos' > i + 1
  BY <1>1, <1>2
<1>10. \A k \in i + 1 .. pos' - 1 : Depth'[k] # 0
  BY <1>3, <1>4, <1>7
<1>11. stmt' = TextTo(i)'[pos' - 1] /\ StatementsTo'[pos' - 1] = Append(stmts', Text(i)')
  BY <1>3, <1>4, <1>5, <1>8
<1> QED
  BY <1>6, <1>9, <1>10, <1>11 DEF Inside

\* Characters are taken, and their parentheses counted, but for those of comments.
LEMMA BodyReads ==
  ASSUME ParseTypeOK, infile \in Seq(Chars), Plain, Reading, Body
  PROVE  Reading'
<1> DEFINE n == Len(infile)
           q == pos + 1
<1>1. /\ n \in Nat /\ EOF = n + 1 /\ EOF \in Nat /\ pos \in Nat /\ pos < EOF /\ pos \in 1 .. n
      /\ pos' = q
  <2>1. char # "eof" /\ pos' = After(pos)
    BY DEF Body
  <2> QED
    BY <2>1, CharIs
<1>2. /\ infile' = infile /\ stmts' = stmts /\ stmt' = Append(stmt, pos) /\ loop = "body"
      /\ parens # 0 /\ parens' = parens + Delta(CharAt(q))
      /\ loop' = IF CharAt(q) = ";" THEN "bodyComment" ELSE "body"
  BY <1>1 DEF Body, Taken
<1>3. /\ EOF' = EOF /\ Depth' = Depth /\ Opens' = Opens
      /\ \A j : InComment(j)' = InComment(j) /\ CharAt(j)' = CharAt(j)
  BY <1>2, SameFile
<1>4. PICK i \in Opens : Inside(i) /\ parens = Depth[pos] /\ ~InComment(pos)
  <2>1. ~AtEnd
    BY <1>1 DEF AtEnd
  <2>2. PICK i \in Opens : BodyOf(i)
    BY <1>2, <2>1 DEF Reading
  <2> QED
    BY <1>1, <2>2 DEF BodyOf
<1>5. Inside(i)' /\ pos' > i + 1
  BY <1>1, <1>2, <1>4, GoesOn
<1>6. q - 1 = pos /\ q \in Nat
  BY <1>1
<1> HIDE DEF q
<1>7. ASSUME q < EOF
      PROVE  /\ q \in 1 .. n /\ CharAt(q) = infile[q] /\ (InComment(q) <=> CharAt(q) = ";")
             /\ parens' = IF InComment(q) THEN Depth[pos] ELSE Depth[q]
  <2>1. q \in 1 .. n /\ CharAt(q) = infile[q]
    BY <1>1, <1>6, <1>7 DEF CharAt, q
  <2>2. InComment(q) <=> CharAt(q) = ";"
    BY <1>4, <1>6, <2>1, CommentIs
  <2>3. Depth[q] = Deeper(Depth[pos], q) /\ Depth[pos] \in Nat
    <3>1. pos \in 0 .. n
      BY <1>1
    <3> QED
      BY <1>6, <2>1, <3>1, DepthIs
  <2>4. CASE InComment(q)
    <3>1. Delta(CharAt(q)) = 0
      BY <2>2, <2>4 DEF Delta
    <3>2. Depth[pos] + 0 = Depth[pos]
      BY <2>3
    <3> QED
      BY <1>2, <1>4, <2>1, <2>2, <2>4, <3>1, <3>2
  <2>5. CASE ~InComment(q)
    <3>1. Delta(infile[q]) \in {-1, 0, 1}
      BY DEF Delta
    <3>2. Depth[pos] \in Nat /\ Depth[pos] # 0
      BY <1>2, <1>4, <2>3
    <3>3. Depth[q] = Depth[pos] + Delta(infile[q])
      BY <2>3, <2>5, <3>1, <3>2 DEF Deeper
    <3> QED
      BY <1>2, <1>4, <2>1, <2>2, <2>5, <3>3
  <2> QED
    BY <2>1, <2>2, <2>4, <2>5
<1>8. CASE CharAt(q) = ";"
  <2>1. loop' = "bodyComment"
    BY <1>2, <1>8
  <2>2. pos' < EOF' => InComment(pos)' /\ parens' = Depth'[pos' - 1]
    <3>1. q < EOF => InComment(q) /\ parens' = Depth[q - 1]
      BY <1>6, <1>7, <1>8
    <3> QED
      BY <1>1, <1>2, <1>3, <3>1 DEF InComment
  <2>3. CommentOf(i)'
    BY <1>5, <2>2 DEF CommentOf, Passing
  <2> QED
    BY <1>3, <2>1, <2>3 DEF Reading
<1>9. CASE CharAt(q) # ";"
  <2>1. loop' = "body"
    BY <1>2, <1>9
  <2>2. pos' < EOF' => parens' = Depth'[pos'] /\ ~InComment(pos)'
    <3>1. q < EOF => parens' = Depth[q] /\ ~InComment(q)
      BY <1>7, <1>9
    <3> QED
      BY <1>1, <1>2, <1>3, <3>1 DEF InComment
  <2>3. BodyOf(i)'
    BY <1>5, <2>2 DEF BodyOf
  <2> QED
    BY <1>3, <2>1, <2>3 DEF Reading
<1> QED
  BY <1>8, <1>9

\* The end of a line ends a comment, and is taken.
LEMMA CommentReads ==
  ASSUME ParseTypeOK, infile \in Seq(Chars), Plain, Reading, BodyComment
  PROVE  Reading'
<1> DEFINE n == Len(infile)
<1>1. /\ n \in Nat /\ EOF = n + 1 /\ EOF \in Nat /\ pos \in Nat /\ pos \in 1 .. EOF
      /\ pos < EOF => pos \in 1 .. n /\ char = infile[pos] /\ After(pos) = pos + 1
      /\ ~(pos < EOF) => pos = EOF /\ char = "eof" /\ After(pos) = pos
  BY CharIs
<1>2. /\ infile' = infile /\ stmts' = stmts /\ stmt' = stmt /\ parens' = parens
      /\ loop = "bodyComment"
  BY DEF BodyComment
<1>3. /\ EOF' = EOF /\ Depth' = Depth /\ Opens' = Opens
      /\ StatementsTo' = StatementsTo
  BY <1>2, SameFile
<1>4. PICK i \in Opens : CommentOf(i)
  BY <1>2 DEF Reading
<1>5. TextTo(i)' = TextTo(i) /\ Text(i)' = Text(i)
  BY <1>2, SameFile
<1>6. /\ Inside(i) /\ pos > i + 1 /\ Passing /\ (pos < EOF => parens = Depth[pos - 1])
      /\ i \in 1 .. n
  BY <1>4 DEF CommentOf, Opens
<1>7. pos < EOF => Depth[pos] = Deeper(Depth[pos - 1], pos) /\ Depth[pos - 1] \in Nat
  <2>1. pos < EOF => pos - 1 \in 0 .. n
    BY <1>1
  <2> QED
    BY <1>1, <2>1, DepthIs
<1>8. CASE char = "nl"
  <2>1. pos < EOF /\ pos' = pos /\ loop' = "body"
    <3>1. pos < EOF
      BY <1>1, <1>8
    <3> QED
      BY <1>8, <3>1 DEF BodyComment
  <2>2. ~InComment(pos)
    BY <1>1, <1>8, <2>1, CommentIs
  <2>3. Depth[pos] = Depth[pos - 1]
    <3>1. Delta(infile[pos]) = 0
      BY <1>1, <1>8, <2>1 DEF Delta
    <3> QED
      BY <1>7, <2>1, <2>2, <3>1 DEF Deeper
  <2>4. Inside(i)'
    BY <1>2, <1>3, <1>5, <1>6, <2>1 DEF Inside
  <2>5. parens' = Depth'[pos'] /\ ~InComment(pos)'
    BY <1>2, <1>3, <1>6, <2>1, <2>2, <2>3 DEF InComment
  <2>6. BodyOf(i)'
    BY <2>4, <2>5 DEF BodyOf
  <2> QED
    BY <1>3, <2>1, <2>6 DEF Reading
<1>9. CASE char # "nl" /\ pos < EOF
  <2> DEFINE q == pos + 1
  <2>1. pos' = q /\ q - 1 = pos /\ loop' = "bodyComment"
    <3>1. pos' = After(pos) /\ loop' = loop
      BY <1>9 DEF BodyComment, SkipComment
    <3> QED
      BY <1>1, <1>2, <1>9, <3>1
  <2>2. InComment(pos)
    BY <1>6, <1>9 DEF Passing
  <2>3. Depth[pos] = Depth[pos - 1]
    BY <1>7, <1>9, <2>2 DEF Deeper
  <2>4. Depth[pos] # 0
    <3>1. pos - 1 \in i + 1 .. pos - 1
      BY <1>1, <1>6
    <3> QED
      BY <1>6, <2>3, <3>1 DEF Inside
  <2>5. Inside(i)' /\ pos' > i + 1
    BY <1>2, <1>6, <1>9, <2>1, <2>2, <2>4, GoesOn
  <2> HIDE DEF q
  <2>6. q < EOF /\ CharAt(q) # "nl" => InComment(q)
    <3> SUFFICES ASSUME q < EOF, CharAt(q) # "nl" PROVE InComment(q)
      OBVIOUS
    <3>1. q \in 1 .. n /\ infile[q] # "nl"
      BY <1>1 DEF CharAt, q
    <3> QED
      BY <2>1, <2>2, <3>1, CommentIs
  <2>7. Passing'
    <3>1. char' = CharAt(q)
      BY <1>2, <1>3, <2>1 DEF char, CharAt
    <3>2. InComment(q) => InComment(pos)'
      BY <1>2, <2>1 DEF InComment
    <3> QED
      BY <1>3, <2>1, <2>6, <3>1, <3>2 DEF Passing
  <2>8. pos' < EOF' => parens' = Depth'[pos' - 1]
    BY <1>2, <1>3, <1>6, <1>9, <2>1, <2>3
  <2>9. CommentOf(i)'
    BY <2>5, <2>7, <2>8 DEF CommentOf
  <2> QED
    BY <1>3, <2>1, <2>9 DEF Reading
<1>10. CASE char # "nl" /\ ~(pos < EOF)
  <2>1. pos' = pos /\ loop' = "bodyComment" /\ ~(pos' < EOF')
    <3>1. pos' = After(pos) /\ loop' = loop
      BY <1>10 DEF BodyComment, SkipComment
    <3> QED
      BY <1>1, <1>2, <1>3, <1>10, <3>1
  <2>2. Inside(i)'
    BY <1>2, <1>3, <1>5, <1>6, <2>1 DEF Inside
  <2>3. CommentOf(i)'
    BY <1>6, <2>1, <2>2 DEF CommentOf, Passing
  <2> QED
    BY <1>3, <2>1, <2>3 DEF Reading
<1> QED
  BY <1>8, <1>9, <1>10

\* A statement that is returned is complete, and it is the next one of the file.
LEMMA ReturnReads ==
  ASSUME ParseTypeOK, infile \in Seq(Chars), Plain, Reading, Return
  PROVE  Reading'
<1> DEFINE n == Len(infile)
<1>1. /\ n \in Nat /\ EOF = n + 1 /\ EOF \in Nat /\ pos \in Nat /\ pos \in 1 .. EOF
      /\ pos < EOF => pos \in 1 .. n /\ char = infile[pos] /\ After(pos) = pos + 1 /\ char \in Chars
      /\ ~(pos < EOF) => pos = EOF /\ char = "eof" /\ After(pos) = pos
  BY CharIs
<1>2. infile' = infile /\ parens' = 0 /\ stmt' = <<>> /\ loop = "body" /\ (char = "eof" \/ parens = 0)
  BY DEF Return
<1>3. /\ EOF' = EOF /\ Depth' = Depth /\ StatementsTo' = StatementsTo /\ Statements' = Statements
  BY <1>2, SameFile
<1>4. CASE AtEnd
  <2>1. loop' = "done" /\ stmts' = stmts
    BY <1>4 DEF Return, AtEnd
  <2> QED
    BY <1>3, <1>4, <2>1 DEF Reading, AtEnd
<1>5. CASE \E i \in Opens : BodyOf(i)
  <2>1. PICK i \in Opens : Inside(i) /\ (pos < EOF => parens = Depth[pos] /\ ~InComment(pos))
    BY <1>5 DEF BodyOf
  <2>2. i \in 1 .. n /\ i < pos /\ Depth[i] = 1
    BY <2>1 DEF Opens, Inside
  <2>3. pos < EOF => parens = 0 /\ Depth[pos] = 0
    <3>1. pos < EOF => char # "eof"
      BY <1>1 DEF Chars
    <3> QED
      BY <1>2, <2>1, <3>1
  \* it has at least the one character
  <2>4. pos > i + 1
    <3> SUFFICES ASSUME ~(pos > i + 1) PROVE FALSE
      OBVIOUS
    <3>1. pos = i + 1 /\ i < n /\ infile[i + 1] = "x"
      BY <1>1, <2>1, <2>2 DEF Plain
    <3>2. pos < EOF /\ pos \in 1 .. n /\ infile[pos] = "x" /\ pos - 1 = i
      BY <1>1, <2>2, <3>1
    <3>3. Depth[pos] = Deeper(1, pos)
      BY <2>2, <3>2, DepthIs
    <3>4. Depth[pos] = 1
      <4>1. Delta(infile[pos]) = 0
        BY <3>2 DEF Delta
      <4> QED
        BY <2>1, <3>2, <3>3, <4>1 DEF Deeper
    <3> QED
      BY <2>3, <3>2, <3>4
  <2>5. stmts' = Append(stmts, stmt) /\ pos' = After(pos) /\ loop' = "seek"
    <3>1. stmt # <<>>
      BY <2>1, <2>4 DEF Inside
    <3> QED
      BY <3>1 DEF Return
  <2>6. End(i) = pos
    <3>1. /\ End(i) \in i + 1 .. EOF /\ (End(i) = EOF \/ Depth[End(i)] = 0)
          /\ \A k \in i + 1 .. End(i) - 1 : Depth[k] # 0
      BY <2>2, EndIs
    <3>2. ~(End(i) < pos)
      <4> SUFFICES ASSUME End(i) < pos PROVE FALSE
        OBVIOUS
      <4>1. End(i) \in i + 1 .. pos - 1 /\ End(i) # EOF
        BY <1>1, <2>2, <3>1
      <4> QED
        BY <2>1, <3>1, <4>1 DEF Inside
    <3>3. ~(pos < End(i))
      <4> SUFFICES ASSUME pos < End(i) PROVE FALSE
        OBVIOUS
      <4>1. pos \in i + 1 .. End(i) - 1 /\ pos < EOF
        BY <1>1, <2>2, <3>1
      <4> QED
        BY <2>3, <3>1, <4>1
    <3>4. End(i) \in Int
      BY <1>1, <2>2, <3>1
    <3> QED
      BY <1>1, <3>2, <3>3, <3>4
  <2>7. StatementsTo[pos - 1] = stmts'
    BY <2>1, <2>5, <2>6 DEF Inside, Text
  <2>8. CASE pos < EOF
    <3>1. pos' = pos + 1 /\ pos' - 1 = pos /\ pos \in 1 .. n
      BY <1>1, <2>5, <2>8
    <3>2. pos \notin Opens
      BY <2>3, <2>8 DEF Opens
    <3>3. StatementsTo[pos] = stmts'
      BY <2>7, <3>1, <3>2, StatementsToIs
    <3>4. Outside'
      BY <1>2, <1>3, <3>1, <3>3 DEF Outside
    <3>5. Depth'[pos' - 1] = 0
      BY <1>3, <2>3, <2>8, <3>1
    <3>6. ~InComment(pos' - 1)
      BY <2>1, <2>8, <3>1
    <3>7. ~InComment(pos - 1)'
      BY <1>2, <3>6 DEF InComment
    <3> QED
      BY <2>5, <3>4, <3>5, <3>7 DEF Reading
  <2>9. CASE ~(pos < EOF)
    <3>1. pos' = pos /\ ~(pos' < EOF')
      BY <1>1, <1>3, <2>5, <2>9
    <3>2. Outside'
      BY <1>2, <1>3, <2>7, <3>1 DEF Outside
    <3> QED
      BY <2>5, <3>1, <3>2 DEF Reading
  <2> QED
    BY <2>8, <2>9
<1> QED
  BY <1>2, <1>4, <1>5 DEF Reading

-----------------------------------------------------------------------------
\* What all loops leave as it is.
LEMMA ParseBegins == ParseInit => ParseInv
<1> SUFFICES ASSUME ParseInit PROVE ParseInv
  OBVIOUS
<1>1. /\ infile \in Seq(Chars) /\ pos = 1 /\ parens = 0 /\ stmt = <<>> /\ loop = "seek"
      /\ stmts = <<>>
  BY FilesAreChars DEF ParseInit
<1>2. Len(infile) \in Nat
  BY <1>1
<1>3. ParseTypeOK
  BY <1>1, <1>2 DEF ParseTypeOK, EOF
<1>4. Depth[0] = 0 /\ ~InComment(pos - 1) /\ StatementsTo[0] = <<>> /\ pos - 1 = 0
  <2>1. Depth[0] = 0
    BY <1>1, DepthIs
  <2>2. ~InComment(0)
    BY <1>1, CommentIs
  <2>3. StatementsTo[0] = <<>>
    BY <1>1, StatementsToIs
  <2>4. pos - 1 = 0
    BY <1>1
  <2> QED
    BY <2>1, <2>2, <2>3, <2>4
<1>5. Reading
  BY <1>1, <1>4 DEF Reading, Outside
<1> QED
  BY <1>1, <1>3, <1>5 DEF ParseInv

LEMMA ParseKeeps == ParseInv /\ [ParseNext]_parseVars => ParseInv'
<1> SUFFICES ASSUME ParseInv, [ParseNext]_parseVars PROVE ParseInv'
  OBVIOUS
<1>1. ParseTypeOK /\ infile \in Seq(Chars) /\ (Plain => Reading)
  BY DEF ParseInv, ParseTypeOK
<1>2. ParseTypeOK' /\ infile' = infile
  BY <1>1, ParseTyped
<1>3. ASSUME Plain PROVE Reading'
  <2>1. CASE Seek \/ SeekComment
    BY <1>1, <1>3, <2>1, SeekReads
  <2>2. CASE Open
    BY <1>1, <1>3, <2>2, OpenReads
  <2>3. CASE Body
    BY <1>1, <1>3, <2>3, BodyReads
  <2>4. CASE BodyComment
    BY <1>1, <1>3, <2>4, CommentReads
  <2>5. CASE Return
    BY <1>1, <1>3, <2>5, ReturnReads
  <2>6. CASE UNCHANGED parseVars
    <3>1. Reading' <=> Reading
      BY <2>6 DEF parseVars, Reading, Outside, Passing, AtEnd, BodyOf, CommentOf, Inside,
                  StatementsTo, Statements, Opens, Text, TextTo, InComment, End, EOF, Depth,
                  char, CharAt
    <3> QED
      BY <1>1, <1>3, <3>1
  <2> QED
    BY <2>1, <2>2, <2>3, <2>4, <2>5, <2>6 DEF ParseNext
<1>4. Plain' = Plain
  BY <1>2, SameFile
<1> QED
  BY <1>2, <1>3, <1>4 DEF ParseInv

LEMMA ParseInvariant == ParseSpec => []ParseInv
  BY ParseBegins, ParseKeeps, PTL DEF ParseSpec

\* Of every file whose statements begin with a word, the parser returns the statements,
\* each once, in order, whole and without their comments.
THEOREM StatementsAreRight == ParseSpec => []StatementsRight
<1>1. ParseInv => StatementsRight
  <2> SUFFICES ASSUME ParseInv, Plain
               PROVE  /\ Len(stmts) <= Len(Statements)
                      /\ \A j \in DOMAIN stmts : stmts[j] = Statements[j]
                      /\ loop = "done" => Len(stmts) = Len(Statements)
    BY DEF StatementsRight
  <2> DEFINE n == Len(infile)
             p == pos - 1
             f == StatementsTo
  <2>0. infile \in Seq(Chars)
    BY DEF ParseInv, ParseTypeOK
  <2>1. ParseTypeOK /\ Reading /\ n \in Nat /\ pos \in 1 .. n + 1 /\ p \in 0 .. n
    <3>1. ParseTypeOK /\ Reading /\ n \in Nat /\ pos \in 1 .. n + 1
      BY DEF ParseInv, ParseTypeOK, EOF
    <3> QED
      BY <3>1
  <2>2. /\ Len(f[p]) <= Len(Statements) /\ \A j \in 1 .. Len(f[p]) : f[p][j] = Statements[j]
    BY <2>0, <2>1, StatementsGrow
  <2>3. stmts \in Seq(Seq(1 .. n)) /\ Len(stmts) \in Nat /\ DOMAIN stmts = 1 .. Len(stmts)
    <3> DEFINE S == Seq(1 .. n)
    <3>1. stmts \in Seq(S)
      BY <2>1 DEF ParseTypeOK
    <3> HIDE DEF S
    <3> QED
      BY <3>1 DEF S
  <2>4. stmts = Statements \/ stmts = f[p] \/ \E t : f[p] = Append(stmts, t)
    BY <2>1 DEF ParseTypeOK, Reading, Outside, AtEnd, BodyOf, CommentOf, Inside
  <2>5. loop = "done" => stmts = Statements
    BY <2>1 DEF Reading
  <2> HIDE DEF p, f, n
  <2>6. CASE \E t : f[p] = Append(stmts, t)
    <3>1. PICK t : f[p] = Append(stmts, t)
      BY <2>6
    <3> DEFINE S == Seq(1 .. n)
    <3>2. stmts \in Seq(S)
      BY <2>3
    <3> HIDE DEF S
    <3>3. /\ Len(f[p]) = Len(stmts) + 1
          /\ \A j \in 1 .. Len(stmts) : f[p][j] = stmts[j] /\ j \in 1 .. Len(f[p])
      BY <2>3, <3>1, <3>2
    <3>4. f \in [0 .. n -> Seq(Seq(Nat))]
      BY <2>0, StatementsToIs DEF f, n
    <3>5. Statements \in Seq(Seq(Nat))
      BY <2>1, <3>4 DEF Statements, f, n
    <3>6. Len(Statements) \in Nat
      BY <3>5
    <3>7. Len(stmts) <= Len(Statements)
      BY <2>2, <2>3, <3>3, <3>6
    <3>8. \A j \in 1 .. Len(stmts) : stmts[j] = Statements[j]
      BY <2>2, <3>3
    <3> QED
      BY <2>3, <2>5, <3>7, <3>8
  <2>7. CASE stmts = Statements
    BY <2>3, <2>7
  <2>8. CASE stmts = f[p]
    BY <2>2, <2>3, <2>5, <2>8
  <2> QED
    BY <2>4, <2>6, <2>7, <2>8
<1> QED
  BY ParseInvariant, <1>1, PTL

=============================================================================
