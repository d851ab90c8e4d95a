------------------------- MODULE PolicyBuildProofs -------------------------
(***************************************************************************)
(* The properties of PolicyBuild, proved for any contents of the           *)
(* directories, settings, edits, number of builds and of faults.           *)
(*                                                                         *)
(* The argument has two halves.  Inv says that what is done was made of    *)
(* what its inputs are now and was accepted, and is an invariant of the    *)
(* build.  A successful build is then a set of equations, one for each     *)
(* output, and the other properties are consequences of the equations.     *)
(***************************************************************************)
EXTENDS PolicyBuild, TLAPS

Precompiled == "precompiled_sepolicy"

Typed ==
  /\ srcs \in Sources
  /\ \E c \in Cases : settings = c.settings
  /\ DOMAIN out \subseteq Modules
  /\ status \in [Modules -> {"todo", "done", "failed"}]
  /\ job = Idle \/ \E m \in Modules : \E k \in DOMAIN Rule[m] : job = <<m, k>> /\ status[m] = "todo"

Ready(m) == \A n \in Reads(m) : status[n] = "done"

Took(m, k) == Accepted(Rule[m][k], Made(m, k - 1))

\* an output that is done is what its rule makes of its inputs
DoneAt(m) ==
  /\ Ready(m)
  /\ m \in DOMAIN out /\ out[m] = Resulting(m)
  /\ \A k \in DOMAIN Rule[m] : Took(m, k)

DoneIsMade == \A m \in Modules : status[m] = "done" => DoneAt(m)

\* ... and the rule that runs is on the way there; only the last command of
\* precompiled_sepolicy writes its output
WayAt(m, k) ==
  /\ Ready(m)
  /\ k # 1 /\ m # Precompiled => m \in DOMAIN out /\ out[m] = Made(m, k - 1)
  /\ \A j \in 1 .. k - 1 : Took(m, j)

OnTheWay == \A m \in Modules : \A k \in DOMAIN Rule[m] : job = <<m, k>> => WayAt(m, k)

\* a failure that is hidden is none of the neverallow test
Tried ==
  status["sepolicy_neverallows"] = "done" =>
    settings.ignore \/ (Accepts(Tested) /\ ~Violated(UNION {srcs[d] : d \in Tested}))

Inv ==
  /\ Typed
  /\ ~concealed => DoneIsMade /\ OnTheWay
  /\ Tried

-----------------------------------------------------------------------------
(***************************************************************************)
(* The rules.                                                              *)
(***************************************************************************)
LEMMA RuleLengths ==
  ASSUME NEW m \in Modules
  PROVE  Len(Rule[m]) \in 1 .. 3 /\ DOMAIN Rule[m] = 1 .. Len(Rule[m])
BY DEF Modules, Rule, BinaryRule

LEMMA One ==
  ASSUME NEW a, NEW k \in DOMAIN <<a>>
  PROVE  k = 1 /\ <<a>>[k] = a
OBVIOUS

LEMMA Two ==
  ASSUME NEW a, NEW b, NEW k \in DOMAIN <<a, b>>
  PROVE  (k = 1 => <<a, b>>[k] = a) /\ (k # 1 => <<a, b>>[k] = b)
OBVIOUS

LEMMA Three ==
  ASSUME NEW a, NEW b, NEW c, NEW k \in DOMAIN <<a, b, c>>
  PROVE  (k = 1 => <<a, b, c>>[k] = a) /\ (k # 1 => <<a, b, c>>[k] \in {b, c})
OBVIOUS

LEMMA RuleIs ==
  /\ Rule["reqd_policy_mask"] = <<Checkpolicy(Mask)>>
  /\ Rule["plat_pub_policy"] = <<Checkpolicy({"plat_public"} \cup Mask), FilterOut(RawMask)>>
  /\ Rule["pub_policy"] = <<Checkpolicy(Exported), FilterOut(RawMask)>>
  /\ Rule["plat_sepolicy"] = <<Checkpolicy({"plat_public", "plat_private"}), Cat(Debt), Secilc({})>>
  /\ Rule["system_ext_sepolicy"] =
       <<Checkpolicy(Public \cup Private), FilterOut({"plat_sepolicy"}), Secilc({"plat_sepolicy"})>>
  /\ Rule["plat_mapping_file"] = <<Mapping("plat_pub_policy")>>
  /\ Rule["system_ext_mapping_file"] = <<Mapping("pub_policy"), FilterOut({"plat_mapping_file"})>>
  /\ Rule["plat_pub_versioned"] = <<VersionPolicy("pub_policy", "pub_policy")>>
  /\ Rule["vendor_sepolicy_raw"] = <<Checkpolicy(Exported \cup {"vendor"}), FilterOut(RawMask)>>
  /\ Rule["vendor_sepolicy"] =
       <<VersionPolicy("pub_policy", "vendor_sepolicy_raw"), FilterOut({"plat_pub_versioned"}), SecilcN(Split)>>
  /\ Rule["odm_sepolicy_raw"] =
       <<Checkpolicy(Exported \cup Vendor), FilterOut(RawMask \cup {"vendor_sepolicy_raw"})>>
  /\ Rule["odm_sepolicy"] =
       <<VersionPolicy("pub_policy", "odm_sepolicy_raw"), FilterOut({"plat_pub_versioned"}), SecilcN(Split \cup {"vendor_sepolicy"})>>
  /\ Rule["sepolicy_neverallows"] = <<NeverallowTest(Tested)>>
  /\ Rule[Precompiled] = <<Binary(Installed), PermissiveCheck(Installed), Copy(Installed)>>
BY DEF Rule, BinaryRule, Precompiled

LEMMA ModulesAre ==
  Modules = {"reqd_policy_mask", "plat_pub_policy", "pub_policy",
    "plat_sepolicy", "system_ext_sepolicy", "plat_mapping_file",
    "system_ext_mapping_file", "plat_pub_versioned", "vendor_sepolicy_raw",
    "vendor_sepolicy", "odm_sepolicy_raw", "odm_sepolicy",
    "precompiled_sepolicy", "sepolicy_neverallows"}
BY DEF Modules, Rule

LEMMA DirsAre ==
  Dirs = {"plat_public", "system_ext_public", "plat_private", "system_ext_private",
          "vendor", "odm", "reqd_mask", "technical_debt"}
BY DEF Dirs, Public, Private, Vendor, Mask, Debt

LEMMA DirFields ==
  ASSUME NEW dirs
  PROVE  /\ Checkpolicy(dirs).tool = "checkpolicy" /\ Checkpolicy(dirs).dirs = dirs /\ Checkpolicy(dirs).mods = {}
         /\ NeverallowTest(dirs).tool = "neverallow_test" /\ NeverallowTest(dirs).dirs = dirs /\ NeverallowTest(dirs).mods = {}
         /\ Cat(dirs).tool = "cat" /\ Cat(dirs).dirs = dirs /\ Cat(dirs).mods = {}
BY DEF Command, Checkpolicy, NeverallowTest, Cat

LEMMA ModFields ==
  ASSUME NEW mods
  PROVE  /\ FilterOut(mods).tool = "filter_out"
         /\ FilterOut(mods).mods = mods /\ FilterOut(mods).dirs = {}
         /\ Secilc(mods).tool = "secilc"
         /\ Secilc(mods).mods = mods /\ Secilc(mods).dirs = {}
         /\ SecilcN(mods).tool = "secilc -N"
         /\ SecilcN(mods).mods = mods /\ SecilcN(mods).dirs = {}
         /\ Binary(mods).tool = "binary"
         /\ Binary(mods).mods = mods /\ Binary(mods).dirs = {}
         /\ PermissiveCheck(mods).tool = "permissive"
         /\ PermissiveCheck(mods).mods = mods /\ PermissiveCheck(mods).dirs = {}
         /\ Copy(mods).tool = "cp"
         /\ Copy(mods).mods = mods /\ Copy(mods).dirs = {}
BY DEF Command, FilterOut, Secilc, SecilcN, Binary, PermissiveCheck, Copy

LEMMA ConversionFields ==
  ASSUME NEW base, NEW target
  PROVE  /\ Mapping(base).tool = "mapping"
         /\ Mapping(base).dirs = {} /\ Mapping(base).mods = {base}
         /\ Mapping(base).base = base /\ Mapping(base).target = ""
         /\ VersionPolicy(base, target).tool = "version_policy"
         /\ VersionPolicy(base, target).dirs = {}
         /\ VersionPolicy(base, target).mods = {base, target}
         /\ VersionPolicy(base, target).base = base
         /\ VersionPolicy(base, target).target = target
BY DEF Mapping, VersionPolicy

(***************************************************************************)
(* A command reads outputs of other rules, and only these and directories. *)
(* The first command of a rule does not read the rule's output and the     *)
(* others do, but in precompiled_sepolicy.                                 *)
(***************************************************************************)
Well(c, m) ==
  /\ c.mods \subseteq Modules \ {m}
  /\ c.dirs \subseteq Dirs
  /\ c.tool \in {"mapping", "version_policy"} =>
       c.base \in c.mods /\ (c.target = "" \/ c.target \in c.mods)

Starts(c)  == c.tool \in {"checkpolicy", "mapping", "version_policy", "neverallow_test"}
Follows(c) == c.tool \in {"filter_out", "cat", "secilc", "secilc -N"}

LEMMA IsWell ==
  ASSUME NEW c, NEW m, c.mods \subseteq Modules \ {m}, c.dirs \subseteq Dirs,
         c.tool \notin {"mapping", "version_policy"}
  PROVE  Well(c, m)
BY DEF Well

LEMMA OfDirs ==
  ASSUME NEW m, NEW dirs \in SUBSET Dirs
  PROVE  /\ Well(Checkpolicy(dirs), m) /\ Starts(Checkpolicy(dirs))
         /\ Well(NeverallowTest(dirs), m) /\ Starts(NeverallowTest(dirs))
         /\ Well(Cat(dirs), m) /\ Follows(Cat(dirs))
<1>1. Well(Checkpolicy(dirs), m)
  BY DirFields, IsWell
<1>2. Well(NeverallowTest(dirs), m)
  BY DirFields, IsWell
<1>3. Well(Cat(dirs), m)
  BY DirFields, IsWell
<1>4. Starts(Checkpolicy(dirs)) /\ Starts(NeverallowTest(dirs))
  BY DirFields DEF Starts
<1>5. Follows(Cat(dirs))
  BY DirFields DEF Follows
<1> QED
  BY <1>1, <1>2, <1>3, <1>4, <1>5

LEMMA OfMods ==
  ASSUME NEW m, NEW mods \in SUBSET (Modules \ {m})
  PROVE  /\ Well(FilterOut(mods), m) /\ Follows(FilterOut(mods))
         /\ Well(Secilc(mods), m) /\ Follows(Secilc(mods))
         /\ Well(SecilcN(mods), m) /\ Follows(SecilcN(mods))
         /\ Well(Binary(mods), m) /\ Well(PermissiveCheck(mods), m) /\ Well(Copy(mods), m)
<1>1. Well(FilterOut(mods), m)
  BY ModFields, IsWell
<1>2. Well(Secilc(mods), m)
  BY ModFields, IsWell
<1>3. Well(SecilcN(mods), m)
  BY ModFields, IsWell
<1>4. Well(Binary(mods), m)
  BY ModFields, IsWell
<1>5. Well(PermissiveCheck(mods), m)
  BY ModFields, IsWell
<1>6. Well(Copy(mods), m)
  BY ModFields, IsWell
<1>7. Follows(FilterOut(mods)) /\ Follows(Secilc(mods)) /\ Follows(SecilcN(mods))
  BY ModFields DEF Follows
<1> QED
  BY <1>1, <1>2, <1>3, <1>4, <1>5, <1>6, <1>7

LEMMA OfBase ==
  ASSUME NEW m, NEW base \in Modules \ {m}, NEW target \in Modules \ {m}
  PROVE  /\ Well(Mapping(base), m) /\ Starts(Mapping(base))
         /\ Well(VersionPolicy(base, target), m) /\ Starts(VersionPolicy(base, target))
<1>1. Well(Mapping(base), m)
  BY DEF Mapping, VersionPolicy, Well
<1>2. Well(VersionPolicy(base, target), m)
  BY DEF Mapping, VersionPolicy, Well
<1>3. Starts(Mapping(base)) /\ Starts(VersionPolicy(base, target))
  BY DEF Mapping, VersionPolicy, Starts
<1> QED
  BY <1>1, <1>2, <1>3

LEMMA RuleCommands ==
  ASSUME NEW m \in Modules, NEW k \in DOMAIN Rule[m]
  PROVE  /\ Well(Rule[m][k], m)
         /\ m # Precompiled /\ k = 1 => Starts(Rule[m][k])
         /\ m # Precompiled /\ k # 1 => Follows(Rule[m][k])
<1> USE RuleIs, OfDirs, OfMods, OfBase, DirsAre, ModulesAre
    DEF Mask, Public, Private, Vendor, Debt, Exported, RawMask, Split, Tested, Installed, Precompiled
<1>1. CASE m = "reqd_policy_mask"
  BY <1>1, One
<1>2. CASE m = "plat_pub_policy"
  BY <1>2, Two
<1>3. CASE m = "pub_policy"
  BY <1>3, Two
<1>4. CASE m = "plat_sepolicy"
  BY <1>4, Three
<1>5. CASE m = "system_ext_sepolicy"
  BY <1>5, Three
<1>6. CASE m = "plat_mapping_file"
  BY <1>6, One
<1>7. CASE m = "system_ext_mapping_file"
  <2>1. /\ Well(Mapping("pub_policy"), m) /\ Starts(Mapping("pub_policy"))
        /\ Well(FilterOut({"plat_mapping_file"}), m) /\ Follows(FilterOut({"plat_mapping_file"}))
    BY <1>7
  <2> QED
    BY <2>1, <1>7, Two
<1>8. CASE m = "plat_pub_versioned"
  <2>1. LET c == VersionPolicy("pub_policy", "pub_policy") IN Well(c, m) /\ Starts(c)
    <3>1. "pub_policy" \in Modules \ {m}
      BY <1>8
    <3> HIDE RuleIs, OfDirs, OfMods, DirsAre, ModulesAre
    <3> QED
      BY <3>1, OfBase
  <2> QED
    BY <2>1, <1>8, One
<1>9. CASE m = "vendor_sepolicy_raw"
  BY <1>9, Two
<1>10. CASE m = "vendor_sepolicy"
  BY <1>10, Three
<1>11. CASE m = "odm_sepolicy_raw"
  BY <1>11, Two
<1>12. CASE m = "odm_sepolicy"
  <2>1. LET c == VersionPolicy("pub_policy", "odm_sepolicy_raw") IN Well(c, m) /\ Starts(c)
    <3>1. "pub_policy" \in Modules \ {m} /\ "odm_sepolicy_raw" \in Modules \ {m}
      BY <1>12
    <3> HIDE RuleIs, OfDirs, OfMods, DirsAre, ModulesAre
    <3> QED
      BY <3>1, OfBase
  <2>2. LET c == FilterOut({"plat_pub_versioned"}) IN Well(c, m) /\ Follows(c)
    BY <1>12
  <2>3. LET c == SecilcN(Split \cup {"vendor_sepolicy"}) IN Well(c, m) /\ Follows(c)
    <3>1. Split \cup {"vendor_sepolicy"} \subseteq Modules \ {m}
      BY <1>12
    <3> QED
      BY <3>1, OfMods
  <2> HIDE OfDirs, OfMods, OfBase DEF Split
  <2> QED
    BY <2>1, <2>2, <2>3, <1>12, Three
<1>13. CASE m = "precompiled_sepolicy"
  BY <1>13, Three
<1>14. CASE m = "sepolicy_neverallows"
  BY <1>14, One
<1> QED
  BY <1>1, <1>2, <1>3, <1>4, <1>5, <1>6, <1>7, <1>8, <1>9, <1>10, <1>11, <1>12, <1>13, <1>14

(***************************************************************************)
(* What a rule depends on.                                                 *)
(***************************************************************************)
LEMMA ReadsAre ==
  ASSUME NEW m \in Modules
  PROVE  /\ Reads(m) \subseteq Modules /\ m \notin Reads(m)
         /\ \A k \in DOMAIN Rule[m] : Rule[m][k].mods \subseteq Reads(m)
<1>1. \A k \in DOMAIN Rule[m] : Rule[m][k].mods \subseteq Modules \ {m}
  BY RuleCommands DEF Well
<1>2. ASSUME NEW n \in Reads(m)
      PROVE  n # m /\ \E k \in DOMAIN Rule[m] : n \in Rule[m][k].mods
  BY DEF Reads
<1>3. ASSUME NEW k \in DOMAIN Rule[m], NEW n \in Rule[m][k].mods
      PROVE  n \in Reads(m)
  BY <1>1, <1>3 DEF Reads
<1> QED
  BY <1>1, <1>2, <1>3

\* the least set that holds what the rule reads and what its members read
Closure ==
  [m \in Modules |->
     {x \in Modules : \A C \in SUBSET Modules :
        Reads(m) \subseteq C /\ (\A n \in C : Reads(n) \subseteq C) => x \in C}]

LEMMA ClosureGrows ==
  ASSUME NEW m \in Modules, NEW n \in Reads(m)
  PROVE  Closure[n] \subseteq Closure[m]
<1>1. n \in Modules
  BY ReadsAre
<1> SUFFICES ASSUME NEW x \in Closure[n], NEW C \in SUBSET Modules,
                    Reads(m) \subseteq C, \A y \in C : Reads(y) \subseteq C
             PROVE  x \in C
  BY <1>1 DEF Closure
<1>2. Reads(n) \subseteq C
  OBVIOUS
<1> QED
  BY <1>1, <1>2 DEF Closure

LEMMA ClosureIs ==
  ASSUME NEW m \in Modules
  PROVE  Closure[m] = Reads(m) \cup UNION {Closure[n] : n \in Reads(m)}
<1> DEFINE D == Reads(m) \cup UNION {Closure[n] : n \in Reads(m)}
<1>1. \A n \in Modules : Reads(n) \subseteq Closure[n] /\ Closure[n] \subseteq Modules
  BY ReadsAre DEF Closure
<1>2. D \subseteq Closure[m]
  BY <1>1, ClosureGrows
<1>3. D \in SUBSET Modules
  BY <1>1, ReadsAre
<1>4. \A y \in D : Reads(y) \subseteq D
  <2>1. ASSUME NEW y \in Reads(m)
        PROVE  Reads(y) \subseteq D
    BY <1>1, ReadsAre
  <2>2. ASSUME NEW n \in Reads(m), NEW y \in Closure[n]
        PROVE  Reads(y) \subseteq Closure[n]
    <3>1. n \in Modules /\ y \in Modules
      BY <1>1, ReadsAre
    <3> SUFFICES ASSUME NEW z \in Reads(y), NEW C \in SUBSET Modules,
                        Reads(n) \subseteq C, \A x \in C : Reads(x) \subseteq C
                 PROVE  z \in C
      BY <3>1, ReadsAre DEF Closure
    <3>2. y \in C
      BY <3>1 DEF Closure
    <3> QED
      BY <3>2
  <2> QED
    BY <2>1, <2>2
<1>5. Closure[m] \subseteq D
  <2>1. Reads(m) \subseteq D
    OBVIOUS
  <2> HIDE DEF D
  <2> QED
    BY <1>3, <1>4, <2>1 DEF Closure
<1> QED
  BY <1>2, <1>5

LEMMA UpstreamIs ==
  ASSUME NEW m \in Modules
  PROVE  Upstream[m] = Reads(m) \cup UNION {Upstream[n] : n \in Reads(m)}
<1> DEFINE Equation(f) == f = [n \in Modules |-> Reads(n) \cup UNION {f[x] : x \in Reads(n)}]
<1>1. Equation(Closure)
  <2>1. Closure = [n \in Modules |-> Closure[n]]
    BY DEF Closure
  <2> QED
    BY <2>1, ClosureIs
<1>2. Equation(CHOOSE f : Equation(f))
  BY <1>1
<1>3. Upstream = CHOOSE f : Equation(f)
  BY DEF Upstream
<1> HIDE DEF Equation
<1>4. Equation(Upstream)
  BY <1>2, <1>3
<1> QED
  BY <1>4 DEF Equation

LEMMA SourcesGrow ==
  ASSUME NEW m \in Modules
  PROVE  /\ \A k \in DOMAIN Rule[m] : Rule[m][k].dirs \subseteq SourcesOf(m)
         /\ \A n \in Reads(m) : SourcesOf(n) \subseteq SourcesOf(m)

<1> DEFINE Dirs_(n) == UNION {Rule[n][i].dirs : i \in DOMAIN Rule[n]}
<1>1. \A n : SourcesOf(n) = UNION {Dirs_(x) : x \in Upstream[n] \cup {n}}
  BY DEF SourcesOf
<1>2. ASSUME NEW k \in DOMAIN Rule[m]
      PROVE  Rule[m][k].dirs \subseteq Dirs_(m)
  OBVIOUS
<1>3. Dirs_(m) \subseteq SourcesOf(m)
  <2> HIDE DEF Dirs_
  <2> QED
    BY <1>1
<1>4. ASSUME NEW n \in Reads(m)
      PROVE  SourcesOf(n) \subseteq SourcesOf(m)
  <2>1. Upstream[n] \cup {n} \subseteq Upstream[m] \cup {m}
    BY UpstreamIs
  <2> HIDE DEF Dirs_
  <2> QED
    BY <1>1, <2>1
<1> QED
  BY <1>2, <1>3, <1>4

(***************************************************************************)
(* What commands make depends on what they read alone.                     *)
(***************************************************************************)
LEMMA SameCommand ==
  ASSUME NEW m, NEW c, Well(c, m),
         \A d \in c.dirs : srcs'[d] = srcs[d],
         \A n \in c.mods : out'[n] = out[n],
         UNCHANGED settings
  PROVE  \A o : Effect(c, o)' = Effect(c, o) /\ Accepted(c, o)' = Accepted(c, o)
<1>1. Conf(c)' = Conf(c)
  BY DEF Conf
<1>2. Merged(c)' = Merged(c)
  BY DEF Merged
<1>3. Accepts(c.dirs)' = Accepts(c.dirs)
  <2>1. (UNION {srcs[d] : d \in c.dirs})' = UNION {srcs[d] : d \in c.dirs}
    OBVIOUS
  <2> QED
    BY <2>1 DEF Accepts
<1>4. c.tool \in {"mapping", "version_policy"} => Version(c)' = Version(c)
  BY DEF Version, Well
<1>5. Offenders(c)' = Offenders(c)
  BY <1>2 DEF Offenders
<1>6. \A ls : Checked(ls)' = Checked(ls)
  BY DEF Checked
<1>7. \A o : Effect(c, o)' = Effect(c, o)
  BY <1>1, <1>2, <1>4 DEF Effect
<1>8. \A o : Accepted(c, o)' = Accepted(c, o)
  BY <1>1, <1>2, <1>3, <1>5, <1>6 DEF Accepted
<1> QED
  BY <1>7, <1>8

LEMMA MadeIs ==
  ASSUME NEW m \in Modules, NEW k \in DOMAIN Rule[m]
  PROVE  /\ k \in 1 .. 3 /\ k - 1 \in 0 .. 2
         /\ Made(m, k) = Effect(Rule[m][k], Made(m, k - 1))
         /\ Resulting(m) = Made(m, Len(Rule[m]))
<1>1. k \in 1 .. 3
  BY RuleLengths
<1> QED
  BY <1>1 DEF Made, Resulting

LEMMA SameRule ==
  ASSUME NEW m \in Modules,
         \A k \in DOMAIN Rule[m] : \A d \in Rule[m][k].dirs : srcs'[d] = srcs[d],
         \A n \in Reads(m) : out'[n] = out[n],
         UNCHANGED settings
  PROVE  /\ \A k \in DOMAIN Rule[m] : Took(m, k)' = Took(m, k)
         /\ \A k \in 0 .. Len(Rule[m]) : Made(m, k)' = Made(m, k)
         /\ Resulting(m)' = Resulting(m)
<1>1. ASSUME NEW k \in DOMAIN Rule[m]
      PROVE  \A o : /\ Effect(Rule[m][k], o)' = Effect(Rule[m][k], o)
                    /\ Accepted(Rule[m][k], o)' = Accepted(Rule[m][k], o)
  BY ReadsAre, RuleCommands, SameCommand
<1>2. Made(m, 0)' = Made(m, 0)
  BY DEF Made
<1>3. 1 \in DOMAIN Rule[m] => Made(m, 1)' = Made(m, 1)
  BY <1>1 DEF Made
<1>4. {1, 2} \subseteq DOMAIN Rule[m] => Made(m, 2)' = Made(m, 2)
  BY <1>1 DEF Made
<1>5. {1, 2, 3} \subseteq DOMAIN Rule[m] => Made(m, 3)' = Made(m, 3)
  BY <1>1 DEF Made
<1>6. \A k \in 0 .. Len(Rule[m]) : Made(m, k)' = Made(m, k)
  <2>1. DOMAIN Rule[m] = 1 .. Len(Rule[m]) /\ Len(Rule[m]) \in 1 .. 3
    BY RuleLengths
  <2> SUFFICES ASSUME NEW k \in 0 .. Len(Rule[m])
               PROVE  Made(m, k)' = Made(m, k)
    OBVIOUS
  <2>2. CASE k = 0
    BY <1>2, <2>2
  <2>3. CASE k = 1
    BY <1>3, <2>1, <2>3
  <2>4. CASE k = 2
    BY <1>4, <2>1, <2>4
  <2>5. CASE k = 3
    BY <1>5, <2>1, <2>5
  <2>6. k = 0 \/ k = 1 \/ k = 2 \/ k = 3
    <3>1. \A l \in 1 .. 3 : \A i \in 0 .. l : i = 0 \/ i = 1 \/ i = 2 \/ i = 3
      OBVIOUS
    <3> QED
      BY <2>1, <3>1, Zenon
  <2> QED
    BY <2>2, <2>3, <2>4, <2>5, <2>6
<1>7. \A k \in DOMAIN Rule[m] : Made(m, k - 1)' = Made(m, k - 1)
  BY <1>6, RuleLengths
<1>8. \A k \in DOMAIN Rule[m] : Took(m, k)' = Took(m, k)
  BY <1>1, <1>7 DEF Took
<1>9. Resulting(m)' = Resulting(m)
  BY <1>6, RuleLengths DEF Resulting
<1> QED
  BY <1>6, <1>8, <1>9

LEMMA FirstIgnores ==
  ASSUME NEW c, Starts(c), NEW o, NEW p
  PROVE  Effect(c, o) = Effect(c, p) /\ (Accepted(c, o) <=> Accepted(c, p))
BY DEF Starts, Effect, Accepted

LEMMA PrecompiledIs ==
  /\ DOMAIN Rule[Precompiled] = {1, 2, 3}
  /\ Rule[Precompiled][1] = Binary(Installed)
  /\ Rule[Precompiled][2] = PermissiveCheck(Installed)
  /\ Rule[Precompiled][3] = Copy(Installed)
  /\ Rule[Precompiled][1].tool = "binary"
  /\ Rule[Precompiled][2].tool = "permissive"
  /\ Rule[Precompiled][3].tool = "cp"
  /\ Len(Rule[Precompiled]) = 3
<1>1. /\ DOMAIN Rule[Precompiled] = {1, 2, 3}
      /\ Rule[Precompiled][1] = Binary(Installed)
      /\ Rule[Precompiled][2] = PermissiveCheck(Installed)
      /\ Rule[Precompiled][3] = Copy(Installed)
      /\ Len(Rule[Precompiled]) = 3
  BY RuleIs
<1>2. /\ Binary(Installed).tool = "binary" /\ PermissiveCheck(Installed).tool = "permissive"
      /\ Copy(Installed).tool = "cp"
  BY ModFields
<1> QED
  BY <1>1, <1>2, Zenon

-----------------------------------------------------------------------------
(***************************************************************************)
(* The steps of the build.                                                 *)
(***************************************************************************)
LEMMA InitInv == Init => Inv
<1> SUFFICES ASSUME Init PROVE Inv
  OBVIOUS
<1>1. Typed
  BY CasesAssumption DEF Init, Typed
<1>2. \A m \in Modules : status[m] # "done"
  BY DEF Init
<1>3. DoneIsMade /\ OnTheWay
  BY <1>2 DEF Init, DoneIsMade, OnTheWay, Idle
<1>4. "sepolicy_neverallows" \in Modules
  BY ModulesAre
<1> QED
  BY <1>1, <1>2, <1>3, <1>4 DEF Inv, Tried

LEMMA KeepDone ==
  ASSUME NEW m \in Modules, DoneAt(m),
         \A k \in DOMAIN Rule[m] : \A d \in Rule[m][k].dirs : srcs'[d] = srcs[d],
         \A n \in Reads(m) \cup {m} : out'[n] = out[n],
         UNCHANGED settings,
         m \in DOMAIN out',
         \A n \in Reads(m) : status'[n] = "done"
  PROVE  DoneAt(m)'
<1>1. /\ \A k \in DOMAIN Rule[m] : Took(m, k)' = Took(m, k)
      /\ Resulting(m)' = Resulting(m)
  BY SameRule
<1>2. Ready(m)'
  BY DEF Ready
<1> QED
  BY <1>1, <1>2 DEF DoneAt

LEMMA KeepWay ==
  ASSUME NEW m \in Modules, NEW k \in DOMAIN Rule[m], WayAt(m, k),
         UNCHANGED <<srcs, settings, out>>,
         \A n \in Reads(m) : status'[n] = "done"
  PROVE  WayAt(m, k)'
<1>1. /\ \A j \in DOMAIN Rule[m] : Took(m, j)' = Took(m, j)
      /\ \A j \in 0 .. Len(Rule[m]) : Made(m, j)' = Made(m, j)
  BY SameRule
<1>2. Ready(m)'
  BY DEF Ready
<1>3. 1 .. k - 1 \subseteq DOMAIN Rule[m] /\ k - 1 \in 0 .. Len(Rule[m])
  BY RuleLengths
<1> QED
  BY <1>1, <1>2, <1>3 DEF WayAt

\* a step in which no rule gets done, and nothing a rule has used changes
LEMMA QuietDone ==
  ASSUME Inv, UNCHANGED <<srcs, settings, out, concealed>>,
         \A m \in Modules : status'[m] = "done" <=> status[m] = "done"
  PROVE  (~concealed' => DoneIsMade') /\ Tried'
<1>1. ASSUME ~concealed', NEW m \in Modules, status'[m] = "done"
      PROVE  DoneAt(m)'
  <2>1. DoneAt(m)
    BY <1>1 DEF Inv, DoneIsMade
  <2>2. \A n \in Reads(m) : status'[n] = "done"
    BY <2>1, ReadsAre DEF DoneAt, Ready
  <2> QED
    BY <2>1, <2>2, KeepDone DEF DoneAt
<1>2. Tried'
  <2>1. "sepolicy_neverallows" \in Modules
    BY ModulesAre
  <2>2. Accepts(Tested)' = Accepts(Tested)
    BY DEF Accepts
  <2> QED
    BY <2>1, <2>2 DEF Inv, Tried
<1> QED
  BY <1>1, <1>2 DEF DoneIsMade

LEMMA StartStep ==
  ASSUME Inv, NEW m \in Modules, Start(m)
  PROVE  Inv'
<1>1. 1 \in DOMAIN Rule[m]
  BY RuleLengths
<1>2. Typed'
  BY <1>1 DEF Inv, Typed, Start
<1>3. (~concealed' => DoneIsMade') /\ Tried'
  BY QuietDone DEF Start
<1>4. OnTheWay'
  <2> SUFFICES ASSUME NEW n \in Modules, NEW k \in DOMAIN Rule[n], job' = <<n, k>>
               PROVE  WayAt(n, k)'
    BY DEF OnTheWay
  <2>1. n = m /\ k = 1
    BY DEF Start
  <2> QED
    BY <2>1 DEF WayAt, Ready, Start
<1> QED
  BY <1>2, <1>3, <1>4 DEF Inv

LEMMA RefuseStep ==
  ASSUME Inv, Refuse
  PROVE  Inv'
<1>1. PICK m \in Modules : \E k \in DOMAIN Rule[m] : job = <<m, k>> /\ status[m] = "todo"
  BY DEF Inv, Typed, Refuse
<1>2. job' = Idle /\ status' = [status EXCEPT ![m] = "failed"]
  BY <1>1 DEF Refuse, Stop, Running
<1>3. UNCHANGED <<srcs, settings, out, concealed>>
  BY DEF Refuse
<1>4. \A n \in Modules : status'[n] = "done" <=> status[n] = "done"
  BY <1>1, <1>2 DEF Inv, Typed
<1>5. Typed'
  BY <1>2, <1>3 DEF Inv, Typed
<1>6. OnTheWay'
  BY <1>2 DEF OnTheWay, Idle
<1> QED
  BY <1>3, <1>4, <1>5, <1>6, QuietDone DEF Inv

(***************************************************************************)
(* The running command: who runs, and what it leaves of the others.        *)
(***************************************************************************)
Runs(r, k) ==
  /\ r \in Modules /\ k \in DOMAIN Rule[r]
  /\ job = <<r, k>> /\ status[r] = "todo"
  /\ Running = r /\ job[2] = k /\ Now = Rule[r][k]

LEMMA SomeRuns ==
  ASSUME Inv, job # Idle
  PROVE  \E r, k : Runs(r, k)
<1>1. PICK r \in Modules : \E k \in DOMAIN Rule[r] : job = <<r, k>> /\ status[r] = "todo"
  BY DEF Inv, Typed
<1>2. PICK k \in DOMAIN Rule[r] : job = <<r, k>> /\ status[r] = "todo"
  BY <1>1
<1>3. Runs(r, k)
  BY <1>2 DEF Runs, Running, Now
<1> QED
  BY <1>3

LEMMA OthersDone ==
  ASSUME Inv, ~concealed, NEW r \in Modules, status[r] = "todo",
         UNCHANGED <<srcs, settings>>,
         DOMAIN out \subseteq DOMAIN out',
         \A n \in DOMAIN out \ {r} : out'[n] = out[n],
         \A n \in Modules \ {r} : status'[n] = status[n],
         NEW m \in Modules, status[m] = "done"
  PROVE  DoneAt(m)'
<1>1. DoneAt(m) /\ m # r
  BY DEF Inv, DoneIsMade
<1>2. Reads(m) \subseteq Modules \ {r}
  BY <1>1, ReadsAre DEF DoneAt, Ready
<1>3. \A n \in Reads(m) : status'[n] = "done"
  BY <1>1, <1>2 DEF DoneAt, Ready
<1>4. Reads(m) \subseteq DOMAIN out
  BY <1>1, <1>2 DEF Inv, DoneIsMade, DoneAt, Ready
<1> QED
  BY <1>1, <1>2, <1>3, <1>4, KeepDone DEF DoneAt

LEMMA PutIs ==
  ASSUME NEW r, NEW o
  PROVE  out' = Put(r, o) =>
           /\ DOMAIN out' = DOMAIN out \cup {r}
           /\ out'[r] = o
           /\ \A n \in DOMAIN out \ {r} : out'[n] = out[n]
BY DEF Put

\* a rule that goes on is typed, whatever it has written
LEMMA GoOnTyped ==
  ASSUME Inv, NEW r, NEW k, Runs(r, k), GoOn,
         UNCHANGED <<srcs, settings>>, DOMAIN out' \subseteq DOMAIN out \cup {r}
  PROVE  Typed'
<1>1. DOMAIN Rule[r] = 1 .. Len(Rule[r]) /\ Len(Rule[r]) \in 1 .. 3
  BY RuleLengths DEF Runs
<1>2. CASE k < Len(Rule[r])
  <2>1. job' = <<r, k + 1>> /\ status' = status /\ k + 1 \in DOMAIN Rule[r]
    BY <1>1, <1>2 DEF GoOn, Runs
  <2> QED
    BY <2>1 DEF Inv, Typed, Runs
<1>3. CASE ~(k < Len(Rule[r]))
  <2>1. job' = Idle /\ status' = [status EXCEPT ![r] = "done"]
    BY <1>3 DEF GoOn, Runs
  <2> QED
    BY <2>1 DEF Inv, Typed, Runs
<1> QED
  BY <1>2, <1>3

\* the neverallow test has one command: it is done or the test is
LEMMA GoOnTried ==
  ASSUME Inv, NEW r, NEW k, Runs(r, k), GoOn, UNCHANGED <<srcs, settings>>,
         r = "sepolicy_neverallows" =>
           settings.ignore \/ (Accepts(Tested) /\ ~Violated(UNION {srcs[d] : d \in Tested}))
  PROVE  Tried'
<1>1. "sepolicy_neverallows" \in Modules
  BY ModulesAre
<1>2. Accepts(Tested)' = Accepts(Tested)
  BY DEF Accepts
<1>3. r # "sepolicy_neverallows" => status'["sepolicy_neverallows"] = status["sepolicy_neverallows"]
  BY <1>1 DEF GoOn, Runs, Inv, Typed
<1> QED
  BY <1>1, <1>2, <1>3 DEF Inv, Tried

(***************************************************************************)
(* A command that succeeds takes its rule one further.                     *)
(***************************************************************************)
LEMMA CommandTook ==
  ASSUME Inv, ~concealed, NEW r, NEW k, Runs(r, k), Accepted(Now, Content)
  PROVE  Took(r, k)
<1>1. r \in Modules /\ k \in DOMAIN Rule[r] /\ Now = Rule[r][k] /\ WayAt(r, k)
  BY DEF Runs, Inv, OnTheWay
<1>2. CASE r # Precompiled /\ k = 1
  <2>1. Starts(Rule[r][k])
    BY <1>1, <1>2, RuleCommands
  <2> QED
    BY <1>1, <2>1, FirstIgnores DEF Took
<1>3. CASE r # Precompiled /\ k # 1
  <2>1. Content = Made(r, k - 1)
    BY <1>1, <1>3 DEF WayAt, Content, Runs
  <2> QED
    BY <1>1, <2>1 DEF Took
<1>4. CASE r = Precompiled
  <2>1. Rule[r][k].tool \in {"binary", "permissive", "cp"}
    BY <1>1, <1>4, PrecompiledIs
  <2>2. \A o : Accepted(Rule[r][k], o) <=> Accepted(Rule[r][k], Content)
    BY <2>1 DEF Accepted
  <2> QED
    BY <1>1, <2>2 DEF Took
<1> QED
  BY <1>2, <1>3, <1>4

LEMMA CommandMade ==
  ASSUME Inv, ~concealed, NEW r, NEW k, Runs(r, k), Present(Now),
         out' = IF Writes(Now) THEN Put(Running, Effect(Now, Content)) ELSE out
  PROVE  r # Precompiled \/ k = 3 => r \in DOMAIN out' /\ out'[r] = Made(r, k)
<1>1. r \in Modules /\ k \in DOMAIN Rule[r] /\ Running = r /\ Now = Rule[r][k] /\ WayAt(r, k)
  BY DEF Runs, Inv, OnTheWay
<1>2. Made(r, k) = Effect(Rule[r][k], Made(r, k - 1))
  BY <1>1, MadeIs
<1>3. CASE r # Precompiled /\ k = 1
  <2>1. Starts(Rule[r][k])
    BY <1>1, <1>3, RuleCommands
  <2>2. Writes(Rule[r][k])
    BY <2>1 DEF Starts, Writes
  <2>3. out' = Put(r, Effect(Rule[r][k], Content))
    BY <1>1, <2>2
  <2>4. Effect(Rule[r][k], Content) = Made(r, k)
    BY <1>2, <2>1, FirstIgnores
  <2> QED
    BY <2>3, <2>4, PutIs
<1>4. CASE r # Precompiled /\ k # 1
  <2>1. r \in DOMAIN out /\ Content = Made(r, k - 1) /\ out[r] = Made(r, k - 1)
    BY <1>1, <1>4 DEF WayAt, Content
  <2>2. CASE Writes(Rule[r][k])
    <3>1. out' = Put(r, Effect(Rule[r][k], Content))
      BY <1>1, <2>2
    <3> QED
      BY <1>2, <2>1, <3>1, PutIs
  <2>3. CASE ~Writes(Rule[r][k])
    <3>1. out' = out
      BY <1>1, <2>3
    <3>2. Effect(Rule[r][k], Made(r, k - 1)) = Made(r, k - 1)
      BY <2>3 DEF Writes, Effect
    <3> QED
      BY <1>2, <2>1, <3>1, <3>2
  <2> QED
    BY <2>2, <2>3
<1>5. CASE r = Precompiled /\ k = 3
  <2>1. Rule[r][k].tool = "cp"
    BY <1>5, PrecompiledIs
  <2>2. Writes(Rule[r][k]) /\ \A o, p : Effect(Rule[r][k], o) = Effect(Rule[r][k], p)
    BY <2>1 DEF Writes, Effect
  <2>3. out' = Put(r, Effect(Rule[r][k], Content))
    BY <1>1, <2>2
  <2>4. Effect(Rule[r][k], Content) = Made(r, k)
    BY <1>2, <2>2
  <2> QED
    BY <2>3, <2>4, PutIs
<1> QED
  BY <1>3, <1>4, <1>5

LEMMA ExecuteStep ==
  ASSUME Inv, Execute
  PROVE  Inv'
<1>1. PICK r, k : Runs(r, k)
  BY SomeRuns DEF Execute
<1>2. r \in Modules /\ k \in DOMAIN Rule[r] /\ Running = r /\ Now = Rule[r][k] /\ status[r] = "todo"
  BY <1>1 DEF Runs
<1>3. /\ DOMAIN out \subseteq DOMAIN out' /\ DOMAIN out' \subseteq DOMAIN out \cup {r}
      /\ \A n \in DOMAIN out \ {r} : out'[n] = out[n]
  <2>1. out' = out \/ out' = Put(r, Effect(Now, Content))
    BY <1>2 DEF Execute
  <2> QED
    BY <2>1, PutIs
<1>4. UNCHANGED <<srcs, settings, concealed>> /\ GoOn
  BY DEF Execute
<1>5. Typed'
  BY <1>1, <1>3, <1>4, GoOnTyped
<1>6. Tried'
  <2>1. ASSUME r = "sepolicy_neverallows"
        PROVE  settings.ignore \/ (Accepts(Tested) /\ ~Violated(UNION {srcs[d] : d \in Tested}))
    <3>1. Now = NeverallowTest(Tested)
      BY <1>2, <2>1, RuleIs, One
    <3>2. Accepted(NeverallowTest(Tested), Content)
      BY <3>1 DEF Execute, Succeeds
    <3> QED
      BY <3>2, DirFields DEF Accepted, Conf
  <2> QED
    BY <1>1, <1>4, <2>1, GoOnTried
<1>7. ASSUME ~concealed'
      PROVE  DoneIsMade' /\ OnTheWay'
  <2>1. ~concealed
    BY <1>4, <1>7
  <2>2. \A m \in Modules : status[m] = "done" => DoneAt(m)'
    <3>1. \A n \in Modules \ {r} : status'[n] = status[n]
      BY <1>1, <1>4 DEF GoOn, Runs, Inv, Typed
    <3> QED
      BY <1>2, <1>3, <1>4, <2>1, <3>1, OthersDone
  <2>3. WayAt(r, k) /\ Took(r, k)
    BY <1>1, <1>2, <2>1, CommandTook DEF Execute, Succeeds, Inv, OnTheWay, Runs
  <2>4. r # Precompiled \/ k = 3 => r \in DOMAIN out' /\ out'[r] = Made(r, k)
    BY <1>1, <2>1, CommandMade DEF Execute, Succeeds
  <2>5. Reads(r) \subseteq DOMAIN out \ {r}
    BY <1>2, <2>1, <2>3, ReadsAre DEF WayAt, Ready, Inv, DoneIsMade, DoneAt
  <2>6. /\ \A j \in DOMAIN Rule[r] : Took(r, j)' = Took(r, j)
        /\ \A j \in 0 .. Len(Rule[r]) : Made(r, j)' = Made(r, j)
        /\ Resulting(r)' = Resulting(r)
    BY <1>2, <1>3, <1>4, <2>5, SameRule
  <2>7. DOMAIN Rule[r] = 1 .. Len(Rule[r]) /\ Len(Rule[r]) \in 1 .. 3
    BY <1>2, RuleLengths
  <2>8. CASE k < Len(Rule[r])
    <3>1. job' = <<r, k + 1>> /\ status' = status /\ k + 1 \in DOMAIN Rule[r]
      BY <1>1, <1>2, <1>4, <2>7, <2>8 DEF GoOn, Runs
    <3>2. DoneIsMade'
      BY <2>2, <3>1 DEF DoneIsMade
    <3>3. WayAt(r, k + 1)'
      <4>1. Ready(r)'
        BY <2>3, <3>1 DEF WayAt, Ready
      <4>2. Made(r, k)' = Made(r, k)
        <5>1. k \in 0 .. Len(Rule[r])
          BY <1>2, <2>7
        <5> QED
          BY <2>6, <5>1
      <4>3. \A j \in 1 .. k : j \in DOMAIN Rule[r] /\ Took(r, j)
        <5>1. \A j \in 1 .. k : j \in DOMAIN Rule[r] /\ (j = k \/ j \in 1 .. k - 1)
          BY <1>2, <2>7
        <5> QED
          BY <2>3, <5>1 DEF WayAt
      <4>4. (k + 1) - 1 = k
        BY <1>2, <2>7
      <4>5. r # Precompiled => r \in DOMAIN out' /\ out'[r] = Made(r, k)'
        BY <2>4, <4>2
      <4>6. \A j \in 1 .. k : Took(r, j)'
        BY <2>6, <4>3
      <4>7. Made(r, (k + 1) - 1)' = Made(r, k)'
        BY <4>4
      <4> QED
        BY <4>1, <4>4, <4>5, <4>6, <4>7 DEF WayAt
    <3> QED
      BY <3>1, <3>2, <3>3 DEF OnTheWay
  <2>9. CASE ~(k < Len(Rule[r]))
    <3>1. job' = Idle /\ status' = [status EXCEPT ![r] = "done"] /\ k = Len(Rule[r])
      BY <1>1, <1>2, <1>4, <2>7, <2>9 DEF GoOn, Runs
    <3>2. DoneAt(r)'
      <4>1. Ready(r)'
        BY <1>2, <2>3, <2>5, <3>1 DEF WayAt, Ready, Inv, Typed
      <4>2. r # Precompiled \/ k = 3
        BY <3>1, PrecompiledIs
      <4>3. r \in DOMAIN out' /\ out'[r] = Resulting(r)'
        BY <2>4, <2>6, <3>1, <4>2 DEF Resulting
      <4>4. \A j \in DOMAIN Rule[r] : Took(r, j)'
        <5>1. \A j \in DOMAIN Rule[r] : j = k \/ j \in 1 .. k - 1
          BY <2>7, <3>1
        <5> QED
          BY <2>3, <2>6, <5>1 DEF WayAt
      <4> QED
        BY <4>1, <4>3, <4>4 DEF DoneAt
    <3>3. \A m \in Modules : status'[m] = "done" => m = r \/ status[m] = "done"
      BY <3>1 DEF Inv, Typed
    <3>4. DoneIsMade'
      BY <2>2, <3>2, <3>3 DEF DoneIsMade
    <3>5. OnTheWay'
      BY <3>1 DEF OnTheWay, Idle
    <3> QED
      BY <3>4, <3>5
  <2> QED
    BY <2>8, <2>9
<1> QED
  BY <1>5, <1>6, <1>7 DEF Inv

LEMMA BreakStep ==
  ASSUME Inv, Break
  PROVE  Inv'
<1>1. PICK r, k : Runs(r, k)
  BY SomeRuns DEF Break
<1>2. r \in Modules /\ Running = r /\ status[r] = "todo"
  BY <1>1 DEF Runs
<1>3. /\ DOMAIN out \subseteq DOMAIN out' /\ DOMAIN out' \subseteq DOMAIN out \cup {r}
      /\ \A n \in DOMAIN out \ {r} : out'[n] = out[n]
  <2>1. out' = out \/ out' = Put(r, {})
    BY <1>2 DEF Break
  <2> QED
    BY <2>1, PutIs
<1>4. /\ UNCHANGED <<srcs, settings, concealed>>
      /\ job' = Idle /\ status' = [status EXCEPT ![r] = "failed"]
  BY <1>2 DEF Break, Stop
<1>5. Typed'
  BY <1>2, <1>3, <1>4 DEF Inv, Typed
<1>6. \A m \in Modules : status'[m] = "done" => status[m] = "done"
  BY <1>2, <1>4 DEF Inv, Typed
<1>7. ~concealed' => DoneIsMade'
  <2> SUFFICES ASSUME ~concealed', NEW m \in Modules, status'[m] = "done"
               PROVE  DoneAt(m)'
    BY DEF DoneIsMade
  <2>1. \A n \in Modules \ {r} : status'[n] = status[n]
    BY <1>4 DEF Inv, Typed
  <2> QED
    BY <1>2, <1>3, <1>4, <1>6, <2>1, OthersDone
<1>8. OnTheWay'
  BY <1>4 DEF OnTheWay, Idle
<1>9. Tried'
  <2>1. "sepolicy_neverallows" \in Modules
    BY ModulesAre
  <2>2. Accepts(Tested)' = Accepts(Tested)
    BY <1>4 DEF Accepts
  <2> QED
    BY <1>4, <1>6, <2>1, <2>2 DEF Inv, Tried
<1> QED
  BY <1>5, <1>7, <1>8, <1>9 DEF Inv

LEMMA ConcealStep ==
  ASSUME Inv, Conceal
  PROVE  Inv'
<1>1. PICK r, k : Runs(r, k)
  BY SomeRuns DEF Conceal
<1>2. GoOn /\ UNCHANGED <<srcs, settings, out>> /\ concealed' = TRUE
  BY DEF Conceal
<1>3. r # "sepolicy_neverallows"
  <2> SUFFICES ASSUME r = "sepolicy_neverallows"
               PROVE  FALSE
    OBVIOUS
  <2>1. Now = NeverallowTest(Tested)
    BY <1>1, RuleIs, One DEF Runs
  <2>2. Now.tool = "neverallow_test"
    BY <2>1, DirFields
  <2> QED
    BY <2>2 DEF Conceal, Conceals
<1>4. Typed'
  BY <1>1, <1>2, GoOnTyped
<1>5. Tried'
  BY <1>1, <1>2, <1>3, GoOnTried
<1> QED
  BY <1>2, <1>4, <1>5 DEF Inv

LEMMA BuildStep ==
  ASSUME Inv, NEW new \in Edits(srcs, settings), Build(new)
  PROVE  Inv'
<1>1. /\ srcs' = new /\ UNCHANGED <<settings, out, job, concealed>> /\ job = Idle
      /\ status' = [m \in Modules |->
           IF \/ status[m] = "failed" \/ m \notin DOMAIN out
              \/ \E d \in SourcesOf(m) : srcs[d] # new[d]
           THEN "todo" ELSE status[m]]
  BY DEF Build
<1>2. new \in Sources
  BY EditsAssumption DEF Inv, Typed
<1>3. Typed'
  BY <1>1, <1>2 DEF Inv, Typed
\* what stays done has its sources as they were
<1>4. ASSUME NEW m \in Modules, status'[m] = "done"
      PROVE  /\ status[m] = "done" /\ m \in DOMAIN out
             /\ \A d \in SourcesOf(m) : srcs'[d] = srcs[d]
  BY <1>1, <1>4
<1>5. ~concealed' => DoneIsMade'
  <2> SUFFICES ASSUME ~concealed', NEW m \in Modules, status'[m] = "done"
               PROVE  DoneAt(m)'
    BY DEF DoneIsMade
  <2>1. DoneAt(m) /\ \A n \in Reads(m) : n \in Modules /\ status[n] = "done" /\ DoneAt(n)
    BY <1>1, <1>4, ReadsAre DEF Inv, DoneIsMade, DoneAt, Ready
  <2>2. \A k \in DOMAIN Rule[m] : \A d \in Rule[m][k].dirs : srcs'[d] = srcs[d]
    BY <1>4, SourcesGrow
  <2>3. ASSUME NEW n \in Reads(m)
        PROVE  status'[n] = "done"
    <3>1. n \in DOMAIN out /\ status[n] = "done" /\ n \in Modules
      BY <2>1 DEF DoneAt
    <3>2. \A d \in SourcesOf(n) : srcs[d] = new[d]
      BY <1>1, <1>4, SourcesGrow
    <3> QED
      BY <1>1, <3>1, <3>2
  <2> QED
    BY <1>1, <1>4, <2>1, <2>2, <2>3, KeepDone
<1>6. OnTheWay'
  BY <1>1 DEF OnTheWay, Idle
<1>7. Tried'
  <2>1. "sepolicy_neverallows" \in Modules
    BY ModulesAre
  <2> SUFFICES ASSUME status'["sepolicy_neverallows"] = "done"
               PROVE  settings'.ignore \/ (Accepts(Tested)' /\ ~Violated(UNION {srcs[d] : d \in Tested})')
    BY DEF Tried
  <2>2. Tested \subseteq SourcesOf("sepolicy_neverallows")
    <3>1. 1 \in DOMAIN Rule["sepolicy_neverallows"] /\ Rule["sepolicy_neverallows"][1].dirs = Tested
      BY RuleIs, DirFields
    <3> QED
      BY <2>1, <3>1, SourcesGrow
  <2>3. \A d \in Tested : srcs'[d] = srcs[d]
    BY <1>4, <2>1, <2>2
  <2>4. (UNION {srcs[d] : d \in Tested})' = UNION {srcs[d] : d \in Tested}
    BY <2>3
  <2>5. Accepts(Tested)' = Accepts(Tested)
    BY <2>3, <2>4 DEF Accepts
  <2>6. Violated(UNION {srcs[d] : d \in Tested})' = Violated(UNION {srcs[d] : d \in Tested})
    BY <2>4
  <2> QED
    BY <1>1, <1>4, <2>1, <2>5, <2>6 DEF Inv, Tried
<1> QED
  BY <1>3, <1>5, <1>6, <1>7 DEF Inv

\* What is done was made of what its inputs are now, by commands that took
\* them, however builds were interleaved, broken off and edited; and a failure
\* that is hidden is none of the neverallow test.
THEOREM BuildInvariant == Spec => []Inv
<1>1. Init => Inv
  BY InitInv
<1>2. Inv /\ [Next]_vars => Inv'
  <2> SUFFICES ASSUME Inv, [Next]_vars PROVE Inv'
    OBVIOUS
  <2>1. CASE \E m \in Modules : Start(m)
    BY <2>1, StartStep
  <2>2. CASE Execute
    BY <2>2, ExecuteStep
  <2>3. CASE Refuse
    BY <2>3, RefuseStep
  <2>4. CASE Break
    BY <2>4, BreakStep
  <2>5. CASE Conceal
    BY <2>5, ConcealStep
  <2>6. CASE \E new \in Edits(srcs, settings) : Build(new)
    BY <2>6, BuildStep
  <2>7. CASE UNCHANGED vars
    <3>1. (~concealed' => DoneIsMade') /\ Tried'
      BY <2>7, QuietDone DEF vars
    <3>2. Typed'
      BY <2>7 DEF vars, Inv, Typed
    <3>3. ~concealed' => OnTheWay'
      <4> SUFFICES ASSUME ~concealed', NEW m \in Modules, NEW k \in DOMAIN Rule[m], job' = <<m, k>>
                   PROVE  WayAt(m, k)'
        BY DEF OnTheWay
      <4>1. WayAt(m, k)
        BY <2>7 DEF vars, Inv, OnTheWay
      <4> QED
        BY <2>7, <4>1, KeepWay DEF vars, WayAt, Ready
    <3> QED
      BY <3>1, <3>2, <3>3 DEF Inv
  <2> QED
    BY <2>1, <2>2, <2>3, <2>4, <2>5, <2>6, <2>7 DEF Next
<1> QED
  BY <1>1, <1>2, PTL DEF Spec

-----------------------------------------------------------------------------
(***************************************************************************)
(* A successful build, of which no command has hidden a failure: an        *)
(* equation for each output.                                               *)
(***************************************************************************)
Success == Inv /\ Green /\ ~concealed

Text(dirs) == UNION {srcs[d] : d \in dirs}

\* When a build succeeds, every output is what its rule makes of what its
\* inputs are now.
THEOREM NothingStaleHolds == Spec => []NothingStale
<1>1. Inv => NothingStale
  BY DEF Inv, DoneIsMade, DoneAt, NothingStale, Green
<1> QED
  BY <1>1, BuildInvariant, PTL

LEMMA DirEffects ==
  ASSUME NEW dirs
  PROVE  /\ \A o : Effect(Checkpolicy(dirs), o) = Text(dirs)
         /\ \A o : Effect(Cat(dirs), o) = o \cup Text(dirs)
         /\ \A o : Accepted(Checkpolicy(dirs), o) <=> Accepts(dirs)
<1>1. Checkpolicy(dirs).tool = "checkpolicy" /\ Checkpolicy(dirs).dirs = dirs
  BY DirFields
<1>2. Cat(dirs).tool = "cat" /\ Cat(dirs).dirs = dirs
  BY DirFields
<1>3. \A o : Effect(Checkpolicy(dirs), o) = Text(dirs)
  BY <1>1 DEF Effect, Conf, Text
<1>4. \A o : Effect(Cat(dirs), o) = o \cup Text(dirs)
  BY <1>2 DEF Effect, Conf, Text
<1>5. \A o : Accepted(Checkpolicy(dirs), o) <=> Accepts(dirs)
  BY <1>1 DEF Accepted
<1> QED
  BY <1>3, <1>4, <1>5

LEMMA ModEffects ==
  ASSUME NEW mods
  PROVE  /\ \A o : Effect(FilterOut(mods), o) = o \ UNION {out[n] : n \in mods}
         /\ \A o : Effect(Secilc(mods), o) = o
         /\ \A o : Effect(SecilcN(mods), o) = o
         /\ \A o : Effect(Binary(mods), o) = o
         /\ \A o : Effect(PermissiveCheck(mods), o) = o
         /\ \A o : Effect(Copy(mods), o) = UNION {out[n] : n \in mods}
<1>1. FilterOut(mods).tool = "filter_out" /\ FilterOut(mods).mods = mods
  BY ModFields
<1>2. Secilc(mods).tool = "secilc" /\ SecilcN(mods).tool = "secilc -N"
  BY ModFields
<1>3. Binary(mods).tool = "binary" /\ PermissiveCheck(mods).tool = "permissive"
  BY ModFields
<1>4. Copy(mods).tool = "cp" /\ Copy(mods).mods = mods
  BY ModFields
<1>5. \A o : Effect(FilterOut(mods), o) = o \ UNION {out[n] : n \in mods}
  BY <1>1 DEF Effect, Merged
<1>6. \A o : Effect(Secilc(mods), o) = o /\ Effect(SecilcN(mods), o) = o
  BY <1>2 DEF Effect
<1>7. \A o : Effect(Binary(mods), o) = o /\ Effect(PermissiveCheck(mods), o) = o
  BY <1>3 DEF Effect
<1>8. \A o : Effect(Copy(mods), o) = UNION {out[n] : n \in mods}
  BY <1>4 DEF Effect, Merged
<1> QED
  BY <1>5, <1>6, <1>7, <1>8

LEMMA BaseEffects ==
  ASSUME NEW base, NEW target
  PROVE  /\ \A o : Effect(Mapping(base), o) = MappingOf(out[base], Current)
         /\ target # "" =>
              \A o : Effect(VersionPolicy(base, target), o) =
                       Attributized(out[base], out[target], settings.vendor)
<1>1. \A o : Effect(Mapping(base), o) = MappingOf(out[base], Current)
  BY DEF Effect, Version, Mapping
<1>2. ASSUME target # ""
      PROVE  \A o : Effect(VersionPolicy(base, target), o) =
                      Attributized(out[base], out[target], settings.vendor)
  BY <1>2 DEF Effect, Version, VersionPolicy
<1> QED
  BY <1>1, <1>2

\* what rules of one, two and three commands make
LEMMA RuleEffects ==
  ASSUME NEW m, NEW a, NEW b, NEW c
  PROVE  /\ Rule[m] = <<a>> => Resulting(m) = Effect(a, {})
         /\ Rule[m] = <<a, b>> => Resulting(m) = Effect(b, Effect(a, {}))
         /\ Rule[m] = <<a, b, c>> => Resulting(m) = Effect(c, Effect(b, Effect(a, {})))
<1>1. Rule[m] = <<a>> => Resulting(m) = Effect(a, {})
  BY DEF Resulting, Made
<1>2. Rule[m] = <<a, b>> => Resulting(m) = Effect(b, Effect(a, {}))
  BY DEF Resulting, Made
<1>3. Rule[m] = <<a, b, c>> => Resulting(m) = Effect(c, Effect(b, Effect(a, {})))
  BY DEF Resulting, Made
<1> QED
  BY <1>1, <1>2, <1>3

LEMMA OutputsAre ==
  ASSUME Success
  PROVE  /\ out["reqd_policy_mask"] = Text(Mask)
         /\ out["plat_pub_policy"] = Text({"plat_public"} \cup Mask) \ out["reqd_policy_mask"]
         /\ out["pub_policy"] = Text(Exported) \ out["reqd_policy_mask"]
         /\ out["plat_sepolicy"] = Text({"plat_public", "plat_private"}) \cup Text(Debt)
         /\ out["system_ext_sepolicy"] = Text(Public \cup Private) \ out["plat_sepolicy"]
         /\ out["plat_mapping_file"] = MappingOf(out["plat_pub_policy"], Current)
         /\ out["system_ext_mapping_file"] =
              MappingOf(out["pub_policy"], Current) \ out["plat_mapping_file"]
         /\ out["plat_pub_versioned"] =
              Attributized(out["pub_policy"], out["pub_policy"], settings.vendor)
         /\ out["vendor_sepolicy_raw"] = Text(Exported \cup {"vendor"}) \ out["reqd_policy_mask"]
         /\ out["vendor_sepolicy"] =
              Attributized(out["pub_policy"], out["vendor_sepolicy_raw"], settings.vendor)
                \ out["plat_pub_versioned"]
         /\ out["odm_sepolicy_raw"] =
              Text(Exported \cup Vendor) \ (out["reqd_policy_mask"] \cup out["vendor_sepolicy_raw"])
         /\ out["odm_sepolicy"] =
              Attributized(out["pub_policy"], out["odm_sepolicy_raw"], settings.vendor)
                \ out["plat_pub_versioned"]
         /\ out[Precompiled] = UNION {out[n] : n \in Installed}
<1>0. \A m \in Modules : out[m] = Resulting(m)
  BY DEF Success, Inv, DoneIsMade, DoneAt, Green
<1>1. out["reqd_policy_mask"] = Text(Mask)
  BY <1>0, ModulesAre, RuleIs, RuleEffects, DirEffects
<1>2. out["plat_pub_policy"] = Text({"plat_public"} \cup Mask) \ out["reqd_policy_mask"]
  BY <1>0, ModulesAre, RuleIs, RuleEffects, DirEffects, ModEffects DEF RawMask
<1>3. out["pub_policy"] = Text(Exported) \ out["reqd_policy_mask"]
  BY <1>0, ModulesAre, RuleIs, RuleEffects, DirEffects, ModEffects DEF RawMask
<1>4. out["plat_sepolicy"] = Text({"plat_public", "plat_private"}) \cup Text(Debt)
  BY <1>0, ModulesAre, RuleIs, RuleEffects, DirEffects, ModEffects
<1>5. out["system_ext_sepolicy"] = Text(Public \cup Private) \ out["plat_sepolicy"]
  BY <1>0, ModulesAre, RuleIs, RuleEffects, DirEffects, ModEffects
<1>6. out["plat_mapping_file"] = MappingOf(out["plat_pub_policy"], Current)
  <2>1. Resulting("plat_mapping_file") = Effect(Mapping("plat_pub_policy"), {})
    BY RuleIs, RuleEffects
  <2> QED
    BY <1>0, <2>1, ModulesAre, BaseEffects
<1>7. out["system_ext_mapping_file"] =
        MappingOf(out["pub_policy"], Current) \ out["plat_mapping_file"]
  <2>1. Resulting("system_ext_mapping_file") =
          Effect(FilterOut({"plat_mapping_file"}), Effect(Mapping("pub_policy"), {}))
    BY RuleIs, RuleEffects
  <2>2. Effect(Mapping("pub_policy"), {}) = MappingOf(out["pub_policy"], Current)
    BY BaseEffects
  <2> QED
    BY <1>0, <2>1, <2>2, ModulesAre, ModEffects
<1>8. out["plat_pub_versioned"] =
        Attributized(out["pub_policy"], out["pub_policy"], settings.vendor)
  <2>1. Resulting("plat_pub_versioned") = Effect(VersionPolicy("pub_policy", "pub_policy"), {})
    BY RuleIs, RuleEffects
  <2>2. Effect(VersionPolicy("pub_policy", "pub_policy"), {}) =
          Attributized(out["pub_policy"], out["pub_policy"], settings.vendor)
    BY BaseEffects
  <2> QED
    BY <1>0, <2>1, <2>2, ModulesAre
<1>9. out["vendor_sepolicy_raw"] = Text(Exported \cup {"vendor"}) \ out["reqd_policy_mask"]
  BY <1>0, ModulesAre, RuleIs, RuleEffects, DirEffects, ModEffects DEF RawMask
<1>10. out["vendor_sepolicy"] =
         Attributized(out["pub_policy"], out["vendor_sepolicy_raw"], settings.vendor)
           \ out["plat_pub_versioned"]
  <2> DEFINE versioned == Effect(VersionPolicy("pub_policy", "vendor_sepolicy_raw"), {})
  <2>1. Resulting("vendor_sepolicy") =
          Effect(SecilcN(Split), Effect(FilterOut({"plat_pub_versioned"}), versioned))
    BY RuleIs, RuleEffects
  <2>2. versioned = Attributized(out["pub_policy"], out["vendor_sepolicy_raw"], settings.vendor)
    BY BaseEffects
  <2> HIDE DEF versioned
  <2> QED
    BY <1>0, <2>1, <2>2, ModulesAre, ModEffects
<1>11. out["odm_sepolicy_raw"] =
         Text(Exported \cup Vendor) \ (out["reqd_policy_mask"] \cup out["vendor_sepolicy_raw"])
  BY <1>0, ModulesAre, RuleIs, RuleEffects, DirEffects, ModEffects DEF RawMask
<1>12. out["odm_sepolicy"] =
         Attributized(out["pub_policy"], out["odm_sepolicy_raw"], settings.vendor)
           \ out["plat_pub_versioned"]
  <2> DEFINE versioned == Effect(VersionPolicy("pub_policy", "odm_sepolicy_raw"), {})
  <2>1. Resulting("odm_sepolicy") =
          Effect(SecilcN(Split \cup {"vendor_sepolicy"}), Effect(FilterOut({"plat_pub_versioned"}), versioned))
    BY RuleIs, RuleEffects
  <2>2. versioned = Attributized(out["pub_policy"], out["odm_sepolicy_raw"], settings.vendor)
    BY BaseEffects
  <2> HIDE DEF versioned
  <2> QED
    BY <1>0, <2>1, <2>2, ModulesAre, ModEffects
<1>13. out[Precompiled] = UNION {out[n] : n \in Installed}
  BY <1>0, ModulesAre, RuleIs, RuleEffects, ModEffects DEF Precompiled
<1> QED
  BY <1>1, <1>2, <1>3, <1>4, <1>5, <1>6, <1>7, <1>8, <1>9, <1>10, <1>11, <1>12, <1>13

(***************************************************************************)
(* The sources, and what masking and versioning do to their lines.         *)
(***************************************************************************)
LEMMA SourcesAre ==
  ASSUME Success
  PROVE  srcs \in [Dirs -> SUBSET SourceLine] /\ MaskAlone(srcs)
BY SourcesAssumption DEF Success, Inv, Typed

LEMMA MaskOut ==
  ASSUME Success, NEW dirs \in SUBSET (Dirs \ Mask)
  PROVE  Text(dirs \cup Mask) \ Text(Mask) = Text(dirs)
<1>1. "reqd_mask" \in Dirs /\ Mask = {"reqd_mask"}
  BY DirsAre DEF Mask
<1>2. Text(Mask) = srcs["reqd_mask"]
  BY <1>1 DEF Text
<1>3. ASSUME NEW l \in Text(dirs), l \in Text(Mask)
      PROVE  FALSE
  <2>1. PICK d \in dirs : l \in srcs[d]
    BY DEF Text
  <2>2. l.s \in Used(srcs[d]) /\ l.s \in Used(srcs["reqd_mask"])
    BY <1>2, <1>3, <2>1 DEF Used
  <2> QED
    BY <2>1, <2>2, SourcesAre DEF MaskAlone
<1>4. Text(dirs \cup Mask) = Text(dirs) \cup Text(Mask)
  BY DEF Text
<1> QED
  BY <1>3, <1>4

Named(base, v, n)     == IF n \in TypesOf(base) THEN <<n[1], v>> ELSE n
Versioned(base, v, l) ==
  [kind |-> IF l.kind = "type" /\ l.s \in TypesOf(base) THEN "attribute" ELSE l.kind,
   s |-> Named(base, v, l.s), t |-> Named(base, v, l.t)]

LEMMA AttributizedIs ==
  ASSUME NEW base, NEW target, NEW v
  PROVE  Attributized(base, target, v) = {Versioned(base, v, l) : l \in target}
BY DEF Attributized, Versioned, Named

OfAttribute(n, v) == [kind |-> "attribute", s |-> <<n[1], v>>, t |-> <<n[1], v>>]
OfMember(n, v)    == [kind |-> "member", s |-> <<n[1], v>>, t |-> n]

LEMMA MappingIs ==
  ASSUME NEW base, NEW v
  PROVE  MappingOf(base, v) = UNION {{OfAttribute(n, v), OfMember(n, v)} : n \in TypesOf(base)}
BY DEF MappingOf, OfAttribute, OfMember

LEMMA Partitions ==
  ASSUME Success
  PROVE  /\ out["pub_policy"] = Text(Public)
         /\ out["plat_pub_policy"] = Text({"plat_public"})
         /\ out["vendor_sepolicy_raw"] = Text(Public \cup {"vendor"})
         /\ out["odm_sepolicy_raw"] = Text(Public \cup Vendor) \ Text(Public \cup {"vendor"})
         /\ out["plat_sepolicy"] \cup out["system_ext_sepolicy"] = Text(Public \cup Private \cup Debt)
<1> USE DEF Exported
<1>1. out["reqd_policy_mask"] = Text(Mask)
  BY OutputsAre
<1>2. /\ Public \subseteq Dirs \ Mask /\ {"plat_public"} \subseteq Dirs \ Mask
      /\ Public \cup {"vendor"} \subseteq Dirs \ Mask /\ Public \cup Vendor \subseteq Dirs \ Mask
  BY DirsAre DEF Public, Vendor, Mask
<1>3. out["pub_policy"] = Text(Public)
  BY <1>1, <1>2, OutputsAre, MaskOut
<1>4. out["plat_pub_policy"] = Text({"plat_public"})
  BY <1>1, <1>2, OutputsAre, MaskOut
<1>5. out["vendor_sepolicy_raw"] = Text(Public \cup {"vendor"})
  <2>1. (Public \cup Mask) \cup {"vendor"} = (Public \cup {"vendor"}) \cup Mask
    OBVIOUS
  <2> QED
    BY <1>1, <1>2, <2>1, OutputsAre, MaskOut
<1>6. out["odm_sepolicy_raw"] = Text(Public \cup Vendor) \ Text(Public \cup {"vendor"})
  <2>1. (Public \cup Mask) \cup Vendor = (Public \cup Vendor) \cup Mask
    OBVIOUS
  <2>2. Text((Public \cup Vendor) \cup Mask) \ Text(Mask) = Text(Public \cup Vendor)
    BY <1>2, MaskOut
  <2>3. out["odm_sepolicy_raw"] =
          Text((Public \cup Vendor) \cup Mask) \ (Text(Mask) \cup Text(Public \cup {"vendor"}))
    BY <1>1, <1>5, <2>1, OutputsAre
  <2> QED
    BY <2>2, <2>3
<1>7. out["plat_sepolicy"] \cup out["system_ext_sepolicy"] = Text(Public \cup Private \cup Debt)
  <2>1. Text({"plat_public", "plat_private"}) \subseteq Text(Public \cup Private)
    BY DEF Text, Public, Private
  <2>2. Text(Public \cup Private \cup Debt) = Text(Public \cup Private) \cup Text(Debt)
    BY DEF Text
  <2> QED
    BY <2>1, <2>2, OutputsAre
<1> QED
  BY <1>3, <1>4, <1>5, <1>6, <1>7

LEMMA Mappings ==
  ASSUME Success
  PROVE  out["plat_mapping_file"] \cup out["system_ext_mapping_file"] =
           MappingOf(Text(Public), Current)
<1>1. TypesOf(Text({"plat_public"})) \subseteq TypesOf(Text(Public))
  BY DEF TypesOf, Text, Public
<1>2. MappingOf(Text({"plat_public"}), Current) \subseteq MappingOf(Text(Public), Current)
  BY <1>1, MappingIs
<1> QED
  BY <1>2, OutputsAre, Partitions

LEMMA VendorFiles ==
  ASSUME Success
  PROVE  out["plat_pub_versioned"] \cup out["vendor_sepolicy"] \cup out["odm_sepolicy"] =
           Attributized(Text(Public), Text(Public \cup Vendor), settings.vendor)
<1> DEFINE A(target) == {Versioned(Text(Public), settings.vendor, l) : l \in target}
<1>1. \A target : Attributized(Text(Public), target, settings.vendor) = A(target)
  BY AttributizedIs
<1>2. /\ out["plat_pub_versioned"] = A(Text(Public))
      /\ out["vendor_sepolicy"] = A(Text(Public \cup {"vendor"})) \ A(Text(Public))
      /\ out["odm_sepolicy"] =
           A(Text(Public \cup Vendor) \ Text(Public \cup {"vendor"})) \ A(Text(Public))
  BY <1>1, OutputsAre, Partitions
<1>3. Text(Public) \subseteq Text(Public \cup {"vendor"})
  BY DEF Text
<1>4. Text(Public \cup {"vendor"}) \subseteq Text(Public \cup Vendor)
  BY DEF Text, Vendor
<1>5. A(Text(Public)) \subseteq A(Text(Public \cup {"vendor"}))
  BY <1>3
<1>6. A(Text(Public \cup Vendor) \ Text(Public \cup {"vendor"}))
        \cup A(Text(Public \cup {"vendor"})) = A(Text(Public \cup Vendor))
  BY <1>4
<1> HIDE DEF A
<1> QED
  BY <1>1, <1>2, <1>5, <1>6

\* the installed policy
LEMMA BuiltIs ==
  ASSUME Success
  PROVE  out[Precompiled] =
           Text(Public \cup Private \cup Debt)
             \cup MappingOf(Text(Public), Current)
             \cup Attributized(Text(Public), Text(Public \cup Vendor), settings.vendor)
<1>1. out[Precompiled] =
        (out["plat_sepolicy"] \cup out["system_ext_sepolicy"])
          \cup (out["plat_mapping_file"] \cup out["system_ext_mapping_file"])
          \cup (out["plat_pub_versioned"] \cup out["vendor_sepolicy"] \cup out["odm_sepolicy"])
  BY OutputsAre DEF Installed, Split
<1> QED
  BY <1>1, Partitions, Mappings, VendorFiles

(***************************************************************************)
(* What the lines of the installed policy say.                             *)
(***************************************************************************)
\* a name of a source is no name of a version, and versions are told apart by
\* their types
LEMMA Names ==
  ASSUME NEW p, NEW q, NEW v, NEW w
  PROVE  /\ <<p>> # <<q, v>> /\ <<p>>[1] = p /\ <<p, v>>[1] = p
         /\ <<p, v>> = <<q, w>> => p = q
OBVIOUS

LEMMA TextLines ==
  ASSUME Success, NEW dirs \in SUBSET Dirs, NEW l \in Text(dirs)
  PROVE  /\ l.kind \in {"type", "allow", "neverallow", "permissive", "sid"}
         /\ l.s = <<l.s[1]>> /\ l.t = <<l.t[1]>>
         /\ l = [kind |-> l.kind, s |-> l.s, t |-> l.t]
<1>1. l \in SourceLine
  BY SourcesAre DEF Text
<1> QED
  BY <1>1 DEF SourceLine

All     == Public \cup Private \cup Debt \cup Vendor
Base    == Text(Public)

LEMMA Directories ==
  /\ Public \subseteq All /\ Public \cup Vendor \subseteq All /\ Public \cup Private \cup Debt \subseteq All
  /\ All \subseteq Dirs /\ Dirs \ Mask = All
  /\ \A dirs, more \in SUBSET Dirs : dirs \subseteq more => Text(dirs) \subseteq Text(more)
  /\ Text(All) = Text(Public \cup Private \cup Debt) \cup Text(Public \cup Vendor)
<1>1. Dirs \ Mask = All /\ All \subseteq Dirs
  BY DirsAre DEF All, Public, Private, Debt, Vendor, Mask
<1>2. /\ Public \subseteq All /\ Public \cup Vendor \subseteq All
      /\ Public \cup Private \cup Debt \subseteq All
  BY DEF All
<1>3. \A dirs, more \in SUBSET Dirs : dirs \subseteq more => Text(dirs) \subseteq Text(more)
  BY DEF Text
<1>4. Text(All) = Text(Public \cup Private \cup Debt) \cup Text(Public \cup Vendor)
  BY DEF Text, All
<1> QED
  BY <1>1, <1>2, <1>3, <1>4

\* a line of the installed policy is one of the platform's, tells what the
\* attribute of a version stands for, or is one of the vendor's made to name them
LEMMA BuiltLines ==
  ASSUME Success, NEW l
  PROVE  l \in out[Precompiled] <=>
           \/ l \in Text(Public \cup Private \cup Debt)
           \/ \E n \in TypesOf(Base) : l \in {OfAttribute(n, Current), OfMember(n, Current)}
           \/ \E x \in Text(Public \cup Vendor) : l = Versioned(Base, settings.vendor, x)
BY BuiltIs, MappingIs, AttributizedIs DEF Base

LEMMA BaseTypes ==
  ASSUME Success
  PROVE  /\ \A n \in TypesOf(Text(All)) : n = <<n[1]>>
         /\ TypesOf(Base) \subseteq TypesOf(Text(All))
<1>1. \A l \in Text(All) : l.s = <<l.s[1]>>
  BY TextLines, Directories
<1>2. Base \subseteq Text(All)
  BY Directories DEF Base
<1> QED
  BY <1>1, <1>2 DEF TypesOf

LEMMA BuiltTypes ==
  ASSUME Success
  PROVE  TypesOf(out[Precompiled]) = TypesOf(Text(All))
<1>1. ASSUME NEW l \in out[Precompiled], l.kind = "type"
      PROVE  l.s \in TypesOf(Text(All))
  <2>1. CASE l \in Text(Public \cup Private \cup Debt)
    BY <1>1, <2>1, Directories DEF TypesOf
  <2>2. CASE \E n \in TypesOf(Base) : l \in {OfAttribute(n, Current), OfMember(n, Current)}
    BY <1>1, <2>2 DEF OfAttribute, OfMember
  <2>3. CASE \E x \in Text(Public \cup Vendor) : l = Versioned(Base, settings.vendor, x)
    <3>1. PICK x \in Text(Public \cup Vendor) : l = Versioned(Base, settings.vendor, x)
      BY <2>3
    <3>2. x.kind = "type" /\ x.s \notin TypesOf(Base) /\ l.s = x.s
      BY <1>1, <3>1 DEF Versioned, Named
    <3> QED
      BY <3>2, Directories DEF TypesOf
  <2> QED
    BY <2>1, <2>2, <2>3, BuiltLines
<1>2. ASSUME NEW x \in Text(All), x.kind = "type"
      PROVE  \E l \in out[Precompiled] : l.kind = "type" /\ l.s = x.s
  <2>1. CASE x \in Text(Public \cup Private \cup Debt)
    BY <1>2, <2>1, BuiltLines
  <2>2. CASE x \in Text(Public \cup Vendor) /\ x.s \in TypesOf(Base)
    <3>1. PICK y \in Base : y.kind = "type" /\ y.s = x.s
      BY <2>2 DEF TypesOf
    <3>2. y \in Text(Public \cup Private \cup Debt)
      BY <3>1 DEF Base, Text
    <3> QED
      BY <3>1, <3>2, BuiltLines
  <2>3. CASE x \in Text(Public \cup Vendor) /\ x.s \notin TypesOf(Base)
    <3>1. /\ Versioned(Base, settings.vendor, x).kind = "type"
          /\ Versioned(Base, settings.vendor, x).s = x.s
      BY <1>2, <2>3 DEF Versioned, Named
    <3> QED
      BY <2>3, <3>1, BuiltLines
  <2> QED
    BY <2>1, <2>2, <2>3, Directories
<1> QED
  BY <1>1, <1>2 DEF TypesOf

\* a name stands for the same type in the installed policy, where it may be
\* the attribute of a version, and in the sources
LEMMA SourceStands ==
  ASSUME Success, NEW n
  PROVE  StandsFor(Text(All), n) = {n} \cap TypesOf(Text(All))
<1>1. \A l \in Text(All) : l.kind # "member"
  BY TextLines, Directories
<1> QED
  BY <1>1 DEF StandsFor

LEMMA BuiltMembers ==
  ASSUME Success, NEW l \in out[Precompiled], l.kind = "member"
  PROVE  \E n \in TypesOf(Base) : l = OfMember(n, Current)
<1>1. CASE l \in Text(Public \cup Private \cup Debt)
  BY <1>1, TextLines, Directories
<1>2. CASE \E n \in TypesOf(Base) : l \in {OfAttribute(n, Current), OfMember(n, Current)}
  BY <1>2 DEF OfAttribute
<1>3. CASE \E x \in Text(Public \cup Vendor) : l = Versioned(Base, settings.vendor, x)
  <2>1. PICK x \in Text(Public \cup Vendor) : l = Versioned(Base, settings.vendor, x)
    BY <1>3
  <2>2. x.kind # "member"
    BY TextLines, Directories
  <2> QED
    BY <2>1, <2>2 DEF Versioned
<1> QED
  BY <1>1, <1>2, <1>3, BuiltLines

LEMMA BuiltStands ==
  ASSUME Success, NEW n, n = <<n[1]>>
  PROVE  /\ StandsFor(out[Precompiled], n) = {n} \cap TypesOf(Text(All))
         /\ n \in TypesOf(Base) => StandsFor(out[Precompiled], <<n[1], Current>>) = {n}
<1>1. StandsFor(out[Precompiled], n) = {n} \cap TypesOf(Text(All))
  <2>1. \A l \in out[Precompiled] : l.kind = "member" => l.s # n
    BY BuiltMembers, Names DEF OfMember
  <2> QED
    BY <2>1, BuiltTypes DEF StandsFor
<1>2. ASSUME n \in TypesOf(Base)
      PROVE  StandsFor(out[Precompiled], <<n[1], Current>>) = {n}
  <2>1. <<n[1], Current>> \notin TypesOf(out[Precompiled])
    BY BuiltTypes, BaseTypes, Names
  <2>2. ASSUME NEW l \in out[Precompiled], l.kind = "member", l.s = <<n[1], Current>>
        PROVE  l.t = n
    <3>1. PICK m \in TypesOf(Base) : l = OfMember(m, Current)
      BY <2>2, BuiltMembers
    <3>2. m[1] = n[1]
      BY <2>2, <3>1, Names DEF OfMember
    <3>3. m = <<m[1]>>
      BY BaseTypes
    <3> QED
      BY <3>1, <3>2, <3>3 DEF OfMember
  <2>3. OfMember(n, Current) \in out[Precompiled]
    BY <1>2, BuiltLines
  <2>4. OfMember(n, Current).kind = "member" /\ OfMember(n, Current).s = <<n[1], Current>>
          /\ OfMember(n, Current).t = n
    BY DEF OfMember
  <2> QED
    BY <2>1, <2>2, <2>3, <2>4 DEF StandsFor
<1> QED
  BY <1>1, <1>2

LEMMA NamedStands ==
  ASSUME Success, NEW n, n = <<n[1]>>
  PROVE  StandsFor(out[Precompiled], Named(Base, Current, n)) = StandsFor(Text(All), n)
<1>1. StandsFor(Text(All), n) = {n} \cap TypesOf(Text(All))
  BY SourceStands
<1>2. CASE n \in TypesOf(Base)
  <2>1. n \in TypesOf(Text(All))
    BY <1>2, BaseTypes
  <2>2. Named(Base, Current, n) = <<n[1], Current>>
    BY <1>2 DEF Named
  <2> QED
    BY <1>1, <1>2, <2>1, <2>2, BuiltStands
<1>3. CASE n \notin TypesOf(Base)
  BY <1>1, <1>3, BuiltStands DEF Named
<1> QED
  BY <1>2, <1>3

LEMMA SameRelation ==
  ASSUME Success, settings.vendor = Current, NEW kind \in {"allow", "neverallow"}
  PROVE  Relation(out[Precompiled], kind) = Relation(Text(All), kind)
<1> DEFINE Pairs(ls, l) == StandsFor(ls, l.s) \X StandsFor(ls, l.t)
<1>1. ASSUME NEW x \in Text(All)
      PROVE  /\ Pairs(out[Precompiled], x) = Pairs(Text(All), x)
             /\ Pairs(out[Precompiled], Versioned(Base, Current, x)) = Pairs(Text(All), x)
  <2>1. x.s = <<x.s[1]>> /\ x.t = <<x.t[1]>>
    BY TextLines, Directories
  <2>2. /\ StandsFor(out[Precompiled], x.s) = StandsFor(Text(All), x.s)
        /\ StandsFor(out[Precompiled], x.t) = StandsFor(Text(All), x.t)
    BY <2>1, BuiltStands, SourceStands
  <2>3. /\ StandsFor(out[Precompiled], Named(Base, Current, x.s)) = StandsFor(Text(All), x.s)
        /\ StandsFor(out[Precompiled], Named(Base, Current, x.t)) = StandsFor(Text(All), x.t)
    BY <2>1, NamedStands
  <2>4. /\ Versioned(Base, Current, x).s = Named(Base, Current, x.s)
        /\ Versioned(Base, Current, x).t = Named(Base, Current, x.t)
    BY DEF Versioned
  <2> QED
    BY <2>2, <2>3, <2>4
<1>2. ASSUME NEW l \in out[Precompiled], l.kind = kind
      PROVE  \E x \in Text(All) : x.kind = kind /\ Pairs(out[Precompiled], l) = Pairs(Text(All), x)
  <2>1. CASE l \in Text(Public \cup Private \cup Debt)
    BY <1>1, <1>2, <2>1, Directories
  <2>2. CASE \E n \in TypesOf(Base) : l \in {OfAttribute(n, Current), OfMember(n, Current)}
    BY <1>2, <2>2 DEF OfAttribute, OfMember
  <2>3. CASE \E x \in Text(Public \cup Vendor) : l = Versioned(Base, settings.vendor, x)
    <3>1. PICK x \in Text(Public \cup Vendor) : l = Versioned(Base, Current, x)
      BY <2>3
    <3>2. x.kind = kind
      BY <1>2, <3>1 DEF Versioned
    <3>3. x \in Text(All)
      BY Directories
    <3> HIDE DEF Pairs
    <3> QED
      BY <1>1, <3>1, <3>2, <3>3
  <2> QED
    BY <2>1, <2>2, <2>3, BuiltLines
<1>3. ASSUME NEW x \in Text(All), x.kind = kind
      PROVE  \E l \in out[Precompiled] :
               l.kind = kind /\ Pairs(out[Precompiled], l) = Pairs(Text(All), x)
  <2>1. CASE x \in Text(Public \cup Private \cup Debt)
    BY <1>1, <1>3, <2>1, BuiltLines
  <2>2. CASE x \in Text(Public \cup Vendor)
    <3>1. Versioned(Base, Current, x).kind = kind
      BY <1>3 DEF Versioned
    <3>2. Versioned(Base, Current, x) \in out[Precompiled]
      BY <2>2, BuiltLines
    <3> HIDE DEF Pairs
    <3> QED
      BY <1>1, <3>1, <3>2
  <2> QED
    BY <2>1, <2>2, Directories
<1>4. /\ Relation(out[Precompiled], kind) =
           UNION {Pairs(out[Precompiled], l) : l \in {x \in out[Precompiled] : x.kind = kind}}
      /\ Relation(Text(All), kind) =
           UNION {Pairs(Text(All), l) : l \in {x \in Text(All) : x.kind = kind}}
  BY DEF Relation
<1> HIDE DEF Pairs
<1>5. Relation(out[Precompiled], kind) \subseteq Relation(Text(All), kind)
  BY <1>2, <1>4
<1>6. Relation(Text(All), kind) \subseteq Relation(out[Precompiled], kind)
  BY <1>3, <1>4
<1> QED
  BY <1>5, <1>6

(***************************************************************************)
(* What the commands have refused.                                         *)
(***************************************************************************)
LEMMA BinaryTook ==
  ASSUME Success
  PROVE  /\ Links(out[Precompiled]) /\ Checked(out[Precompiled])
         /\ settings.user =>
              {n \in Permissive(out[Precompiled]) : n[1] \notin settings.allowed \cup Exempt} = {}
<1>1. Took(Precompiled, 1) /\ Took(Precompiled, 2)
  BY PrecompiledIs, ModulesAre DEF Success, Inv, DoneIsMade, DoneAt, Green, Precompiled
<1>2. Merged(Binary(Installed)) = out[Precompiled]
  BY OutputsAre, ModFields DEF Merged
<1>3. Merged(PermissiveCheck(Installed)) = out[Precompiled]
  BY OutputsAre, ModFields DEF Merged
<1>4. Links(out[Precompiled]) /\ Checked(out[Precompiled])
  <2>1. Accepted(Binary(Installed), Made(Precompiled, 1 - 1))
    BY <1>1, PrecompiledIs DEF Took
  <2>2. Binary(Installed).tool = "binary"
    BY ModFields
  <2> QED
    BY <1>2, <2>1, <2>2 DEF Accepted
<1>5. settings.user => Offenders(PermissiveCheck(Installed)) = {}
  <2>1. Accepted(PermissiveCheck(Installed), Made(Precompiled, 2 - 1))
    BY <1>1, PrecompiledIs DEF Took
  <2>2. PermissiveCheck(Installed).tool = "permissive"
    BY ModFields
  <2> QED
    BY <2>1, <2>2 DEF Accepted
<1> QED
  BY <1>3, <1>4, <1>5 DEF Offenders

\* secilc makes no attribute permissive, so the vendor's permissive domains
\* are not exported types
LEMMA SamePermissive ==
  ASSUME Success
  PROVE  Permissive(out[Precompiled]) = Permissive(Text(All))
<1>1. ASSUME NEW x \in Text(Public \cup Vendor), x.kind = "permissive"
      PROVE  Versioned(Base, settings.vendor, x) \in out[Precompiled]
             /\ Versioned(Base, settings.vendor, x).kind = "permissive"
             /\ Versioned(Base, settings.vendor, x).s = x.s
  <2> DEFINE l == Versioned(Base, settings.vendor, x)
  <2>1. l \in out[Precompiled]
    BY BuiltLines
  <2>2. l.kind = "permissive" /\ l.s = Named(Base, settings.vendor, x.s)
    BY <1>1 DEF Versioned
  <2>3. l.s \in TypesOf(Text(All))
    BY <2>1, <2>2, BinaryTook, BuiltTypes DEF Links, Permissive
  <2>4. x.s \notin TypesOf(Base)
    BY <2>2, <2>3, BaseTypes, Names DEF Named
  <2> QED
    BY <2>1, <2>2, <2>4 DEF Named
<1>2. ASSUME NEW l \in out[Precompiled], l.kind = "permissive"
      PROVE  \E x \in Text(All) : x.kind = "permissive" /\ x.s = l.s
  <2>1. CASE l \in Text(Public \cup Private \cup Debt)
    BY <1>2, <2>1, Directories
  <2>2. CASE \E n \in TypesOf(Base) : l \in {OfAttribute(n, Current), OfMember(n, Current)}
    BY <1>2, <2>2 DEF OfAttribute, OfMember
  <2>3. CASE \E x \in Text(Public \cup Vendor) : l = Versioned(Base, settings.vendor, x)
    <3>1. PICK x \in Text(Public \cup Vendor) : l = Versioned(Base, settings.vendor, x)
      BY <2>3
    <3>2. x.kind = "permissive"
      BY <1>2, <3>1 DEF Versioned
    <3> QED
      BY <1>1, <3>1, <3>2, Directories
  <2> QED
    BY <2>1, <2>2, <2>3, BuiltLines
<1>3. ASSUME NEW x \in Text(All), x.kind = "permissive"
      PROVE  \E l \in out[Precompiled] : l.kind = "permissive" /\ l.s = x.s
  <2>1. CASE x \in Text(Public \cup Private \cup Debt)
    BY <1>3, <2>1, BuiltLines
  <2>2. CASE x \in Text(Public \cup Vendor)
    BY <1>1, <1>3, <2>2
  <2> QED
    BY <2>1, <2>2, Directories
<1> QED
  BY <1>2, <1>3 DEF Permissive

LEMMA WholeIs == Whole = Text(All)
BY Directories DEF Whole, Text

\* Nothing is lost or added by masking, filtering, versioning and mapping.
THEOREM SplitIsWhole == Spec => []SplitEqualsWhole
<1>1. Inv => SplitEqualsWhole
  <2> SUFFICES ASSUME Success, settings.vendor = Current
               PROVE  /\ \A kind \in {"allow", "neverallow"} :
                           Relation(out["precompiled_sepolicy"], kind) = Relation(Whole, kind)
                      /\ Permissive(out["precompiled_sepolicy"]) = Permissive(Whole)
    BY DEF SplitEqualsWhole, Success
  <2> QED
    BY SameRelation, SamePermissive, WholeIs DEF Precompiled
<1> QED
  BY <1>1, BuildInvariant, PTL

\* No permissive domain is installed on a user build that is not listed or has
\* one of the names that sed deletes.
THEOREM PermissiveIsChecked == Spec => []PermissiveChecked
<1>1. Inv => PermissiveChecked
  <2> SUFFICES ASSUME Success, settings.user,
                      NEW n \in Permissive(out["precompiled_sepolicy"])
               PROVE  n[1] \in settings.allowed \cup Exempt
    BY DEF PermissiveChecked, Success
  <2> QED
    BY BinaryTook DEF Precompiled
<1> QED
  BY <1>1, BuildInvariant, PTL

\* A build that succeeds has no rule that a neverallow rule forbids, in any
\* partition's policy or across them.
THEOREM NeverallowsAreKept == Spec => []NeverallowsHold
<1>1. Inv => NeverallowsHold
  <2> SUFFICES ASSUME Inv, Green, ~settings.ignore
               PROVE  /\ ~Violated(UNION {srcs[d] : d \in Public \cup Private \cup Vendor})
                      /\ ~concealed /\ settings.vendor = Current => ~Violated(Whole)
    BY DEF NeverallowsHold
  <2>1. ~Violated(UNION {srcs[d] : d \in Public \cup Private \cup Vendor})
    BY ModulesAre DEF Inv, Tried, Tested, Green
  <2>2. ASSUME ~concealed, settings.vendor = Current
        PROVE  ~Violated(Whole)
    <3>1. Success
      BY <2>2 DEF Success
    <3>2. ~Violated(out[Precompiled])
      BY <3>1, BinaryTook DEF Checked
    <3>3. /\ Relation(out[Precompiled], "allow") = Relation(Whole, "allow")
          /\ Relation(out[Precompiled], "neverallow") = Relation(Whole, "neverallow")
      BY <2>2, <3>1, SameRelation, WholeIs
    <3> QED
      BY <3>2, <3>3 DEF Violated
  <2> QED
    BY <2>1, <2>2
<1> QED
  BY <1>1, BuildInvariant, PTL

\* Both ways to a vendor policy make the same of the same sources.
THEOREM BuildCilIsVendor == Spec => []BuildCilAgrees
<1>1. Inv => BuildCilAgrees
  <2> SUFFICES ASSUME Success
               PROVE  BuildCil = out["vendor_sepolicy"]
    BY DEF BuildCilAgrees, Success
  <2> QED
    BY OutputsAre DEF BuildCil, Text
<1> QED
  BY <1>1, BuildInvariant, PTL

\* A name in a vendor's policy is declared in it or exported: checkpolicy takes
\* no other when it compiles the policy of the odm partition.
LEMMA VendorNames ==
  ASSUME Success, NEW x \in Text(Public \cup Vendor), NEW n \in {x.s, x.t}
  PROVE  n \in TypesOf(Base) \/ n \in Own
<1> DEFINE conf == Text(Exported \cup Vendor)
<1>1. Accepts(Exported \cup Vendor)
  <2>1. Took("odm_sepolicy_raw", 1) /\ 1 \in DOMAIN Rule["odm_sepolicy_raw"]
    BY ModulesAre, RuleIs DEF Success, Inv, DoneIsMade, DoneAt, Green
  <2>2. Rule["odm_sepolicy_raw"][1] = Checkpolicy(Exported \cup Vendor)
    BY RuleIs
  <2> QED
    BY <2>1, <2>2, DirEffects DEF Took
<1>2. n \in Used(conf)
  BY DEF Used, Text, Exported
<1>3. n \in Declared(conf)
  BY <1>1, <1>2 DEF Accepts, Text
<1>4. PICK l \in conf : l.kind \in {"type", "attribute"} /\ l.s = n
  BY <1>3 DEF Declared
<1>5. PICK d \in Exported \cup Vendor : l \in srcs[d]
  BY <1>4 DEF Text
<1>6. l.kind = "type"
  <2>1. Exported \cup Vendor \subseteq Dirs
    BY DirsAre DEF Exported, Vendor, Public, Mask
  <2> QED
    BY <1>4, <2>1, TextLines
<1>7. n \in TypesOf(srcs[d])
  BY <1>4, <1>5, <1>6 DEF TypesOf
<1>8. d # "reqd_mask"
  <2>1. PICK e \in Public \cup Vendor : x \in srcs[e]
    BY DEF Text
  <2>2. e \in Dirs \ Mask
    BY DirsAre DEF Public, Vendor, Mask
  <2>3. n \in Used(srcs[e])
    BY <2>1 DEF Used
  <2> QED
    BY <1>7, <2>2, <2>3, SourcesAre DEF MaskAlone
<1>9. d \in Public \/ d \in Vendor
  BY <1>8 DEF Exported, Mask
<1>10. CASE d \in Public
  BY <1>5, <1>4, <1>6, <1>10 DEF TypesOf, Base, Text
<1>11. CASE d \in Vendor
  BY <1>7, <1>11 DEF Vendor, Own
<1> QED
  BY <1>9, <1>10, <1>11

\* A vendor's file depends on no private type of the platform, and names the
\* exported ones by their versions.
THEOREM VendorIsIndependent == Spec => []VendorIndependent
<1>1. Inv => VendorIndependent
  <2> SUFFICES ASSUME Success
               PROVE  /\ \A m \in {"plat_pub_versioned", "vendor_sepolicy", "odm_sepolicy"} :
                           \A n \in Used(out[m]) :
                             n \in Own \/ \E e \in ExportedTypes : n = <<e[1], settings.vendor>>
                      /\ ~settings.ignore => \A d \in Public \cup Private : Own \cap TypesOf(srcs[d]) = {}
    BY DEF VendorIndependent, Success
  <2>1. ExportedTypes = TypesOf(Base)
    BY DEF ExportedTypes, TypesOf, Base, Text
  <2>2. ASSUME NEW m \in {"plat_pub_versioned", "vendor_sepolicy", "odm_sepolicy"},
               NEW n \in Used(out[m])
        PROVE  n \in Own \/ \E e \in ExportedTypes : n = <<e[1], settings.vendor>>
    <3>1. PICK l \in out[m] : n = l.s \/ n = l.t
      BY DEF Used
    <3>2. l \in Attributized(Text(Public), Text(Public \cup Vendor), settings.vendor)
      BY <3>1, VendorFiles
    <3>3. PICK x \in Text(Public \cup Vendor) : l = Versioned(Base, settings.vendor, x)
      BY <3>2, AttributizedIs DEF Base
    <3>4. PICK y \in {x.s, x.t} : n = Named(Base, settings.vendor, y)
      BY <3>1, <3>3 DEF Versioned
    <3>5. CASE y \in TypesOf(Base)
      BY <2>1, <3>4, <3>5 DEF Named
    <3>6. CASE y \notin TypesOf(Base)
      BY <3>4, <3>6, VendorNames DEF Named
    <3> QED
      BY <3>5, <3>6
  <2>3. ASSUME ~settings.ignore, NEW d \in Public \cup Private
        PROVE  Own \cap TypesOf(srcs[d]) = {}
    <3>1. Accepts(Tested)
      BY <2>3, ModulesAre DEF Success, Inv, Tried, Green
    <3>2. d \in Tested /\ d # "vendor" /\ d # "odm" /\ "vendor" \in Tested /\ "odm" \in Tested
      BY DEF Tested, Public, Private, Vendor
    <3> QED
      BY <3>1, <3>2 DEF Accepts, Own
  <2> QED
    BY <2>2, <2>3
<1> QED
  BY <1>1, BuildInvariant, PTL

-----------------------------------------------------------------------------
(***************************************************************************)
(* Types.                                                                  *)
(***************************************************************************)
AllLines(ls) == \A l \in ls : IsLine(l)
LinesOK      == \A m \in DOMAIN out : AllLines(out[m])

LEMMA NameTypes ==
  ASSUME NEW n \in NameSet
  PROVE  n[1] \in Types
BY DEF NameSet

LEMMA EffectLines ==
  ASSUME Inv, LinesOK, NEW m, NEW c, Well(c, m), c.mods \subseteq DOMAIN out,
         NEW o, AllLines(o)
  PROVE  AllLines(Effect(c, o))
<1>1. AllLines(Conf(c))
  <2>1. \A d \in c.dirs : srcs[d] \subseteq SourceLine
    BY SourcesAssumption DEF Inv, Typed, Well
  <2>2. \A l \in SourceLine : IsLine(l)
    BY DEF SourceLine, IsLine, NameSet
  <2> QED
    BY <2>1, <2>2 DEF Conf, AllLines
<1>2. AllLines(Merged(c))
  BY DEF Merged, LinesOK, AllLines
<1>3. ASSUME c.tool \in {"mapping", "version_policy"}
      PROVE  AllLines(Version(c))
  <2>1. settings.vendor \in Versions
    BY CasesAssumption DEF Inv, Typed, Settings
  <2>2. AllLines(out[c.base]) /\ (c.target = "" \/ AllLines(out[c.target]))
    BY <1>3 DEF Well, LinesOK
  <2>3. AllLines(MappingOf(out[c.base], Current))
    <3>1. \A n \in TypesOf(out[c.base]) : n \in NameSet
      BY <2>2 DEF AllLines, IsLine, TypesOf
    <3>2. ASSUME NEW n \in TypesOf(out[c.base])
          PROVE  IsLine(OfAttribute(n, Current)) /\ IsLine(OfMember(n, Current))
      <4>1. <<n[1], Current>> \in NameSet
        BY <3>1, NameTypes DEF NameSet
      <4> QED
        BY <3>1, <4>1 DEF IsLine, OfAttribute, OfMember
    <3> QED
      BY <3>2, MappingIs DEF AllLines
  <2>4. ASSUME c.target # ""
        PROVE  AllLines(Attributized(out[c.base], out[c.target], settings.vendor))
    <3>1. \A n \in NameSet : Named(out[c.base], settings.vendor, n) \in NameSet
      <4>1. \A n \in NameSet : <<n[1], settings.vendor>> \in NameSet
        BY <2>1, NameTypes DEF NameSet
      <4> QED
        BY <4>1 DEF Named
    <3>2. ASSUME NEW l \in out[c.target]
          PROVE  IsLine(Versioned(out[c.base], settings.vendor, l))
      <4>1. IsLine(l)
        BY <2>2, <2>4 DEF AllLines
      <4> QED
        BY <3>1, <4>1 DEF IsLine, Versioned
    <3> QED
      BY <3>2, AttributizedIs DEF AllLines
  <2> QED
    BY <2>3, <2>4 DEF Version
<1> QED
  BY <1>1, <1>2, <1>3 DEF Effect, AllLines

LEMMA PutLines ==
  ASSUME LinesOK, NEW r, NEW o, AllLines(o), out' = Put(r, o)
  PROVE  LinesOK'
<1>1. DOMAIN out' = DOMAIN out \cup {r} /\ out'[r] = o /\ \A n \in DOMAIN out \ {r} : out'[n] = out[n]
  BY PutIs
<1>2. \A l : IsLine(l)' <=> IsLine(l)
  BY DEF IsLine
<1> QED
  BY <1>1, <1>2 DEF LinesOK, AllLines

LEMMA LinesStep ==
  ASSUME Inv, LinesOK, [Next]_vars
  PROVE  LinesOK'
<1>1. CASE Execute
  <2>1. PICK r, k : Runs(r, k)
    BY <1>1, SomeRuns DEF Execute
  <2>2. Well(Now, r) /\ Running = r
    BY <2>1, RuleCommands DEF Runs
  <2>3. Now.mods \subseteq DOMAIN out
    BY <1>1 DEF Execute, Succeeds, Present
  <2>4. AllLines(Content)
    BY DEF Content, LinesOK, AllLines
  <2>5. AllLines(Effect(Now, Content))
    BY <2>2, <2>3, <2>4, EffectLines
  <2>6. out' = out \/ out' = Put(r, Effect(Now, Content))
    BY <1>1, <2>2 DEF Execute
  <2> QED
    BY <2>5, <2>6, PutLines DEF LinesOK, AllLines, IsLine
<1>2. CASE Break
  <2>1. out' = out \/ out' = Put(Running, {})
    BY <1>2 DEF Break
  <2>2. AllLines({})
    BY DEF AllLines
  <2> QED
    BY <2>1, <2>2, PutLines DEF LinesOK, AllLines, IsLine
<1>3. CASE UNCHANGED out
  BY <1>3 DEF LinesOK, AllLines, IsLine
<1> QED
  BY <1>1, <1>2, <1>3 DEF Next, vars, Start, Refuse, Conceal, Build

\* Type correctness: outputs are of the rules, and of lines on types and their
\* versions, and the rule that runs is at one of its commands.
THEOREM TypeCorrect == Spec => []TypeOK
<1>1. Init => LinesOK
  BY DEF Init, LinesOK
<1>2. Spec => []LinesOK
  <2>1. Inv /\ LinesOK /\ [Next]_vars => LinesOK'
    BY LinesStep
  <2> QED
    BY <1>1, <2>1, BuildInvariant, PTL DEF Spec
<1>3. Inv /\ LinesOK => TypeOK
  <2> SUFFICES ASSUME Inv, LinesOK
               PROVE  TypeOK
    OBVIOUS
  <2>1. job = Idle \/ (Running \in Modules /\ job[2] \in DOMAIN Rule[Running] /\ status[Running] = "todo")
    BY SomeRuns DEF Runs
  <2> QED
    BY <2>1 DEF Inv, Typed, LinesOK, AllLines, TypeOK
<1> QED
  BY <1>2, <1>3, BuildInvariant, PTL
=============================================================================
