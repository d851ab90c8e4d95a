----------------------------- MODULE PolicyBuild ----------------------------
(***************************************************************************)
(* The build of the split policy: the rules that Android.bp declares with  *)
(* the module types se_policy_conf, se_policy_cil, se_versioned_policy,    *)
(* se_policy_binary and se_neverallow_test, and the commands that          *)
(* build/soong generates for each.  A rule runs its commands one after the *)
(* other, joined by "&&", on one output; ninja runs the rules in any order *)
(* their inputs allow, stops whenever one fails, and builds again after    *)
(* an edit what depends on the edited files.                               *)
(*                                                                         *)
(* A policy is a set of lines [kind, s, t]; a name is <<type>> or, for the *)
(* attribute of a version, <<type, version>>.  Sources are what m4 leaves, *)
(* "vendor" is the policy of plat_vendor too, and the product              *)
(* partition, which is built as system_ext is, is left out.                *)
(***************************************************************************)
EXTENDS Integers, Sequences, FiniteSets

CONSTANTS
  Types,            \* the types' names
  Current,          \* PLATFORM_SEPOLICY_VERSION
  Versions,         \* ... and what BOARD_SEPOLICY_VERS may be
  Sources,          \* what the directories may contain
  Cases,            \* [srcs, settings]: what they contain at first, and the
                    \* settings of the builds
  Exempt,           \* types with "backuptool" or "recovery" in their name
  Edits(_, _),      \* what the directories may be edited to
  MaxFaults(_, _),  \* bound of the model: commands that fail by themselves
  MaxBuilds         \* bound of the model: builds

VARIABLES
  srcs,       \* the directories
  settings,
  out,        \* the outputs that there are
  status,     \* of the rules: "todo", "done", "failed"
  job,        \* the rule that runs and its next command
  builds,     \* how many builds there were
  faults,     \* how many commands failed on their own
  concealed   \* history: a command failed and its rule went on

vars == <<srcs, settings, out, status, job, builds, faults, concealed>>

\* se_build_files
Public  == {"plat_public", "system_ext_public"}
Private == {"plat_private", "system_ext_private"}
Vendor  == {"vendor", "odm"}
Mask    == {"reqd_mask"}
Debt    == {"technical_debt"}
Dirs    == Public \cup Private \cup Vendor \cup Mask \cup Debt

\* a user build, SELINUX_IGNORE_NEVERALLOWS, BOARD_SEPOLICY_VERS and
\* permissive_domains_on_user_builds
Settings ==
  [user : BOOLEAN, ignore : BOOLEAN, vendor : Versions, allowed : SUBSET Types]

\* A line of a source.  A rule on an attribute stands for the rules on its
\* types: the attributes of a policy are those of the versions.
SourceLine ==
  [kind : {"type", "allow", "neverallow", "permissive", "sid"},
   s : {<<t>> : t \in Types}, t : {<<t>> : t \in Types}]

-----------------------------------------------------------------------------
\* What lines say
Declared(ls)   == {l.s : l \in {x \in ls : x.kind \in {"type", "attribute"}}}
TypesOf(ls)    == {l.s : l \in {x \in ls : x.kind = "type"}}
Used(ls)       == {l.s : l \in ls} \cup {l.t : l \in ls}
Permissive(ls) == {l.s : l \in {x \in ls : x.kind = "permissive"}}

StandsFor(ls, n) ==
  ({n} \cap TypesOf(ls)) \cup {l.t : l \in {x \in ls : x.kind = "member" /\ x.s = n}}

Relation(ls, kind) ==
  UNION {StandsFor(ls, l.s) \X StandsFor(ls, l.t) : l \in {x \in ls : x.kind = kind}}

Violated(ls) == Relation(ls, "allow") \cap Relation(ls, "neverallow") # {}

\* reqd_mask has a type of its own, reqd_mask_type, which it needs to compile
\* and which no other directory names
MaskAlone(s) ==
  /\ Used(s["reqd_mask"]) \subseteq TypesOf(s["reqd_mask"])
  /\ \A d \in Dirs \ Mask : Used(s[d]) \cap TypesOf(s["reqd_mask"]) = {}

ASSUME SourcesAssumption ==
  /\ Sources \subseteq [Dirs -> SUBSET SourceLine]
  /\ \A s \in Sources : MaskAlone(s)

ASSUME CasesAssumption ==
  \A c \in Cases : c.srcs \in Sources /\ c.settings \in Settings

ASSUME EditsAssumption ==
  \A s \in Sources, c \in Cases : Edits(s, c.settings) \subseteq Sources

-----------------------------------------------------------------------------
(***************************************************************************)
(* The tools that are not in this repository.                              *)
(***************************************************************************)
\* checkpolicy: a type is declared once, and there is an initial sid
Accepts(dirs) ==
  LET conf == UNION {srcs[d] : d \in dirs}
  IN  /\ Used(conf) \subseteq Declared(conf)
      /\ \A d, e \in dirs : d # e => TypesOf(srcs[d]) \cap TypesOf(srcs[e]) = {}
      /\ \E l \in conf : l.kind = "sid"

\* secilc -m: a type may be declared again
Links(ls) == Used(ls) \subseteq Declared(ls) /\ Permissive(ls) \subseteq TypesOf(ls)

\* cil_android_attrib_mapping
MappingOf(base, v) ==
  UNION {{[kind |-> "attribute", s |-> <<n[1], v>>, t |-> <<n[1], v>>],
          [kind |-> "member", s |-> <<n[1], v>>, t |-> n]} : n \in TypesOf(base)}

\* cil_android_attributize
Attributized(base, target, v) ==
  LET Name(n) == IF n \in TypesOf(base) THEN <<n[1], v>> ELSE n
      Kind(l) == IF l.kind = "type" /\ l.s \in TypesOf(base) THEN "attribute" ELSE l.kind
  IN  {[kind |-> Kind(l), s |-> Name(l.s), t |-> Name(l.t)] : l \in target}

-----------------------------------------------------------------------------
(***************************************************************************)
(* The commands of a rule.                                                 *)
(***************************************************************************)
Command(tool, dirs, mods) == [tool |-> tool, dirs |-> dirs, mods |-> mods, base |-> "", target |-> ""]

Checkpolicy(dirs)  == Command("checkpolicy", dirs, {})
FilterOut(mods)    == Command("filter_out", {}, mods)
Cat(dirs)          == Command("cat", dirs, {})
Secilc(mods)       == Command("secilc", {}, mods)      \* neverallows as configured
SecilcN(mods)      == Command("secilc -N", {}, mods)
Binary(mods)       == Command("binary", {}, mods)
PermissiveCheck(mods) == Command("permissive", {}, mods)
Copy(mods)         == Command("cp", {}, mods)
NeverallowTest(dirs)  == Command("neverallow_test", dirs, {})
Mapping(base)      ==
  [tool |-> "mapping", dirs |-> {}, mods |-> {base}, base |-> base, target |-> ""]
VersionPolicy(base, target) ==
  [tool |-> "version_policy", dirs |-> {}, mods |-> {base, target}, base |-> base, target |-> target]

Exported == Public \cup Mask
Split    == {"plat_sepolicy", "system_ext_sepolicy", "plat_pub_versioned", "plat_mapping_file"}

\* (mutant) leaves the vendor's policy out of the test
TestedPlatform == Public \cup Private

\* the sources of sepolicy_neverallows
Tested == Public \cup Private \cup Vendor

\* (mutant) forgets the mapping of a partition
InstalledNoExt == Split \cup {"vendor_sepolicy", "odm_sepolicy"}

\* precompiled_sepolicy_srcs
Installed == Split \cup {"system_ext_mapping_file", "vendor_sepolicy", "odm_sepolicy"}

\* (mutant) what is looked at is not what is installed
BinaryRulePlat(mods) == <<Binary(mods), PermissiveCheck({"plat_sepolicy"}), Copy(mods)>>

\* permissive domains are looked for in the file that is then installed
BinaryRule(mods) == <<Binary(mods), PermissiveCheck(mods), Copy(mods)>>

RawMask == {"reqd_policy_mask"}

\* the modules of Android.bp; with no product partition, pub_policy is the same
\* as system_ext_pub_policy, and stands for both
Rule ==
  [reqd_policy_mask        |-> <<Checkpolicy(Mask)>>,
   plat_pub_policy         |-> <<Checkpolicy({"plat_public"} \cup Mask), FilterOut(RawMask)>>,
   pub_policy              |-> <<Checkpolicy(Exported), FilterOut(RawMask)>>,
   plat_sepolicy           |-> <<Checkpolicy({"plat_public", "plat_private"}), Cat(Debt), Secilc({})>>,
   system_ext_sepolicy     |-> <<Checkpolicy(Public \cup Private), FilterOut({"plat_sepolicy"}),
                                 Secilc({"plat_sepolicy"})>>,
   plat_mapping_file       |-> <<Mapping("plat_pub_policy")>>,
   system_ext_mapping_file |-> <<Mapping("pub_policy"), FilterOut({"plat_mapping_file"})>>,
   plat_pub_versioned      |-> <<VersionPolicy("pub_policy", "pub_policy")>>,
   vendor_sepolicy_raw     |-> <<Checkpolicy(Exported \cup {"vendor"}), FilterOut(RawMask)>>,
   vendor_sepolicy         |-> <<VersionPolicy("pub_policy", "vendor_sepolicy_raw"),
                                 FilterOut({"plat_pub_versioned"}), SecilcN(Split)>>,
   odm_sepolicy_raw        |-> <<Checkpolicy(Exported \cup Vendor),
                                 FilterOut(RawMask \cup {"vendor_sepolicy_raw"})>>,
   odm_sepolicy            |-> <<VersionPolicy("pub_policy", "odm_sepolicy_raw"),
                                 FilterOut({"plat_pub_versioned"}),
                                 SecilcN(Split \cup {"vendor_sepolicy"})>>,
   precompiled_sepolicy    |-> BinaryRule(Installed),
   sepolicy_neverallows    |-> <<NeverallowTest(Tested)>>]

Modules == DOMAIN Rule

\* (mutant) the dependencies on filter_out files are not declared
ReadsNoFilter(m) ==
  (UNION {Rule[m][i].mods : i \in {j \in DOMAIN Rule[m] : Rule[m][j].tool # "filter_out"}}) \ {m}

\* the outputs and the directories that a rule reads, and those it depends on
Reads(m) == (UNION {Rule[m][i].mods : i \in DOMAIN Rule[m]}) \ {m}
Upstream[m \in Modules] == Reads(m) \cup UNION {Upstream[n] : n \in Reads(m)}
SourcesOf(m) == UNION {UNION {Rule[n][i].dirs : i \in DOMAIN Rule[n]} : n \in Upstream[m] \cup {m}}

-----------------------------------------------------------------------------
Idle == <<>>

Init ==
  /\ \E c \in Cases : srcs = c.srcs /\ settings = c.settings
  /\ out = <<>>
  /\ status = [m \in Modules |-> "todo"]
  /\ job = Idle /\ builds = 1 /\ faults = 0 /\ concealed = FALSE

Green  == \A m \in Modules : status[m] = "done"
Failed == \E m \in Modules : status[m] = "failed"

\* ninja starts nothing after a failure
Start(m) ==
  /\ job = Idle /\ status[m] = "todo"
  /\ ~Failed
  /\ \A n \in Reads(m) : status[n] = "done"
  /\ job' = <<m, 1>>
  /\ UNCHANGED <<srcs, settings, out, status, builds, faults, concealed>>

Running == job[1]
Now     == Rule[Running][job[2]]

Conf(c)   == UNION {srcs[d] : d \in c.dirs}
Merged(c) == UNION {out[n] : n \in c.mods}

\* what the rule that runs has in its output
Content == IF Running \in DOMAIN out THEN out[Running] ELSE {}

\* the commands after the first also read what the rule has written
Present(c) ==
  /\ c.mods \subseteq DOMAIN out
  /\ c.tool \in {"filter_out", "cat", "secilc", "secilc -N"} => Running \in DOMAIN out

\* (mutant) secilc always runs with -N
CheckedNever(ls) == TRUE

Checked(ls) == settings.ignore \/ ~Violated(ls)

\* sed deletes the lines with the names in Exempt from the list
Offenders(c) == {n \in Permissive(Merged(c)) : n[1] \notin settings.allowed \cup Exempt}

\* whether a command takes its inputs, with o in the output
Accepted(c, o) ==
  CASE c.tool = "checkpolicy"     -> Accepts(c.dirs)
    [] c.tool = "secilc"          -> Links(Merged(c) \cup o) /\ Checked(Merged(c) \cup o)
    [] c.tool = "secilc -N"       -> Links(Merged(c) \cup o)
    [] c.tool = "binary"          -> Links(Merged(c)) /\ Checked(Merged(c))
    [] c.tool = "permissive"      -> settings.user => Offenders(c) = {}
    [] c.tool = "neverallow_test" -> settings.ignore \/ (Accepts(c.dirs) /\ ~Violated(Conf(c)))
    [] OTHER                      -> TRUE

Succeeds(c) == Present(c) /\ Accepted(c, Content)

\* version_policy, with -m and with -t
Version(c) ==
  IF c.target = "" THEN MappingOf(out[c.base], Current)
  ELSE Attributized(out[c.base], out[c.target], settings.vendor)

\* what a command makes of what is in the output
Effect(c, o) ==
  CASE c.tool = "checkpolicy"                     -> Conf(c)
    [] c.tool = "filter_out"                      -> o \ Merged(c)
    [] c.tool = "cat"                             -> o \cup Conf(c)
    [] c.tool \in {"mapping", "version_policy"}   -> Version(c)
    [] c.tool = "cp"                              -> Merged(c)
    [] c.tool = "neverallow_test"                 -> {}
    [] OTHER                                      -> o

\* these only look at what others have written
Writes(c) == c.tool \notin {"secilc", "secilc -N", "binary", "permissive"}

Put(m, o) == [n \in DOMAIN out \cup {m} |-> IF n = m THEN o ELSE out[n]]

GoOn ==
  IF job[2] < Len(Rule[Running])
  THEN job' = <<Running, job[2] + 1>> /\ UNCHANGED status
  ELSE job' = Idle /\ status' = [status EXCEPT ![Running] = "done"]

Execute ==
  /\ job # Idle /\ Succeeds(Now)
  /\ out' = IF Writes(Now) THEN Put(Running, Effect(Now, Content)) ELSE out
  /\ GoOn
  /\ UNCHANGED <<srcs, settings, builds, faults, concealed>>

Stop(m) == job' = Idle /\ status' = [status EXCEPT ![m] = "failed"]

Refuse ==
  /\ job # Idle /\ ~Succeeds(Now)
  /\ Stop(Running)
  /\ UNCHANGED <<srcs, settings, out, builds, faults, concealed>>

\* a command is killed, or the disk is full: what it was writing is cut short
Break ==
  /\ job # Idle /\ Succeeds(Now) /\ faults < MaxFaults(srcs, settings)
  /\ out' \in {out, Put(Running, {})}
  /\ Stop(Running)
  /\ faults' = faults + 1
  /\ UNCHANGED <<srcs, settings, builds, concealed>>

\* version_policy cannot open its output, and sepolicy-analyze fails before
\* "| { grep ... || true; }": both commands have the status 0
Conceals(c) ==
  \/ c.tool \in {"mapping", "version_policy"}
  \/ c.tool = "permissive" /\ settings.user /\ settings.allowed # {}

Conceal ==
  /\ job # Idle /\ Present(Now) /\ Conceals(Now) /\ faults < MaxFaults(srcs, settings)
  /\ GoOn
  /\ faults' = faults + 1 /\ concealed' = TRUE
  /\ UNCHANGED <<srcs, settings, out, builds>>

\* the next build: rules that failed or whose output is missing, and those that
\* depend on what changed
Build(new) ==
  /\ job = Idle /\ builds < MaxBuilds /\ (Green \/ Failed)
  /\ srcs' = new /\ builds' = builds + 1
  /\ status' = [m \in Modules |->
       IF \/ status[m] = "failed" \/ m \notin DOMAIN out
          \/ \E d \in SourcesOf(m) : srcs[d] # new[d]
       THEN "todo" ELSE status[m]]
  /\ UNCHANGED <<settings, out, job, faults, concealed>>

Next ==
  \/ \E m \in Modules : Start(m)
  \/ Execute \/ Refuse \/ Break \/ Conceal
  \/ \E new \in Edits(srcs, settings) : Build(new)
Spec == Init /\ [][Next]_vars

-----------------------------------------------------------------------------
NameSet == {<<t>> : t \in Types} \cup (Types \X Versions) \cup (Types \X {Current})
IsLine(l) ==
  /\ l.kind \in {"type", "attribute", "member", "allow", "neverallow", "permissive", "sid"}
  /\ {l.s, l.t} \subseteq NameSet

TypeOK ==
  /\ DOMAIN out \subseteq Modules
  /\ \A m \in DOMAIN out : \A l \in out[m] : IsLine(l)
  /\ status \in [Modules -> {"todo", "done", "failed"}]
  /\ job = Idle \/ (Running \in Modules /\ job[2] \in DOMAIN Rule[Running] /\ status[Running] = "todo")

\* what all directories say together, as recovery_sepolicy has it
Whole == UNION {srcs[d] : d \in Dirs \ Mask}

\* The policy that the partitions' files make together grants, forbids and
\* excepts from enforcement exactly what the sources do: nothing is lost or
\* added by masking, filtering, versioning and mapping, as long as the vendor
\* policy is for the version whose mapping is built.
SplitEqualsWhole ==
  Green /\ ~concealed /\ settings.vendor = Current =>
    LET built == out["precompiled_sepolicy"]
    IN  /\ \A kind \in {"allow", "neverallow"} : Relation(built, kind) = Relation(Whole, kind)
        /\ Permissive(built) = Permissive(Whole)

\* A file of the vendor partition names a type of the platform only by the
\* attribute of its version, and only an exported one: the platform can be
\* updated without it.  A type of its own is none of the platform's, which
\* secilc would not notice: it takes both for one.
Own == TypesOf(srcs["vendor"]) \cup TypesOf(srcs["odm"])
ExportedTypes == UNION {TypesOf(srcs[d]) : d \in Public}

VendorIndependent ==
  Green /\ ~concealed =>
    /\ \A m \in {"plat_pub_versioned", "vendor_sepolicy", "odm_sepolicy"} :
         \A n \in Used(out[m]) :
           n \in Own \/ \E e \in ExportedTypes : n = <<e[1], settings.vendor>>
    /\ ~settings.ignore => \A d \in Public \cup Private : Own \cap TypesOf(srcs[d]) = {}

\* "permissive domains not allowed in user builds": none is installed that is
\* not listed or has one of the names that sed deletes.
PermissiveChecked ==
  Green /\ ~concealed /\ settings.user =>
    \A n \in Permissive(out["precompiled_sepolicy"]) : n[1] \in settings.allowed \cup Exempt

\* No rule of any partition is one that a neverallow rule of any other
\* forbids, unless SELINUX_IGNORE_NEVERALLOWS is set: not only in the policy
\* that is installed but in the sources together.  For technical_debt.cil,
\* which is added to CIL and is in no policy.conf, only the installed policy
\* tells, and a vendor policy of another version is not linked by its mapping.
NeverallowsHold ==
  Green /\ ~settings.ignore =>
    /\ ~Violated(UNION {srcs[d] : d \in Public \cup Private \cup Vendor})
    /\ ~concealed /\ settings.vendor = Current => ~Violated(Whole)

\* what the first k commands of a rule, of at most three, make of its inputs,
\* and what the rule makes of them
Made(m, k) ==
  LET After(i, o) == Effect(Rule[m][i], o)
  IN  CASE k = 0 -> {}
        [] k = 1 -> After(1, {})
        [] k = 2 -> After(2, After(1, {}))
        [] k = 3 -> After(3, After(2, After(1, {})))

Resulting(m) == Made(m, Len(Rule[m]))

\* When a build succeeds, every output is the one that its rule makes of what
\* its inputs are now, whatever earlier builds were stopped in and left.
NothingStale ==
  Green /\ ~concealed => \A m \in Modules : m \in DOMAIN out /\ out[m] = Resulting(m)

\* (mutant) filters the policy before it is versioned
BuildCilFirst ==
  Attributized(out["pub_policy"],
               ((UNION {srcs[d] : d \in Exported \cup {"vendor"}}) \ out["reqd_policy_mask"])
                  \ out["plat_pub_versioned"],
               settings.vendor)

\* do_build_cil of build_sepolicy.py, on the inputs of the vendor policy: the
\* last command, which checks the output, is that of the module
BuildCil ==
  LET raw == Attributized(out["pub_policy"],
                          (UNION {srcs[d] : d \in Exported \cup {"vendor"}}) \ out["reqd_policy_mask"],
                          settings.vendor)
  IN  raw \ out["plat_pub_versioned"]

\* There are two ways to a vendor policy, the build_cil command and the modules of
\* vendor_sepolicy.cil.  Of the same sources both make the same.
BuildCilAgrees == Green /\ ~concealed => BuildCil = out["vendor_sepolicy"]

-----------------------------------------------------------------------------
(***************************************************************************)
(* What the comments say and the code does not do.                         *)
(***************************************************************************)
\* usage of version_policy: "write cil policy to <file>"
AlwaysWritten == Green => \A m \in Modules : m \in DOMAIN out /\ out[m] = Resulting(m)

\* policyBinaryProperties: "List of domains that are allowed to be in
\* permissive mode on user builds."
OnlyListed ==
  Green /\ settings.user =>
    \A n \in Permissive(out["precompiled_sepolicy"]) : n[1] \in settings.allowed
=============================================================================
