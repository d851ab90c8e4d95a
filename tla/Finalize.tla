------------------------------ MODULE Finalize ------------------------------
(***************************************************************************)
(* tools/finalize-vintf-resources.sh: freezes the version Target.  It      *)
(* snapshots the sources, builds what the snapshot needs, calls            *)
(* sepolicy_generate_compat (GenerateCompat, with which it shares          *)
(* compat/Android.bp and private/compat), and edits the build files so     *)
(* that Target becomes the last frozen version.  One action is one         *)
(* command; "set -e" ends the script at the first that fails, and nothing  *)
(* is undone.  The script can be started again, by then on other sources.  *)
(***************************************************************************)
EXTENDS GenerateCompat, SequencesExt

CONSTANT Sources      \* the sets of policy files that the tree may have

\* versions by their place in the order of releases
ASSUME ConsecutiveVersions == Latest \in Nat \ {0} /\ Target = Latest + 1

VARIABLES sources,    \* public/ and private/
          tree,       \* the files that the script edits
          line,       \* the command of the script that is next
          sedAt       \* position in Seds

scriptVars == <<sources, tree, line, sedAt>>
allVars    == <<vars, scriptVars>>

PrevPrev == Latest - 1
NextVer  == Target + 1
Versions == 0 .. NextVer
Upto(v)  == [i \in 1 .. v + 1 |-> i - 1]

\* the lists of Android.bp that have one element for each version, in the order
\* of the sed commands
Seds == <<"plat", "compat", "system_ext", "system_ext.compat", "product",
          "treble_sepolicy_tests">>
Lists == {Seds[i] : i \in DOMAIN Seds}

\* lines of the list of plat_sepolicy_genfs files, as bpfmt writes them
Formatted(vs) == [i \in DOMAIN vs |-> [indent |-> TRUE, items |-> <<vs[i]>>]]

\* The tree when v is the last frozen version:
\*   snapshot, bp, dist  prebuilts/api/Target: files, modules of Android.bp, built files
\*   cts                 srcs of prebuilt_sepolicy_cts_data in tests/Android.bp
\*   freeze              FREEZE_TEST_BOARD_API_LEVEL
\*   config              PLATFORM_SEPOLICY_COMPAT_VERSIONS in config.mk
\*   lists, select       Android.bp: versions listed, and the version in select()
\*   genfs, genfsList    files in compat/, and the list of them in Android.bp
\*   genfsBp, tests      number of modules of that version in compat/Android.bp and
\*                       treble_sepolicy_tests_for_release/Android.bp
Released(v) ==
  [snapshot |-> {}, bp |-> {}, dist |-> FALSE,
   cts |-> Upto(v), freeze |-> v, config |-> Upto(v),
   lists |-> [l \in Lists |-> Upto(v - 1)], select |-> [l \in Lists |-> v],
   genfs |-> 0 .. v + 1, genfsList |-> Formatted(Upto(v + 1)),
   genfsBp |-> [w \in Versions |-> IF w <= v + 1 THEN 1 ELSE 0],
   tests |-> [w \in Versions |-> IF w <= v THEN 1 ELSE 0]]

AnyInput == CHOOSE i \in Inputs : TRUE     \* nothing is built yet

ScriptInit ==
  /\ Init /\ in = AnyInput
  /\ sources \in Sources /\ tree = Released(Latest) /\ line = "idle" /\ sedAt = 1

-----------------------------------------------------------------------------
\* from a command to the next one, with what it does to the tree
Command(from, to, new) ==
  /\ line = from /\ line' = to /\ tree' = new
  /\ UNCHANGED <<vars, sources, sedAt>>

Start ==
  /\ line = "idle" /\ line' = "snapshot"
  /\ UNCHANGED <<vars, sources, tree, sedAt>>

\* cp -r into a directory that may be there
Snapshot == Command("snapshot", "prebuilt bp", [tree EXCEPT !.snapshot = @ \cup sources])

\* cat > Android.bp
WritePrebuiltBp == Command("prebuilt bp", "build", [tree EXCEPT !.bp = {"modules", "dist"}])

\* what Soong does not accept: a module that is defined twice, or one that is
\* named and not defined
Duplicated == \/ bp.modules > 1
              \/ \E v \in Versions : tree.genfsBp[v] > 1 \/ tree.tests[v] > 1
Named(l)   == {tree.select[l]} \cup ToSet(tree.lists[l])
Undefined  == \/ Target \in ToSet(tree.cts) /\ "cts" \notin tree.bp
              \/ \E l \in Lists \ {"treble_sepolicy_tests"} : Target \in Named(l) /\ bp.modules = 0
              \/ \E v \in Named("treble_sepolicy_tests") : tree.tests[v] = 0

\* m dist; the inputs of sepolicy_generate_compat are among what is built
Build ==
  /\ ~Duplicated /\ ~Undefined
  /\ line = "build" /\ line' = "copy dist"
  /\ in' \in Inputs
  /\ UNCHANGED <<bp, files, work, ignored, removed, at, pc, runs, sources, tree, sedAt>>

CopyDist == Command("copy dist", "cts data", [tree EXCEPT !.dist = TRUE])

\* cat >> Android.bp
AddCtsData == Command("cts data", "add to cts", [tree EXCEPT !.bp = @ \cup {"cts"}])

\* bpmodify -a does not add an element twice
AddToCtsSkipped == Command("add to cts", "freeze", tree)    \* (mutant)
AddToCts ==
  Command("add to cts", "freeze",
          [tree EXCEPT !.cts = IF Target \in ToSet(@) THEN @ ELSE Append(@, Target)])

SetFreezeTest == Command("freeze", "config", [tree EXCEPT !.freeze = Target])

\* s/a/a b/g
AddedAfter(seq, a, b) ==
  FlattenSeq([i \in DOMAIN seq |-> IF seq[i] = a THEN <<a, b>> ELSE <<seq[i]>>])

AddToConfig ==
  Command("config", "generate", [tree EXCEPT !.config = AddedAfter(@, Latest, Target)])

-----------------------------------------------------------------------------
\* sepolicy_generate_compat, on what is there
ToolStep == \/ CreateModules \/ PatchTopHalf \/ Touch \/ Parse
            \/ MapTypes \/ Reject \/ Write \/ Fail

Generate ==
  /\ line = "generate"
  /\ ToolStep
  /\ UNCHANGED scriptVars

GenerateReturns ==
  /\ line = "generate" /\ pc \in {"done", "failed"}
  /\ line' = IF pc = "done" THEN "remove dist" ELSE "failed"
  /\ UNCHANGED <<vars, sources, tree, sedAt>>

RemoveDist == Command("remove dist", "copy genfs", [tree EXCEPT !.bp = @ \ {"dist"}])

CopyGenfs ==
  /\ Target \in tree.genfs
  /\ Command("copy genfs", "genfs module", [tree EXCEPT !.genfs = @ \cup {NextVer}])

AddGenfsModule ==
  Command("genfs module", "list genfs", [tree EXCEPT !.genfsBp[NextVer] = @ + 1])

\* the pattern has a ^ before the quotation mark
Anchored(l) == ~l.indent /\ Head(l.items) = Target
ListGenfs ==
  Command("list genfs", "sed",
          [tree EXCEPT !.genfsList =
             [i \in DOMAIN @ |-> IF Anchored(@[i])
                                 THEN [@[i] EXCEPT !.items = <<Target, NextVer>> \o Tail(@)]
                                 ELSE @[i]]])

AppendToList ==
  /\ line = "sed"
  /\ tree' = [tree EXCEPT !.lists[Seds[sedAt]] = AddedAfter(@, PrevPrev, Latest)]
  /\ IF sedAt < Len(Seds) THEN sedAt' = sedAt + 1 /\ UNCHANGED line
     ELSE sedAt' = 1 /\ line' = "select"
  /\ UNCHANGED <<vars, sources>>

\* (mutant) without the address /PLATFORM_SEPOLICY_VERSION/,/})/
SelectEverywhere ==
  Command("select", "bpfmt",
          [tree EXCEPT !.select = [l \in Lists |-> IF @[l] = Latest THEN Target ELSE @[l]],
                       !.lists  = [l \in Lists |-> [i \in DOMAIN @[l] |->
                                     IF @[l][i] = Latest THEN Target ELSE @[l][i]]]])
SetSelect ==
  Command("select", "bpfmt",
          [tree EXCEPT !.select = [l \in Lists |-> IF @[l] = Latest THEN Target ELSE @[l]]])

FormatBp ==
  Command("bpfmt", "tests",
          [tree EXCEPT !.genfsList =
             Formatted(FlattenSeq([i \in DOMAIN @ |-> @[i].items]))])

AddTests == Command("tests", "done", [tree EXCEPT !.tests[Target] = @ + 1])

-----------------------------------------------------------------------------
ScriptFails ==
  /\ line \notin {"idle", "done", "failed", "generate", "by hand"}
  /\ line' = "failed"
  /\ UNCHANGED <<vars, sources, tree, sedAt>>

\* the script is started again
StartAgain ==
  /\ line \in {"failed", "done"} /\ runs < MaxRuns
  /\ line' = "snapshot" /\ sedAt' = 1 /\ sources' \in Sources
  /\ runs' = runs + 1 /\ pc' = "create" /\ at' = 1
  /\ in' = AnyInput /\ work' = Nothing /\ ignored' = {} /\ removed' = {}
  /\ UNCHANGED <<bp, files, tree>>

\* sepolicy_generate_compat is also used without the script
ByHand ==
  /\ line = "idle" /\ line' = "by hand" /\ in' \in Inputs
  /\ UNCHANGED <<bp, files, work, ignored, removed, at, pc, runs, sources, tree, sedAt>>

ToolByHand ==
  /\ line = "by hand"
  /\ ToolStep \/ Rerun
  /\ UNCHANGED scriptVars

ScriptNext ==
  \/ Start \/ Snapshot \/ WritePrebuiltBp \/ Build \/ CopyDist \/ AddCtsData \/ AddToCts
  \/ SetFreezeTest \/ AddToConfig \/ Generate \/ GenerateReturns \/ RemoveDist \/ CopyGenfs
  \/ AddGenfsModule \/ ListGenfs \/ AppendToList \/ SetSelect \/ FormatBp \/ AddTests
  \/ ScriptFails \/ StartAgain \/ ByHand \/ ToolByHand
ScriptSpec == ScriptInit /\ [][ScriptNext]_allVars

-----------------------------------------------------------------------------
\* A script that succeeds leaves the tree as the next one, for the version after,
\* needs it: in every list, in order, once, and each module that is named is
\* there, whatever failed before and was left behind.  The list of genfs files and the
\* snapshot are not among that: see GenfsListed and SnapshotExact.
InStep ==
  line = "done" =>
    /\ \A f \in DOMAIN tree \ {"snapshot", "bp", "dist", "genfsList"} :
         tree[f] = Released(Target)[f]
    /\ bp = [modules |-> 1, top |-> {"map", "ignore"}]
    /\ tree.bp = {"modules", "cts"} /\ tree.dist /\ sources \subseteq tree.snapshot
    /\ \A f \in DOMAIN files : files[f] # Absent

\* Running the script again never applies an edit a second time.  The commands
\* would; what stops them is that the build of the second run does not accept what the
\* first has edited, as the module for the CTS is named and no longer defined.
NothingTwice ==
  line # "by hand" =>
    /\ ~Duplicated
    /\ IsInjective(tree.config) /\ IsInjective(tree.cts)
    /\ \A l \in Lists : IsInjective(tree.lists[l])

\* "Snapshots $ver files": files that are gone since a run that failed stay.
SnapshotExact == line = "done" => tree.snapshot = sources

\* "trunk* is now $next_ver, so add plat_sepolicy_genfs_${next_ver} for trunk*
\* builds": the list is indented, so the pattern with ^ matches no line of it.
GenfsListed ==
  line = "done" => \E i \in DOMAIN tree.genfsList : NextVer \in ToSet(tree.genfsList[i].items)
=============================================================================
