# Specifications of the SELinux policy tools

This directory holds TLA+ specifications of the programs in this repository,
the TLC configurations that check them, and proofs for TLAPS. The policy
itself (`*.te`, `*_contexts`, `*.cil`) is data; what is modelled are the
programs that check it, filter it, combine it and keep it compatible between
releases, and the order in which the build runs them.

Inside this directory

    tlc -config Seapp.cfg MCSeappCheck      checks a run
    tlapm SeappCheckProofs.tla                   checks the proofs of a module

`PROJECT.json` lists the runs, for every definition the source lines it
stands for, the hazards of the code and the properties that cover them.

## 1. The system

| component | state it keeps | operations | works with |
|---|---|---|---|
| `tools/check_seapp.c` (checkseapp) | lists of rules and of neverallow rules, a hash table of keys, a list of violations for each rule | options, open, parse a line, validate, report, output | reads `seapp_contexts` of all partitions and the binary policy; called by `build/soong/selinux_contexts.go` |
| `build/file_utils.py`, `build_sepolicy.py` | the lines of a CIL file, a stack of open line markers | `filter_out`, `remove_redundant_line_markers` | called by the Soong policy modules |
| `tests/mini_parser.py` | types, attributes, their sets, the reverse map | read a CIL file statement by statement | used by the five tools on maps below |
| `tests/combine_maps.py` | two parsed maps | `Combine` | run by `se_cil_compat_map` |
| `build/soong/cil_compat_map.go`, `tests/treble_sepolicy_tests.py`, `sepolicy_freeze_test.py` | a map and an ignore map per frozen version | build a map out of its top half, test it | the chain of compatibility |
| `tools/sepolicy_generate_compat.py`, `finalize-vintf-resources.sh` | files of the source tree, `compat/Android.bp` | freeze a version | write what the chain reads |
| `tools/sepolicy-check.c` | one policy, one query | load, resolve, search two tables | libsepol |
| `tools/checkfc.c` | options, one policy, one contexts file | validate, compare, test | libselinux, called by `selinux_contexts.go` |
| `tools/version_policy.c`, `seamendc.c` | one policy | read, transform, write | libsepol, called by `versioned_policy.go` and for OEM amendments |
| `tools/sepolicy-analyze/` | one policy | neverallow, typecmp, dups, attribute, permissive, booleans | libsepol, used by the CTS |
| `tools/sepolicy_filter_neverallow.py` | the lines of a policy.conf | keep markers and neverallow rules | output is read by the CTS |
| `tests/policy.py`, `sepol_wrap.cpp`, `sepolicy_tests.py`, ... | one policy, the lines of all contexts files in the order of `fc_sort.py` | queries and tests: which types have the paths below a prefix, which domains are started from where | libsepol through ctypes; a rule of the build, which reads the files that `file_contexts.bin` is made of |
| `tests/fc_sort.py` and the rules of `file_contexts.bin` | the lines of five partitions | order by precedence, join, check | calls checkfc; read by libselinux |
| `tools/insertkeys.py`, `post_process_mac_perms` | an XML file of signers | replace tags by keys | |
| `build/soong/*.go` | the module graph | policy.conf, CIL, binary, contexts of each partition | calls all of the above |

Almost all are short sequential programs that run as rules of one build. What
makes them hard is therefore not shared memory but

* results that depend on the order of the input, of the keys of a dictionary,
  or of the modules of a build;
* state made for one element and used for another (list elements in
  checkseapp, the reverse map in Combine, a pattern for versions that are no
  longer spelt so);
* failures in the middle: outputs opened before the input is read, side effects
  before validation, tools that are run again on what a failed run left;
* exit statuses with several meanings, on which the build acts;
* composition over releases: a map frozen years ago is combined with each newer
  one, and must stay right.

What makes each component correct:

* checkseapp accepts if and only if every line is well formed, no two rules
  have the same inputs, and no rule violates a neverallow; a failed run leaves no
  output that looks like one;
* filtering removes the statements that match and nothing else, and every other
  statement keeps its markers;
* a map from the current policy to a version gives every public type of the
  current policy a place and declares every public type that is gone;
* freezing a version changes nothing for the versions before, and can be
  repeated after a failure;
* the policies of the partitions together say what their sources say, and what a
  successful build leaves is made of the sources as they are now;
* sepolicy-analyze checks the neverallow rules of its file, all of them, as they are
  written, and the file the CTS has asks for the same;
* an answer of an auditing tool, 0 or 1, can be relied on, and is about the policy
  that was asked for;
* a path gets the label of the most specific line that matches it, whichever
  partition the line comes from, and no label gets onto a device unchecked.

## 2. Modules

| module | models | abstraction |
|---|---|---|
| `SeappRules`, `SeappCheck` | `check_seapp.c` | values are sequences of atoms, a line is its words |
| `SeappPromise` | what checkseapp promises: the abstract specification of `SeappCheck` | no table, no lists, no lines but those that are taken |
| `LineMarkers` | `remove_redundant_line_markers` | a line is a kind and a text |
| `FilterOut` | `filter_out`, with `LineMarkers` as its loop | the same |
| `MiniCilParser` | `MiniCilParser._getNextStmt` and the loop over the file | five classes of characters |
| `CilMaps` | what a parsed map consists of, `Combine` as a function | names are values; spelling is the operators `Base`, `TwoPart` |
| `CombineMaps` | `Combine` step by step | |
| `AtomicCombine` | `Combine` as its callers see it: the abstract specification of `CombineMaps` | |
| `CompatChain` | `cil_compat_map.go`, the treble tests, the freeze test, as one build | |
| `GenerateCompat` | `sepolicy_generate_compat.py`, with failures and reruns | |
| `Finalize` | `finalize-vintf-resources.sh`, which calls `GenerateCompat` | a build file is the lists and the counts of modules the script edits |
| `SepolicyCheck` | `sepolicy-check.c` | a policy is two sets of rules |
| `Seamendc`, `AmendAndCheck` | `seamendc.c`, run several times, and `sepolicy-check` on what it leaves | a CIL file is its rules and what is wrong with it |
| `CheckFc` | `checkfc.c` | a contexts file is a sequence of entries; lookup takes the last that matches, of those without operators if there is one |
| `FcSort` | `fc_sort.py`, as functions on lines | a path is a sequence of characters |
| `FileContexts` | the rules of `file_contexts.bin` in `Android.bp` and `selinux_contexts.go`, with `FcSort` and `CheckFc` as commands | a regular expression is the set of the paths it matches |
| `PathTests` | `sepolicy_test`, one more rule next to those: the tests of paths and of coredomain in `sepolicy_tests.py`, with the queries of `policy.py` they make | a policy is types with their attributes, a domain has its entry points |
| `NeverallowParser` | the parser of `sepolicy-analyze neverallow`, run on a file and on what the filter leaves of it | an atom is a word, a blank or a mark; type sets and bit masks are sets |
| `SepolicyAnalyze` | `sepolicy-analyze` without neverallow: `typecmp`, `dups`, `attribute`, `permissive`, `booleans`, and the choice between them | a policy is two sets of rules, a bit mask a set |
| `FilterNeverallow` | `sepolicy_filter_neverallow.py`, as a function on lines | the same atoms |
| `NeverallowLanguage` | what neverallow rules mean and how they are written: the reference for the two modules above, and their properties | |
| `PolicyBuild` | the rules of the split policy in `Android.bp` and the commands of `build/soong` for them, `version_policy`, the permissive check, `build_cil`, under ninja | a policy is a set of lines, one type stands for all of a directory |
| `*Proofs` | theorems about the module of that name, and those it is composed of; `CilMapsProofs` about `CombineMaps` and `CompatChain`, which share `CilMaps` | |
| `MC*` | instances for TLC | |

**SeappCheck.** `pc` is the phase of `main()`. `order` and `nallow` are
`line_order_list` and `nallow_list`, `table` the hash table. The interesting
part is the lists of violations: `list_append(&rm->violations,
&assert->listify)` links a list element that lives in the *neverallow*, of
which there is one, into the list of every rule that violates it. The model has
`violations[i]` (head and tail in rule `i`) and `next[n]` (the pointer in
neverallow `n`), so one rule's append changes another's list as it does in C.
One action is one line, one rule against one neverallow, one element printed,
one rule written. A write may be lost without anybody noticing.

`SeappPromise` is the same program for somebody who has only its output: rules
are taken, then all are known to be acceptable, then all are written, or it
fails before the first one. `SeappCheck!Promise` maps the one to the other:
`order` and `nallow` are what was taken, and `Written` is the cursor of the
output loop; the table, the lists, the phases and what is printed are hidden, so
that hundreds of steps of the validation are one stutter.

**LineMarkers, FilterOut.** One action is one turn of the loop; `partner` is a
history variable. `FilterOut` calls it several times on the same file with the same
patterns. The target is replaced at the end only. A line is compared with the patterns newline
and all (`AsRead`), and the last line of a file may have none (`ended`): the newline that
`filter_out` writes behind its result is then the one of that line, otherwise an empty line
(`Padded`). So a pattern can match a last line in the second call that it did not match in the first.

**MiniCilParser.** One action is one character. At the end of a file `read(1)`
returns `''` (the value `"eof"` here) again and again: the model does too, which is how the parser can
fail to stop.

**CilMaps, CombineMaps, CompatChain.** `CilMaps!Combined` is `Combine` as a
function and `CombineMaps` the loop with its live and its stale view of the
bottom map; `ResultRight` says that they agree, which is proved; `AtomicCombine` is the one step
in which `CompatChain` uses the function, and `CombineMaps!Atomic` maps the live
map to the given one until `Combine` returns. Its `hist` is a history of public types and the files that developers
wrote at each freeze, right or wrong; the rules of the build run in every order
that their inputs allow; `frozen` says whether the platform version is the
newest frozen one, in which case its modules are skipped
(`shouldSkipBuild`) and the freeze test runs. In the sources these are two
settings (`PLATFORM_SEPOLICY_VERSION`, `RELEASE_BOARD_API_LEVEL_FROZEN`) that a
release sets together.

**GenerateCompat.** One action is one side effect on the source tree: the
append to `Android.bp`, each `bpmodify`, each `touch`, each file written. `Fail`
can happen between any two, and `Rerun` starts again, with other inputs, on what
is there.

**Finalize.** One action is one command of the script, with `line` as its program
counter; `Generate` is a step of `GenerateCompat`, with which it shares
`compat/Android.bp` and the files of `private/compat`. `ScriptFails` is `set -e`,
between any two commands, and `StartAgain` starts the script on what is there, with
sources that may have changed. `Build` has the guard that makes a second run safe or
not: what Soong refuses (`Duplicated`, `Undefined`). `ByHand` is the tool without the
script.

**SepolicyCheck.** The two tables are searched one after the other. `MaskBits`
stands for the 16 bits of `perm_bitmask`.

**Seamendc, AmendAndCheck.** One action is one phase of `main()` of seamendc, or one
of its CIL files; each may end in a failure. `disk` outlives the program, `NextJob`
starts the next command line on it, and the output is cut to nothing when it is opened.
`asked` is a history variable: the rules each policy should hold. `AmendAndCheck`
starts sepolicy-check on the last output, whether seamendc succeeded or not.

**PolicyBuild.** The composition. A module of `Android.bp` is a field of `Rule`:
its commands in the order that `build/soong` adds them, each with the
directories and the outputs of other modules it reads. One action is one
command; `Break` is one that is killed and leaves its output cut short, `Refuse`
one that does not accept its input, `Conceal` one that fails with the exit status
0 (`version_policy` when it cannot open its output, `sepolicy-analyze` before
`|| true`). `Build` is the next build after an edit: it runs again what failed,
is missing, or depends on what changed. checkpolicy, secilc and libsepol's
`cil_android_*` are four operators that say what lines they accept and make.

**NeverallowParser, FilterNeverallow.** One action is one turn of a loop of
`neverallow.c`: over the statements, over the elements of a type set, over the
classes, over the permissions. `set`, `negate` and `openparens` are what these loops
carry from turn to turn. `Finish` notes the result for the policy.conf
(`stage = "whole"`) and starts again on `Filtered(conf.lines)`, which is the file
the CTS gets. A file comes with the statements that are written in it and with the places
of their tokens, so its meaning is known without parsing it: `IsWritten` of
`NeverallowLanguage` says what it is for statements to be written in a text, with any blanks,
line ends and comments between the tokens, and any other statements between the rules or before one in its
line. A list is a sequence of tokens with braces in it, nested as m4 leaves them where it has
expanded a macro. A rule is one of the statements if there are blanks around its keyword; one that follows a
semicolon with nothing between them, or has a brace directly behind the keyword, is passed over by the parser,
and such rules are in the files, too.

**SepolicyAnalyze.** One action is one rule that `avtab_map` visits, in any order,
or the comparison of one pair of types. `type_rules` are the linked lists of
`typecmp.c`, with their insertion in order; an empty list is one that is empty or
that has been freed, which the code cannot tell apart either. The commands that list
something are one action each; `Permissive`, `NameAt` keep the two ways in which
the code counts from a bit to a name.

**CheckFc, FcSort, FileContexts.** `CheckFc` has the loop over options, over entries,
over test lines. `FcSort` has the stem, the length, `is_meta` and the comparison of
`fc_sort.py`, character by character; Python's sort is stable. In `FileContexts` a rule of
`Android.bp` is an action that runs once its inputs are there, and a checkfc
inside of one is `CheckFc` started on what is to be checked; when it exits with
something else than 0 the build ends. The runs of `CheckFc` on its own are in
the same specification (`Alone`), as they share its cases.

**PathTests.** `SepolicyTest` is one more rule of that build. It reads the files that
`file_contexts.bin` is made of, but joins and sorts them on its own (`FcSorted`), and
decides by looking at the text of expressions (`MatchPathPrefix`, with its two heuristics)
what a device decides by matching paths. `TestsMean` is the relation of the two.
It speaks of a path below the prefix of a test under conditions on that path, its label and the prefix
alone. `Agrees`: the line that labels the path is, for `fc_sort`, more specific than each other line that the
prefix itself matches; the tests leave out what is before the last of those. `Spelt`: the prefix goes as
far as the name of the partition, and can be the end of a piece of the expression; and no
character may be absent before the first operator of what is left of the expression behind that name.
TLC refutes `TestsMean` without any of them. How the other lines are ordered does not matter: the files of
the platform are not sorted for a device (`contexts/Android.bp:76-88`), so there a line may rank above one
that `fc_sort` takes for more specific. `/(vendor|system/vendor)(/.*)?` (`private/file_contexts:425`) does, above
`/system(/.*)?` (line 242), which has the longer stem. It labels `/vendor/x`, which is judged for the prefix `/vendor/`, as line
242 does not match that prefix; and it labels `/system/vendor/x`, which is not judged for the prefix `/system/`, as that line does, and
the tests leave out what is before it.
The first versions of `Spelt` looked
at the whole expression, and forgot that `{` makes a character optional too: the proof did not go
through, and TLC then found the files (`Far` and `Grp` of `MCFileContexts`).
Of regular expressions, two things are supposed (`LiteralsAreWords`, `PartitionsAreNamed`): a word begins with the
characters before the first operator, and the part of an expression that names a partition
matches one of its names.

## 3. What the runs check

Every property that holds has in `PROJECT.json` a mutant, a plausible error in
the code that violates it. Mutated operators stand before the real ones in the
modules and are marked `(mutant)`.

| run | shows |
|---|---|
| `Seapp` | seven rules and neverallow rules in any order over up to four lines, malformed and unusual lines of every kind over up to three, a file that overflows a table of four entries, three policies: the verdict is sound, and no line is lost to the table (`VerdictSound`) and justified, with each offender named (`VerdictJustified`), checkseapp implements `SeappPromise`: failure leaves no rule in the output and success comes to the end of all (`Implements`), and the program ends, as the shared elements never form a cycle (`Terminates`) |
| `FilterOut` | all files of four lines, of six with one kind of marker, and all paired ones of six, each with a newline at its end and without, filtered three times: pairs are kept if and only if a statement is inside, and no statement is lost (`MarksRight`), and `FilteredExactly`, `ContextPreserved`, `Idempotent` for the function as a whole |
| `MiniCil` | all files of five characters, seven after `(x`: `StatementsRight`, `Stops` |
| `Combine` | all pairs of maps of the bounds, every order of the keys: no caller can tell `Combine` from one step, which makes the function `Combined` of the two maps (`IsAtomic`) |
| `Chain` | all histories of three types over two frozen versions: a green build is one whose vendor policies compile (`TypesDeclared`); files that are complete for each step stay complete for all older versions (`ChainComplete`); the rules suffice (`Finishes`) |
| `Generate` | two runs of the tool and of the script, failing at any command, with other sources and inputs: maps that are complete (`NewTypesCovered`), whatever is left of the first run (`SameTreatment`), those of the version before as they were (`LatestKept`); a script that succeeds leaves every list, module and file as the one for the next version needs them (`InStep`), and never applies an edit a second time (`NothingTwice`) |
| `Check` | two commands of seamendc, in place or from one file to another, with good and bad CIL files, failing anywhere, and each query of sepolicy-check on the last output: answers can be relied on (`NoMissedGrant`, `MatchReal`) and are about all the rules the policy was made of (`AuditOfAmended`) |
| `PolicyBuild` | seven directories with up to two of twenty optional lines, built in every order, one failure, one edit and a second build: what is installed together grants, forbids and exempts what the sources do (`SplitEqualsWhole`), files of the vendor partition name only exported types, by version (`VendorIndependent`), no permissive domain is installed on user builds but those excepted (`PermissiveChecked`), no rule of any partition breaks a neverallow of another (`NeverallowsHold`), nothing left by an earlier build stays (`NothingStale`), `build_cil` and the modules agree (`BuildCilAgrees`) |
| `Neverallow` | type sets of up to two names and an exception, or with braces in braces, on either side, classes and permissions with and without `*`, `~` and nested braces, all on one line with all the blanks or as few as there must be, one rule cut in two lines at any place, a file that ends at any place of its second rule, any three out of fourteen pieces, among them two rules on a line, a rule behind another statement and rules without blanks around the keyword, and any five lines with markers: what is read is what is written and a torn file is an error (`ReadRight`), and the filtered file has the same rules in the same blocks, if nothing but rules is before a rule in its line (`FilterPreserves`) |
| `Analyze` | policies of up to three rules over four types and two attributes, with conditional rules, visited in every order: the lists that are compared do not depend on the order (`ListsCanonical`), a verdict on two types agrees with what the policy allows them although lists are freed while others are still compared with them (`VerdictsRight`), no pair is lost (`PairsAccounted`), the duplicates are those there are (`DupsRight`), and `attribute`, `permissive` and `booleans` list what the policy has, for every command line (`ListedRight`) |
| `CheckFc` | every option, file and test of the bounds: `AcceptedRight`, `TwoMeansRight`; files of five partitions built into `file_contexts.bin` in every order of the rules: no label gets in that was not checked (`BinValid`), and a path gets the label of the most specific line (`Precedence`); when `sepolicy_test` passes, what a device labels below the prefixes of a test with a line that is, for `fc_sort`, more specific than those for the prefix has the attributes that are asked for, and no domain is coredomain that is started from the vendor's paths, or other than coredomain from the system's (`TestsMean`) |

One more run shows a statement of a comment, a usage text or a document
that the code does not fulfil; `PROJECT.json` quotes it under `findings`:

| run | what happens |
|---|---|
| `ChainVersions` | `(\w+)_\d+_\d+` does not match `foo_202404`, so the treble test finds no removed type |

Each module states a type invariant, `TypeOK`: that of checkseapp is proved. No
configuration lists it, as the other properties are about types that are right; added to
any of them, it holds. The same is true of `ListsAscend`, which `Terminates`
and the proof rest on, and of `ReplacedWhole` of `FilterOut`.

The modules state further promises of comments that the code does not keep, each
with the quotation above it. They have no configuration of their own: put in the place
of the properties of the configuration named here, TLC refutes each. (`Seapp.cfg*` is
`Seapp.cfg` with `Lines <- TwinLines` and `Files <- MCTwinFiles`.)

| property | in | what happens |
|---|---|---|
| `ReportExact` | `Seapp.cfg` | shared list elements: violations unprinted, or printed for the wrong rule |
| `NoDuplicateEntries` | `Seapp.cfg*` | the hash key depends on the order and case of the words, so duplicates are accepted |
| `OnlyDuplicatesRejected` | `Seapp.cfg*` | words run together into the same hash key |
| `CmpSeesMismatch` | `Seapp.cfg*` | `rule_map_cmp` cannot say that rules do not match |
| `LaterOverrides` | `Seapp.cfg*` | a later declaration does not override, it is an error |
| `Anchored` | `Seapp.cfg*` | alternatives in a pattern escape the anchors |
| `LinesKept` | `FilterOut.cfg` | the statements of an `lms` block lose their line numbers |
| `IdempotentAtOnce` | `FilterOut.cfg` | the last line of a file without a newline at its end does not match a pattern with one, gets a newline and is removed by the next call |
| `AlwaysStops` | `MiniCil.cfg` | a comment at the end of a file without a newline |
| `NewTypesMapped` | `Combine.cfg` | a set of one type is skipped, even if the type is new |
| `RemovedHandled` | `Generate.cfg` | no type is ever found removed, for the same reason as in `ChainVersions` |
| `SnapshotExact` | `Generate.cfg` | `cp -r` into the directory of a run that failed: files deleted since stay in the snapshot |
| `GenfsListed` | `Generate.cfg` | the pattern for the list of genfs files begins with `^"`, the lines of the list with blanks |
| `FailureKeepsPolicies` | `Check.cfg`, as a PROPERTY | seamendc opens its output, which may be its base, before it has anything to write |
| `NeverCrashes` | `Analyze.cfg` | `attribute -r` without a name looks up a null pointer |
| `AlwaysPrecedence` | `CheckFc.cfg` | `is_meta` takes an expression for a plain path if each of its operators is also in it with a backslash |
| `PathsHaveAttr` | `CheckFc.cfg` | a line for paths inside and outside of an exception is not tested |
| `OmitsLessSpecific` | `CheckFc.cfg` | the most specific line for a prefix may end there: those that label the paths below it are then left out (`TestsMean` without `Agrees`) |
| `MatchRight` | `CheckFc.cfg` | a character before the first operator is compared although the operator says that it may be absent |
| `AlwaysWritten` | `PolicyBuild.cfg` | `version_policy` exits with 0 without having opened its output, and the build goes on with an old one |
| `OnlyListed` | `PolicyBuild.cfg` | names with "recovery" or "backuptool" are deleted from the list of permissive domains |
| `FilterPreservesAll` | `Neverallow.cfg` | a rule behind another statement in its line is lost, the filter looks for the keyword at the start of lines only |
| `OneStatementPerLine`, `OnlyNeverallows` | `Neverallow.cfg` | of the semicolons before a comment only the last ends a line, and statements after a rule with a blank behind it stay |
| `AllEquivalent`, `AlikeFound` | `Analyze.cfg` | of three equivalent types one pair is not displayed, and types with a rule between them never are |
| `ShownDiffers` | `Analyze.cfg` | what is shown of a difference may be in both, after a list was freed or when a rule before it is missing |
| `AllDups` | `Analyze.cfg` | a rule of an attribute and itself is taken for one of a type and itself |
| `EveryPermission` | `Check.cfg` | a permission whose value does not fit the mask is never found |
| `OnlyAllowRules`, `Inequality`, `Wildcards` | `Check.cfg` | sepolicy-check and what its comments promise |

The same code can satisfy the weaker property of a passing run and violate the
stronger one of its documentation: that each offender is named holds,
that exactly the violations are printed does not.

That `NothingTwice` holds is less than it seems: the commands of the script would edit
a second time. If the first run failed before it added the version to the CTS
(line 192 of the script), nothing but the snapshot was edited in a way that can be
applied twice, and a second run works. If it failed later, writing the prebuilts'
`Android.bp` anew drops the module that `tests/Android.bp` now names, so the build
of the second run refuses the tree: it takes a person to undo the first run.

### Bounds

* `Seapp`: four lines are two rules and two neverallow rules, or three and
  one: a rule on two lists, a neverallow on two lists, and the pointer that the
  second append overwrites. The lists can share no more than two elements in
  another way; the theorems have no bound. Malformed lines are looked at one by
  one, with at most two others before or after; five lines overflow a table of
  `TableSize = 4` entries.
* `FilterOut`: six lines are two nested blocks, each with a statement that is
  removed or kept, or three nested ones without any; files whose markers do not
  pair up are all there up to four lines, and up to six with one kind of start
  marker. `MaxRuns = 3`: the second call is the exception of `Idempotent`, the third is none. One set of
  patterns comes from a file whose last line has no newline.
* `MiniCil`: five characters are a statement with a comment; seven a comment with
  a parenthesis inside a statement.
* `Combine`: an attribute for each of two types and `new_objects`, which is both a
  type and an attribute.
* `Chain`: three versions are the least in which a type comes and goes again,
  and a map is combined twice.
* `Generate`: two runs, `MaxRuns = 2`: the second starts from anything a first
  can leave. With a third (940 000 states, too many for every day) nothing else is
  violated. Four versions, `Latest - 1` to `Target + 1`, are those that
  the script's edits name; two sets of sources, one with a file the other has not.
* `Check`: a rule in each table, as rules are looked at one by one; `MaskBits = 2`
  and permissions of value 1 to 3. Two commands of seamendc are an output that is
  the next one's base, or its own; two CIL files are one before the last.
* `PolicyBuild`: one type for each directory that declares any; two optional
  lines are a rule and the neverallow rule it breaks, or two rules of different
  partitions that meet in filtering. Failures and edits start from one source in
  which every rule has something to do; one failure before or after the one edit,
  `MaxBuilds = 2`. Three settings: a user build, one that ignores neverallow
  rules, and a vendor policy of an older version.
* `Neverallow`: three types, an attribute and a name that the policy does not have;
  two classes that share a permission. A set has up to two names and one that is
  taken out, so each flag meets each; nested ones have up to three braces in one another, with an
  exception before, in and behind the inner ones. The rule that is cut in two has every mark. Five lines
  are a block within a block, or two blocks, with a rule between their markers.
* `Analyze`: attributes of two and of three types, with a type between their
  members, so lists are freed before, between and after others; three rules
  are a type that is like another but for one rule, first or last in the list; two conditional
  rules of one key.
* `CheckFc`: two entries, two test lines, two options; for the build, one line of the
  platform and two of the device, or one from each of several partitions, among them one of the product that
  is less specific than the platform's before it, whose paths have a
  stem, a length or a file type in common, with operators, with escaped ones, and with
  both. The tests are one for an attribute, one against it and one with an exception, over
  prefixes that are a partition with two names, a prefix of one of them, a path of another line, and a path no line
  is for; one expression has an optional character behind the partition, one is a group; the four domains are one of the system, one of the vendor, an app and one of the
  allowlist.

Versions in `Chain` and `Generate` are of the form 33.0 (`TwoPart`), the form
in which the pattern of the parser works; `ChainVersions` uses the form 202404.

### Fairness

`SeappCheck!FairSpec`, `MiniCilParser!ParseSpec`: weak fairness of `Next`, as a
sequential program goes on while it can. `CompatChain!Spec`: weak fairness of
`Next`, as ninja runs every rule whose inputs are there. No fairness is
assumed of any single action.

`CHECK_DEADLOCK FALSE` is in every configuration: these programs end.

## 4. What is proved

| theorem | of | about |
|---|---|---|
| `TypeCorrect`, `VerdictIsSound`, `VerdictIsJustified`, `KeepsPromise` | `SeappCheckProofs` | `TypeOK`, `VerdictSound`, `VerdictJustified` for every set of lines and policies; `Implements`: `SeappCheck` implements `SeappPromise` |
| `MarksAreRight`, `FilteredIsExact`, `ContextIsPreserved`, `FilteringIsIdempotent` | `FilterOutProofs` | `MarksRight`, `FilteredExactly`, `ContextPreserved`, `Idempotent` for all files, with a newline at the end or without, patterns and numbers of calls |
| `OrderDoesNotMatter`, `OldMappingsStay`, `OneStep` | `CilMapsProofs` | `ResultRight` for all maps; the old map stays part of the result; `IsAtomic`: `CombineMaps` implements `AtomicCombine` |
| `ZeroIsSound`, `MatchIsReal` | `AmendAndCheckProofs` | `NoMissedGrant`, `MatchReal` for all policies and queries |
| `TwoIsRight`, `AcceptedIsRight`, `ChecksAreRight` | `FileContextsProofs` | `TwoMeansRight`, `AcceptedRight` for all options, contexts files, policies and test files; of `checkfc` alone, and of every run of it in a build |
| `SortedIs` | `FileContextsProofs` | what `fc_sort` makes of any lines |
| `BinIsValid`, `LabelsAreOfWinner` | `FileContextsProofs` | `BinValid`, `Precedence` for all sources, regular expressions, policies and orders of the rules |
| `TestsAreMeant` | `FileContextsProofs` | `TestsMean` for all sources, tests, regular expressions, partitions, and paths that are `Agrees` and `Spelt` |
| `AuditIsOfAmended`, `AnswersAreSound` | `AmendAndCheckProofs` | `AuditOfAmended`, and `NoMissedGrant` and `MatchReal` again, for all sequences of commands on all files |
| `TreatedAlike`, `NewAreCovered` | `FinalizeProofs` | `SameTreatment`, `NewTypesCovered` for all types, inputs and runs of the script |
| `LatestIsKept` | `FinalizeProofs` | `LatestKept` for all types and inputs |
| `TreeIsInStep`, `EditsAreMadeOnce` | `FinalizeProofs` | `InStep`, `NothingTwice` for all numbers of versions, stops and failures |
| `ChainIsComplete` | `CilMapsProofs` | `ChainComplete` for any number of versions and all files |
| `StatementsAreRight` | `CilMapsProofs` | `StatementsRight` for all files of any length |
| `TypesAreDeclared` | `CilMapsProofs` | `TypesDeclared` for any number of versions, of the form 33.0 |
| `BuildInvariant`, `NothingStaleHolds` | `PolicyBuildProofs` | the inductive invariant, and `NothingStale` for all sources, edits, settings, orders and failures |
| `SplitIsWhole`, `NeverallowsAreKept`, `VendorIsIndependent`, `PermissiveIsChecked`, `BuildCilIsVendor` | `PolicyBuildProofs` | `SplitEqualsWhole`, `NeverallowsHold`, `VendorIndependent`, `PermissiveChecked`, `BuildCilAgrees` for all sources |
| `ListsAreAlwaysCanonical`, `VerdictsAreRight`, `PairsAreAccounted` | `SepolicyAnalyzeProofs` | `ListsCanonical`, `VerdictsRight`, `PairsAccounted` for every policy and every order of its tables |
| `ReadRightHolds` | `FilterOutProofs` | `ReadRight` for every policy and all files that `FilesAreWritten` describes, of any length |
| `DuplicatesAreFound`, `ListingsAreRight` | `SepolicyAnalyzeProofs` | `DupsRight`, `ListedRight` for every policy and command line |

*SeappCheck.* The inductive invariant `IInv` does not describe the lists, which
are wrong in general. It says that the *first* element of each list is right
(`HeadsRight`): an append never changes a head that is there, and the element it
relinks lies behind a head. `Untried` says that the tail of the list being built
lies before the neverallow that is tried, so that relinking only makes links go
forward (`ListsAscend`). `Printed` says that the first element of each list is
printed, which is what the verdict rests on.

*SeappPromise.* A step of `SeappCheck` that takes a line is `Take`, one of the output
loop is `Write`, the last one `Succeed`, one that ends the program with an error is
`Fail`, and all others stutter. `Write` and `Succeed` have the guard `Acceptable`, and
this is where `IInv` is needed: by `HeadsRight` a validation that has found all
lists empty has found that no rule violates a neverallow.

*LineMarkers, FilterOut.* `MarkInv` says of every open marker that it is valid exactly if
there is a statement in its block before the next open marker (`OpenRight`); a
closed pair is right because when it closes there is no next one. What a file says is
defined without the stack, by the set of the markers that are open at each line (`Open`), and
`NestInv` says that the stack is this set and that an end marker is the partner of the innermost
one in it. So markers are taken out in pairs, and `Thinned` says what that means: at each line that
is left the blocks are open that were, but for those whose markers are gone. Around a statement no
marker is gone if the file pairs up (`AroundIsValid`). Which lines are left is followed from file to
file by a map that keeps the order; two ascending listings of one set are the same (`OneList`), so
choices of the same lines are equal (`SameChosen`), and what the result says is what the
original says. A result is `Tidy`: each pair, and each marker that is left open, has a statement. From
such a file the loop takes nothing, and `FInv` has this for the calls after the first, or after the second if a
pattern then matches the last line, which has its newline only now.

*MiniCilParser.* `Reading` says in each loop where the parser stands: outside of all
statements the depth of the parentheses is 0 and the statements up to the character have been
returned (`StatementsTo`); inside one, what has been read of it without its comments is taken
(`TextTo`), the depth has not been 0 since it opened, and `parens` is the depth. What is returned
ends where the depth is 0 for the first time (`EndIs`), so it is the next statement of the file.

*CombineMaps.* `LoopInv` says that the bottom map is the given one with what the
attributes visited so far bring (`Brought`), and that the reverse map is that of
the map *given*. That the lookup is stale is what makes the order irrelevant: with
a live one (`LiveTargets`, the mutant) the result depends on it. `OneStep` follows: until
the loop is over the callers have the map that was given, and then `IInv` says that
what is returned is `Combined`.

*SepolicyCheck.* `IInv` says which tests have been passed at each `pc`.

*AmendAndCheck.* `DiskRight` says that every file that can be read has the rules that
were asked for when it was written, `TreeRight` that the policy in memory has those
of the files parsed so far; a command that fails between opening and writing leaves a
file that cannot be read, which `sepolicy-check` then gets no further than loading
(`AuditInv`). The invariant of `SepolicyCheck` is taken over as it is: it does not
depend on where the policy came from.

*Finalize.* `ToolInv` is the invariant of the tool: `OfMapping` says what the map in
memory is at every step, `Written` which of the files have it. It is needed because a
rerun overwrites what is there file by file; `NotBegun` says that the script changes
the tool's inputs only before the tool has started, so what is in memory never belongs to other
inputs. `LatestIsKept` needs the map that is written to be known exactly (`Mapped`), and then that
`Combined` brings nothing to the newest map that is not there. The proof asks for all that the
property supposes: were a type of the mapping file outside its own attribute, or another
attribute than `new_objects` in the ignore file, the combined map could gain a type.

The script's own invariant, `ScriptInv`, gives every file it edits two contents, the old and the new
one, and says which it has at each command (`Field`). One file decides: adding to the
CTS list is the first edit (`Pristine`). As long as it is not made none is, and a command
behind it runs only if it was made by this same run, because a run that finds the version in the list ends at the
build. So every edit is applied to the old contents, however many runs were stopped
in between, and a run that gets to its end has made all of them. The loop over the lists (`ListsEdit`) says so
of each list by its place in the loop; `ModulesRight` ties what the generator puts
into `Android.bp` to where it is.

*CompatChain.* `MapBuilt` says of a map that is there that every newer version that is not skipped
has its map too, and that this has no declaration the older one lacks; and that
each type in it was public in that version or since. A type that came
and went after version v is not seen by the test of v; it is by that of the version w
that had it, and `MapBuilt` brings the declaration from w down to v. If w is
the version that is skipped, the freeze test says that nothing is gone (`FreezeRight`).
`TypesAreDeclared` has an assumption, `OldVersions`, that the run `ChainVersions` shows to
be needed. `ChainIsComplete` needs the maps themselves: `Exact` says that a map that is
there is the one combined from the map above it, which does not change any more, and that a
test that failed had a violator. The rest goes from the newest version down to the
older ones (`Downward`, from the least element of a set of distances): what is gone is
declared (`GoneDeclared`), and a type of the current policy is in the set of a public
type or ignored (`Covered`). A type that was mapped to one which the older version ignores would get lost
there; that no file does so is the last conjunct of `Complete`, and `AloneStays` carries it through the
combined maps.

*PolicyBuild.* The proof has two halves. The first is about the build and not about
policies: `Inv` says that, as long as no failure was hidden, the output of a rule that
is done is `Resulting` of what its inputs are now and that its commands would accept them again
(`DoneIsMade`), and that the rule that runs has made what its commands so far make
(`OnTheWay`), everything it reads being done. An edit undoes the rules that are
`Upstream` of what changed, and that `Upstream` is closed is what `Reads` has to be
right for: `ReadsNoFilter`, the mutant, is stale here. `Tried` says
the same of the neverallow test alone, even when a failure was hidden: that command
hides none, and `NeverallowsHold` is claimed of such builds too. The second half is about a
build that succeeded: every output has its equation (`OutputsAre`), and
from these the installed policy is that of the sources with each exported type replaced
by its attribute in the vendor's files (`BuiltLines`). An attribute stands for its one type
(`BuiltStands`), so all relations are those of `Whole`; the rest is what the commands refuse
(`BinaryTook`, `VendorNames`).

*CheckFc.* `IInv` ties the flags to the options read so far (`OptionsRead`), so that
testing begins only if it was asked for (`ForTests`), and says that as long as no line was
wrong every line tested so far has the type that is expected (`LinesRight`). The status 2
is given at the end of the tests only, and then all lines have been tested. `AInv` does the
same for checking: `ModeRead` says that the mode is that of the last option of one among
those read, `EntriesRight` that all entries so far are valid; the file is refused at
the first that is not, and an empty one gets to its entries only if it is not excused (`NotExcused`).

*FcSort, FileContexts.* A line of a source is a partition and a place; every output is said to be
made of those of some partitions, each once (`MadeOf`), and in an order. The order in
`file_contexts.bin` (`BinOrder`) is that of the partitions and of the lines in them, but
what is less stands first among the lines of the device. `device.tmp` is in a weaker order
(`TieOrder`): two lines that `Less` does not tell apart stand as in the sources, which is all that a stable
sort needs to make `BinOrder` of it (`SortMade`), since the files that are joined have been sorted
before and are sorted again. `SortedIs` is about the sort itself: `Less` is a strict weak order
(`LessIsStrict`), so the places that it gives are all different, and as many as there are
lines. `FInv` has that of every output (`OutRight`), and that `file_contexts.bin` is what
the last run of `checkfc` was given and accepted (`BinAccepted`); the invariants of `CheckFc` are
taken over, as they hold of whatever is given to it (`IsCase`). Of two lines that are both expressions, or both
none, the one further down then ranks above (`LaterIsAbove`), which is where `MetaRight` is needed, and
`selabel_lookup` takes the last.

*PathTests.* `Tested` adds to `FInv` that the tests have seen the files as they still are. The lines
they have seen are those of `file_contexts.bin`, in an order in which no line is less than one before it
(`FcSortedIs`). Take the line that labels a path, and the last line that matches the prefix itself: by
`Agrees` that is the same line or is less, so it stands no later, and the tests do not leave out the label
(`LabelIsLookedAt`). That they take it for a line of the prefix is about the two heuristics:
`Kept` says of what is left of the expression and of the prefix that they still match, and
taking away the name of a partition leaves that so (`StripKeeps`); then characters are
compared, and the first that differs or is the last is an operator, so the expression is tried
(`SpeltMatches`). A backslash is a reason to try it, too, and what stands behind one is
no operator (`EscapedIsBehind`).

*SepolicyAnalyze.* `InsertedIs` says of one insertion that the list stays ascending and
gains the permissions of one rule, so when no rule is left a list is what all rules give
(`Building`, `FullIsCanonical`), whatever their order. Two ascending lists of the same nodes
are equal (`AscendingIsUnique`), and the nodes of two types are the same exactly if
the types change places without a trace and no rule is between them (`SameNodes`): so
a comparison node by node decides what `VerdictsRight` says. `Comparing` says when a list is
gone: its type is before `i`, or has the nodes of an earlier type that it has been compared
with (`Prior`). A comparison with a list that is gone comes out as different, and is right,
since the earlier type has other nodes than `i`, or `i` would be gone too. `Accounts` counts the
pairs that are behind. The loops that stop at the first node for which
something holds need the least of a set of numbers: `LeastNat` has it from the inclusion of finite sets,
which is well-founded, because the induction theorems of the library are out of the prover's reach.

*The neverallow parser.* The parser is a position in the text, and what matters is which
token of which statement it is at. `ReadInv` says so: between statements, `Scans` has the
number of rules that are read and that the keywords behind `pos` are those of the others;
in a statement, `Reads` has for each loop a token of the statement such that only blanks are
between `pos` and it (`Clear`), and what `set`, `negate`, `rule` and `complement` hold is
a function of the number of elements of the list that are read (`SetTo`, `NegateAt`, `Classes`,
`PermsTo`). `InList` says of a list that as many braces are open as its tokens so far open (`Depth`), which
is none only before the first of them and behind the last. So one lemma on a turn of a loop (`ListTurn`) is used for types,
classes and permissions. That the text of a file has the tokens of `IsWritten` where it says is
an assumption on the files; that the parser finds them, between whatever else is
there, is proved. After the last token the same lemmas show that a file that ends within a rule
comes to an `Err` in whichever loop it ends. When `ReadInv` was first checked, two of its disjuncts
turned out to be true of every state, by the precedence of an implication in them, and the proof of
the step did not go through until they were not. The attempt also showed what a statement has to
be for `ReadRight` to hold (`IsStatement`): its names are no marks, no keywords and not `self`, and
a type set is not both complemented and `*`.

Assumptions are those the modules name: lines are lines, options and tests are
sequences, files are sequences of characters, tables are sets of rules, values are numbers, command lines name files, the
inputs of the generator are maps in which a type has one attribute for each version and a
versioned attribute belongs to one type, the one in its name, and the version that is frozen follows the newest one;
the maps of a history have the attributes of the public types of their version, and the ignore files have
`new_objects` and declare no public type; the directories of a build have lines on types, and `reqd_mask`
declares a type of its own that no other directory names (`reqd_mask.te`); the sources of the file contexts are
sequences of lines, and the path of a line is a sequence of characters; words of a regular expression are as `LiteralsAreWords` and
`PartitionsAreNamed` say; of the policies that
`sepolicy-analyze` reads, the rules are on types and attributes and grant something, and those that are not
conditional are enabled; an empty line is a line (`NewLineIsText`); and a policy.conf has the neverallow rules with blanks around their
keyword at the places that it is said to have them, all but a torn one whole, and that keyword between blanks nowhere else, while classes and permissions have names
that are no marks (`FilesAreWritten`,
`NamesAreWords`).

Only model-checked: all liveness (`Terminates`, `Stops`, `Finishes`), which is beyond
the prover, and `FilterPreserves`. The filter is a fold over the lines of a file that are chosen
by `SelectSeq`, and the rules of the filtered file would have to be compared with those of the original,
line by line, in a text of another length: what these operators compute for every input
would have to be proved by induction over data. `NotBlank` of `FcSort`, `Chosen` of
`LineMarkers`, `Open` of `FilterOut` and `Depth` of `MiniCilParser` show what can be done instead for a
recursive *function* (`SomeFollows`; `NotBlankIs`, `ChosenIs`, `OpenIs`, `DepthIs`): a counterexample would
have a least length; so do `FlattenFollows` and `StrippedIs`.

## 5. What is not modelled

`PROJECT.json` gives the status of each component. libsepol, libselinux, secilc
and checkpolicy are not in this repository and appear as what their callers see.
The wording of messages, memory that is not freed, and the contents of policies
are left out. `FileContexts` leaves out the other kinds of contexts files, which `checkfc` reads in
its other modes. Of the tests of `sepolicy_tests.py`, `PathTests` leaves out those of
`genfs_contexts`, of properties and of isolated apps, each of which compares two sets once.
`insertkeys.py`, `post_process_mac_perms` and the other scans (`treble_labeling_tests.py`,
`apex_sepolicy_tests.py`, `searchpolicy.py`, `check_prop_prefix.py`, `fuzzer_bindings_check.py`)
are one pass over one input, in which no element depends on another.
`PolicyBuild` leaves out the product partition, which is built as
`system_ext` is, the recovery, userdebug and CTS variants, and m4; a vendor policy of
an older version is linked by the maps of `CompatChain`, which `PolicyBuild` does
not build, so `SplitEqualsWhole` speaks of the current version. In `CompatChain` the maps of the `system_ext` and `product`
partitions are left out: they are built by the same code from other files.

## 6. Plan

1. *done:* checkseapp, filtering, the compatibility maps, sepolicy-check,
   checkfc, with the first proofs; `PolicyBuild`, the composition of
   `version_policy`, `filter_out` and secilc in `build/soong`; `NeverallowParser`
   with `FilterNeverallow` (what is silently skipped); `SepolicyAnalyze`.
2. *done:* `Seamendc` and `AmendAndCheck`, `Finalize` around `GenerateCompat`,
   `FcSort` and `FileContexts` around `CheckFc`, `PathTests` next to it, all commands of
   sepolicy-analyze; the
   abstract specifications `SeappPromise` and `AtomicCombine`, with the proofs that
   they are implemented.
   The chain, the generator, the amended policies and the verdicts of checkfc are proved.
3. Proofs: the build, `SepolicyAnalyze`, the chain, the generator, the script,
   `file_contexts.bin`, its tests, filtering, the mini parser and the neverallow parser, *done*; what is left is
   `FilterPreserves`, with the filter as a recursive function.
4. `insertkeys.py`; the tests of `sepolicy_tests.py` that `PathTests` leaves out.
