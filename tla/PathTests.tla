------------------------------ MODULE PathTests -----------------------------
(***************************************************************************)
(* sepolicy_test (Android.bp): the tests of tests/sepolicy_tests.py on the *)
(* labels of paths and on the domains that are started from them.  They    *)
(* look for lines in all file_contexts files, sorted together by fc_sort,  *)
(* with the queries of tests/policy.py; a device finds its labels in       *)
(* file_contexts.bin, whose rules are in FileContexts.                     *)
(***************************************************************************)
EXTENDS FileContexts

CONSTANTS
  COMMON_PREFIXES,     \* a sequence of records: regex and, in their order, plain
  AttrTests,           \* AssertPathTypes(DoNot)HaveAttr: records of prefixes,
                       \* except, attr, have (or have not), and excluded types
  Domains,             \* the types of "domain": records of attrs and entrypoints
  CoredomainAllowlist,
  VendorPaths, SystemPaths,  \* where domains are started from ...
  SystemPath, SystemVendor   \* ... and "/system" and "/system/vendor" in it

ASSUME PrefixesAreStrings ==
  /\ COMMON_PREFIXES \in Seq(Range(COMMON_PREFIXES))
  /\ \A c \in Range(COMMON_PREFIXES) :
       c.plain \in Seq(Range(c.plain)) /\ \A s \in Range(c.plain) \cup {c.regex} : s \in Seq(Range(s))
  /\ \A s \in (UNION {t.prefixes : t \in AttrTests}) \cup VendorPaths \cup SystemPaths
              \cup {SystemPath, SystemVendor} : s \in Seq(Range(s))

-----------------------------------------------------------------------------
(***************************************************************************)
(* Is a line for paths that begin with the prefix?                         *)
(***************************************************************************)
Rest(s, head) == SubSeq(s, Len(head) + 1, Len(s))

\* heuristic 1: what a partition is called as an expression, and as a prefix
NoPartition == [not |-> "of the partition"]
Strip(s, c) ==
  LET fits == {n \in DOMAIN c.plain : IsPrefix(c.plain[n], s.prefix)}
  IN  CASE s = NoPartition \/ ~IsPrefix(c.regex, s.regex) -> s
        [] fits = {} -> NoPartition
        [] OTHER     -> [regex  |-> Rest(s.regex, c.regex),
                         prefix |-> Rest(s.prefix, c.plain[Min(fits)])]
Stripped(regex, prefix) ==
  LET after[n \in 0 .. Len(COMMON_PREFIXES)] ==
        IF n = 0 THEN [regex |-> regex, prefix |-> prefix]
        ELSE Strip(after[n - 1], COMMON_PREFIXES[n])
  IN  after[Len(COMMON_PREFIXES)]

\* the loop at the end: the expression, cut off anywhere, matches the prefix
MatchesCut(regex, prefix) == \E n \in DOMAIN regex : prefix \in Denoted(SubSeq(regex, 1, n))

\* heuristic 2: characters are compared up to the first that may be an operator
Normal(c) == c \notin META_CHARS \cup {"\\"}
MatchPathPrefix(path, start) ==
  LET s == Stripped(path, start)
      stops == {d \in DOMAIN s.prefix : \/ d > Len(s.regex) \/ ~Normal(s.regex[d])
                                        \/ s.regex[d] # s.prefix[d]}
      d == Min(stops)
  IN  /\ s # NoPartition
      /\ \/ stops = {}
         \/ d <= Len(s.regex) /\ ~Normal(s.regex[d]) /\ MatchesCut(s.regex, s.prefix)

(***************************************************************************)
(* What is supposed of the expressions of the files, and of what is behind *)
(* a partition in them: a word begins with the characters up to the first  *)
(* operator, unless that makes the last of them optional, and the name of  *)
(* a partition is one of its plain ones.                                   *)
(***************************************************************************)
Absent == {"?", "*", "{"}
Lefts(path) ==
  {SubSeq(path, m, Len(path)) : m \in {1} \cup
     {n \in 1 .. Len(path) + 1 : \E c \in Range(COMMON_PREFIXES) :
        Len(c.regex) < n /\ SubSeq(path, n - Len(c.regex), n - 1) = c.regex}}
Given   == (UNION {Range(s[p]) : s \in Inputs, p \in Partitions}) \ {Blank}
Written == UNION {Lefts(line.path) : line \in Given}

ASSUME LiteralsAreWords ==
  \A r \in Written : \A w \in Denoted(r) :
    /\ w \in Seq(Range(w))
    /\ \A k \in DOMAIN r : (\A j \in 1 .. k : Normal(r[j])) /\ (k < Len(r) => r[k + 1] \notin Absent)
                            => k <= Len(w) /\ w[k] = r[k]
    /\ (\A j \in DOMAIN r : Normal(r[j])) => Len(w) = Len(r)

ASSUME PartitionsAreNamed ==
  \A c \in Range(COMMON_PREFIXES) :
    \A r \in Written : IsPrefix(c.regex, r) =>
      \A n \in DOMAIN r : \A w \in Denoted(SubSeq(r, 1, n)) : \A p \in Range(c.plain) :
        IsPrefix(p, w) => \/ n = Len(c.regex) /\ p = w
                          \/ n > Len(c.regex) /\ Rest(w, p) \in Denoted(SubSeq(r, Len(c.regex) + 1, n))

MatchPathPrefixes(path, prefixes) == \E p \in prefixes : MatchPathPrefix(path, p)

-----------------------------------------------------------------------------
(***************************************************************************)
(* class Policy: the files in the order of the command line, sorted        *)
(***************************************************************************)
FcSorted == Sorted([k \in 1 .. 5 |->
              out[<<"plat", "vendor", "system_ext", "product", "odm">>[k]]])

\* the most specific line that matches the prefix itself; less specific lines are
\* not for paths below it
Exact(fc, prefix) == {k \in DOMAIN fc : prefix \in Denoted(fc[k].path)}
FcSortedIndexAfter(fc, prefix) ==     \* (mutant) what is more specific begins after it
  IF Exact(fc, prefix) = {} THEN 1 ELSE Max(Exact(fc, prefix)) + 1
FcSortedIndex(fc, prefix) ==
  IF Exact(fc, prefix) = {} THEN 1 ELSE Max(Exact(fc, prefix))

MatchPathPrefixTypes(fc, prefix) ==
  {fc[k] : k \in {j \in FcSortedIndex(fc, prefix) .. Len(fc) : MatchPathPrefix(fc[j].path, prefix)}}

PathTypes(fc, t) == {line \in UNION {MatchPathPrefixTypes(fc, p) : p \in t.prefixes} :
                       ~MatchPathPrefixes(line.path, t.except)}

HasAttr(type, attr) == type \in DOMAIN Policy.attrs /\ attr \in Policy.attrs[type]
TypeFits(t, type)   == type \in t.excluded \/ (HasAttr(type, t.attr) <=> t.have)
Violators(fc, t)    == {line \in PathTypes(fc, t) : ~TypeFits(t, line.type)}

-----------------------------------------------------------------------------
(***************************************************************************)
(* class TestPolicy, TestCoredomainViolations                              *)
(***************************************************************************)
EntrypointPaths(fc, d) ==
  {line.path : line \in {l \in Range(fc) : l.type \in d.entrypoints \ {"postinstall_file"}}}

FromVendor(path) == MatchPathPrefixes(path, VendorPaths \cup {SystemVendor})
FromSystem(path) == \/ MatchPathPrefixes(path, SystemPaths)
                    \/ MatchPathPrefix(path, SystemPath) /\ ~MatchPathPrefix(path, SystemVendor)

\* GetCoreDomains looks at the paths of all but these
Trusted(name) == name \in CoredomainAllowlist \/ "appdomain" \in Domains[name].attrs

CoredomainError(fc, name) ==
  LET paths == IF Trusted(name) THEN {} ELSE EntrypointPaths(fc, Domains[name])
      fromSystem == \E path \in paths : FromSystem(path)
      fromVendor == \E path \in paths : FromVendor(path)
      coredomain == "coredomain" \in Domains[name].attrs
  IN  \/ \E path \in paths : ~FromSystem(path) /\ ~FromVendor(path)
      \/ fromSystem /\ (fromVendor \/ ~coredomain)
      \/ fromVendor /\ coredomain

Passes(fc) == /\ \A t \in AttrTests : Violators(fc, t) = {}
              /\ \A name \in DOMAIN Domains : ~CoredomainError(fc, name)

SepolicyTest ==
  /\ build = "running" /\ ~Built("sepolicy_test") /\ Ready(Local \o Device)
  /\ IF Passes(FcSorted)
       THEN Write("sepolicy_test", <<>>)
       ELSE build' = "failed" /\ UNCHANGED <<vars, source, out>>

TestNext == BuildNext \/ SepolicyTest
TestSpec == (BuildInit \/ Alone) /\ [][TestNext]_<<vars, buildVars>>

-----------------------------------------------------------------------------
\* The line of file_contexts.bin that a device takes for a path
AllBuilt   == BinBuilt /\ Built("sepolicy_test")
Paths      == UNION {Denoted(line.path) : line \in Range(out["bin"])}
Label(path) == out["bin"][Lookup(path)]
Below(prefix) == {path \in Paths : IsPrefix(prefix, path)}

\* Of the lines that the prefix itself matches, none is as specific for fc_sort as the
\* line that labels the path.  The files of the platform are not sorted, so that on the
\* device a line may rank above one that is more specific.
Agrees(path, prefix) ==
  \A line \in Range(out["bin"]) :
    prefix \in Denoted(line.path) => line = Label(path) \/ Less(Node(line), Node(Label(path)))

\* the prefix goes as far as the name of the partition, there is a place where the
\* expression can be cut, and no character may be absent before the first operator of
\* what is left of it
Spelt(path, prefix) ==
  LET left == Stripped(path, prefix).regex
  IN  /\ Stripped(path, prefix) # NoPartition /\ MatchesCut(path, prefix)
      /\ \A k \in Operators(left) : (\A o \in Operators(left) : k <= o) => left[k] \notin Absent

Judged(prefix) == {path \in Below(prefix) : Spelt(Label(path).path, prefix)}

\* A test that passes says something of the device: below the prefixes of a test a path
\* gets a type that the test allows, and no domain that is started from a path of
\* the system or the vendor is of the other, although the tests never look up a path.
\* They look for lines by their expressions, leave out those before the most specific one
\* for the prefix, and have another order of the files.  The conditions on a path, its
\* label and the prefix are those under which that may be done, and TLC refutes the
\* property without any one of them; lines that are also for an exception are not tested.
TypesTested ==
  \A t \in AttrTests : \A prefix \in t.prefixes : \A path \in Judged(prefix) :
    Agrees(path, prefix) =>
      MatchPathPrefixes(Label(path).path, t.except) \/ TypeFits(t, Label(path).type)
DomainsTested ==
  \A name \in DOMAIN Domains :
    LET started == {path \in Paths : Label(path).type \in
                                       Domains[name].entrypoints \ {"postinstall_file"}}
        coredomain == "coredomain" \in Domains[name].attrs
    IN  ~Trusted(name) =>
          /\ \A prefix \in VendorPaths \cup {SystemVendor} :
               started \cap Judged(prefix) # {} => ~coredomain
          /\ \A path \in started : \A prefix \in SystemPaths \cup {SystemPath} :
               /\ path \in Judged(prefix)
               /\ prefix = SystemPath => ~MatchPathPrefix(Label(path).path, SystemVendor)
               => coredomain
TestsMean == AllBuilt => TypesTested /\ DomainsTested

\* "Check that path prefixes that match MatchPrefix, and do not Match DoNotMatchPrefix
\* have the attribute Attr." (policy.py:145), of all paths: TLC refutes it, as a line for
\* paths inside and outside of an exception is never looked at.
PathsHaveAttr == AllBuilt =>
  \A t \in AttrTests : \A prefix \in t.prefixes : \A path \in Judged(prefix) :
    Agrees(path, prefix) =>
      (\E x \in t.except : IsPrefix(x, path)) \/ TypeFits(t, Label(path).type)

\* "This is useful for limiting a file_contexts search to matches that are more specific
\* and omitting less specific matches." (policy.py:323): so is a line that ends at the
\* prefix, and what is omitted for it may be what labels the paths below.
OmitsLessSpecific == AllBuilt =>
  \A t \in AttrTests : \A prefix \in t.prefixes : \A path \in Judged(prefix) :
    MatchPathPrefixes(Label(path).path, t.except) \/ TypeFits(t, Label(path).type)

\* "Check whether the regex will match a file path starting with the provided prefix"
\* (policy.py:23): not if a character before the first operator may be absent.
MatchRight == AllBuilt =>
  \A t \in AttrTests : \A prefix \in t.prefixes : \A line \in Range(FcSorted) :
    Below(prefix) \cap Denoted(line.path) # {} => MatchPathPrefix(line.path, prefix)
=============================================================================
