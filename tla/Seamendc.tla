------------------------------ MODULE Seamendc ------------------------------
(***************************************************************************)
(* seamendc (tools/seamendc.c): reads a binary policy (-b), compiles the   *)
(* CIL files that follow the options, amends the policy by them and writes *)
(* it (-o).  It is run once for each element of jobs, each time on what    *)
(* the runs before left on the disk; the output of one may be the base of  *)
(* the next, or its own base.                                              *)
(*                                                                         *)
(* A policy is its two tables of rules, a CIL file the set of its rules    *)
(* and what is wrong with it.  Every call of libsepol may fail.            *)
(***************************************************************************)
EXTENDS Naturals, Sequences

CONSTANTS Paths,        \* of binary policies
          Jobs,         \* sequences of command lines: records base, output, files
          None,         \* of an option that was not given
          Unreadable,   \* contents: empty or cut short
          Missing       \* no such file

VARIABLES jobs,         \* the commands from the one that runs
          disk,         \* contents of the paths
          pdb,          \* the policy in memory
          parsed,       \* number of CIL files in the parse tree
          tree,         \* the rules in it
          step,
          rc,           \* exit status
          asked         \* history: the rules that each policy was made of

amendVars == <<jobs, disk, pdb, parsed, tree, step, rc, asked>>

NoStatus == 1000
Failed   == 255     \* exit(SEPOL_ERR)

args      == Head(jobs)
Given     == disk[args.base]
RulesOf(p) == p.te \cup p.cond
Readable(content) == content \notin {Unreadable, Missing}

AmendInit(contents) ==
  /\ jobs \in Jobs /\ disk = contents
  /\ pdb = None /\ parsed = 0 /\ tree = {} /\ step = "options" /\ rc = NoStatus
  /\ asked = [p \in Paths |-> IF Readable(contents[p]) THEN RulesOf(contents[p]) ELSE {}]

Leave(n) == step' = "exited" /\ rc' = n
Then(s)  == step' = s /\ UNCHANGED rc

AmendOptions ==
  /\ step = "options"
  /\ IF None \in {args.base, args.output} THEN Leave(1)
     ELSE Then("base") \/ Leave(Failed)                     \* sepol_policydb_create
  /\ UNCHANGED <<jobs, disk, pdb, parsed, tree, asked>>

\* read_binary_policy
ReadBase ==
  /\ step = "base"
  /\ \/ Readable(Given) /\ pdb' = Given /\ Then("files")
     \/ Leave(Failed) /\ UNCHANGED pdb
  /\ UNCHANGED <<jobs, disk, parsed, tree, asked>>

\* read_cil_files: an empty file is one that fread cannot read
MoreThanOne == parsed + 1 < Len(args.files)     \* (mutant) the last file is left out
More == parsed < Len(args.files)

ReadFile ==
  /\ step = "files" /\ More
  /\ LET file == args.files[parsed + 1]
     IN  \/ /\ file.fault \notin {"missing", "empty", "syntax"}
            /\ tree' = tree \cup file.rules /\ parsed' = parsed + 1
            /\ Then("files")
         \/ Leave(Failed) /\ UNCHANGED <<tree, parsed>>
  /\ UNCHANGED <<jobs, disk, pdb, asked>>

Compile ==
  /\ step = "files" /\ ~More
  /\ \/ /\ \A i \in 1 .. parsed : args.files[i].fault # "semantic"
        /\ Then("amend")
     \/ Leave(Failed)
  /\ UNCHANGED <<jobs, disk, pdb, parsed, tree, asked>>

\* cil_amend_policydb: rules of the files are unconditional
AmendPolicy ==
  /\ step = "amend"
  /\ \/ pdb' = [pdb EXCEPT !.te = @ \cup tree] /\ Then("open")
     \/ Leave(Failed) /\ UNCHANGED pdb
  /\ UNCHANGED <<jobs, disk, parsed, tree, asked>>

\* write_binary_policy: the output is cut to nothing when it is opened
OpenOutput ==
  /\ step = "open"
  /\ \/ disk' = [disk EXCEPT ![args.output] = Unreadable] /\ Then("write")
     \/ Leave(Failed) /\ UNCHANGED disk
  /\ UNCHANGED <<jobs, pdb, parsed, tree, asked>>

\* what the policy that is written should hold
Wanted == asked[args.base] \cup UNION {args.files[i].rules : i \in DOMAIN args.files}

\* fclose may report an error of a policy that is there; a write that fails is noticed
WriteOutput ==
  /\ step = "write"
  /\ \/ /\ disk' = [disk EXCEPT ![args.output] = pdb]
        /\ asked' = [asked EXCEPT ![args.output] = Wanted]
        /\ Leave(0) \/ Leave(Failed)
     \/ Leave(Failed) /\ UNCHANGED <<disk, asked>>
  /\ UNCHANGED <<jobs, pdb, parsed, tree>>

\* the next command
NextJob ==
  /\ step = "exited" /\ Len(jobs) > 1
  /\ jobs' = Tail(jobs) /\ pdb' = None /\ parsed' = 0 /\ tree' = {}
  /\ step' = "options" /\ rc' = NoStatus
  /\ UNCHANGED <<disk, asked>>

AmendNext == \/ AmendOptions \/ ReadBase \/ ReadFile \/ Compile \/ AmendPolicy
             \/ OpenOutput \/ WriteOutput \/ NextJob

=============================================================================
