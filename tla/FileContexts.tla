---------------------------- MODULE FileContexts ----------------------------
(***************************************************************************)
(* file_contexts.bin (Android.bp): the file_contexts of the platform's     *)
(* partitions, as they are, and after them those of the device, sorted;    *)
(* checkfc must accept the device's, and then the whole.                   *)
(*                                                                         *)
(* A rule runs when its inputs are there; a command that fails ends the    *)
(* build.                                                                  *)
(***************************************************************************)
EXTENDS CheckFc, FcSort

CONSTANTS Inputs,      \* what the file_contexts files may hold: partitions to lines
          Denoted(_),  \* the paths that a regular expression matches
          Policy,      \* precompiled_sepolicy, see Cases of CheckFc
          Idle         \* no checkfc was started

VARIABLES source,      \* the lines of each partition
          out,         \* the outputs of the rules
          build        \* "running", "checking" an output, "failed", or "no build"

buildVars == <<source, out, build>>

Local  == <<"plat", "system_ext", "product">>
Device == <<"vendor", "odm">>
Partitions == Range(Local) \cup Range(Device)

ASSUME InputsAreFiles ==
  \A s \in Inputs : \A p \in Partitions :
    /\ s[p] \in Seq(Range(s[p]))
    /\ \A line \in Range(s[p]) : line # Blank => line.path \in Seq(Range(line.path))

Outputs == Partitions \cup {"local.tmp", "device.tmp", "device.sorted.tmp", "concat.tmp", "bin"}

Built(o) == o \in DOMAIN out

BuildInit ==
  /\ source \in Inputs
  /\ out = <<>> /\ build = "running"
  /\ given = Idle /\ i = 1 /\ mode = "file" /\ compare = FALSE /\ test = FALSE
  /\ empty = FALSE /\ wrong = FALSE /\ hit = {} /\ pc = "idle" /\ status = Running

\* the outputs with one more
With(o, lines) == [p \in DOMAIN out \cup {o} |-> IF p = o THEN lines ELSE out[p]]

Write(o, lines) ==
  /\ build = "running" /\ ~Built(o)
  /\ out' = With(o, lines)
  /\ UNCHANGED <<vars, source, build>>

\* buildGeneralContexts: m4, no comments, and fc_sort where the module says so
Contexts(p) ==
  LET lines == NotBlank(source[p])
  IN  Write(p, IF p \in Range(Device) THEN Sorted(<<lines>>) ELSE lines)

Joined(os) == FlattenSeq([k \in DOMAIN os |-> out[os[k]]])
Ready(os)  == \A o \in Range(os) : Built(o)

LocalTmp  == Ready(Local) /\ Write("local.tmp", Joined(Local))
DeviceTmp == Ready(Device) /\ Write("device.tmp", Joined(Device))

AsFile(lines) ==
  [ok |-> TRUE, size |-> Len(lines),
   entries |-> [k \in DOMAIN lines |->
     [paths |-> Denoted(lines[k].path), static |-> Operators(lines[k].path) = {},
      type  |-> lines[k].type]]]

StartCheckFc(o, options, lines) ==
  /\ build = "running" /\ ~Built(o) /\ build' = o
  /\ given' = [args |-> options, two |-> TRUE, policy |-> Policy,
               file |-> AsFile(lines), tests |-> <<>>]
  /\ i' = 1 /\ mode' = "file" /\ compare' = FALSE /\ test' = FALSE /\ empty' = FALSE
  /\ wrong' = FALSE /\ hit' = {} /\ pc' = "options" /\ status' = Running
  /\ UNCHANGED <<source, out>>

\* device.sorted.tmp and file_contexts.bin: checkfc ... && the tool that writes them
CheckDevice == Built("device.tmp") /\ StartCheckFc("device.sorted.tmp", <<"e">>, out["device.tmp"])

WholeDevice == out["device.sorted.tmp"]      \* (mutant) only what is new is looked at
Whole       == out["concat.tmp"]
CheckWhole  == Built("concat.tmp") /\ StartCheckFc("bin", <<>>, Whole)

Checking == build \in Outputs /\ pc # "done" /\ Next /\ UNCHANGED buildVars

Checked ==
  /\ build \in Outputs /\ pc = "done"
  /\ IF status = 0
       THEN /\ out' = With(build, IF build = "bin" THEN out["concat.tmp"]
                                  ELSE Sorted(<<out["device.tmp"]>>))
            /\ build' = "running"
       ELSE build' = "failed" /\ UNCHANGED out
  /\ UNCHANGED <<vars, source>>

ConcatTmp == LET os == <<"local.tmp", "device.sorted.tmp">>
             IN  Ready(os) /\ Write("concat.tmp", Joined(os))

\* checkfc on its own, for the cases of CheckFc
Alone == /\ Init /\ build = "no build" /\ out = <<>>
         /\ source = [p \in Partitions |-> <<>>]
CheckFcAlone == build = "no build" /\ Next /\ UNCHANGED buildVars

BuildNext == \/ \E p \in Partitions : Contexts(p)
             \/ LocalTmp \/ DeviceTmp \/ CheckDevice \/ ConcatTmp \/ CheckWhole
             \/ Checking \/ Checked \/ CheckFcAlone
BuildSpec == (BuildInit \/ Alone) /\ [][BuildNext]_<<vars, buildVars>>

-----------------------------------------------------------------------------
\* What ranks a line, as private/file_contexts and fc_sort.py have it: no regular
\* expression before any other, the device's before the platform's, and among those
\* the longer stem, the longer path, a file type; else the one further down.
Read    == UNION {{p} \X {n \in DOMAIN source[p] : source[p][n] # Blank} : p \in Partitions}
Line(l) == source[l[1]][l[2]]
Rank(l) ==
  LET path == Line(l).path
      ofDevice(n) == IF l[1] \in Range(Device) THEN n ELSE 0
  IN  << IF Operators(path) = {} THEN 1 ELSE 0, ofDevice(1), ofDevice(StemLen(path)),
         ofDevice(StrLen(path)), ofDevice(IF Line(l).filetype = "" THEN 0 ELSE 1),
         CHOOSE k \in 1 .. 5 : (Local \o Device)[k] = l[1], l[2] >>
Above(r, s) == \E n \in DOMAIN r : r[n] > s[n] /\ \A k \in 1 .. n - 1 : r[k] = s[k]
Found(path) == {l \in Read : path \in Denoted(Line(l).path)}
Winner(ls)  == CHOOSE l \in ls : \A o \in ls \ {l} : Above(Rank(l), Rank(o))

BinBuilt == Built("bin") /\ pc = "done"

\* A path gets the type of the line that ranks above all that match it, whichever
\* file it is in and wherever it stands, if is_meta sees what the device's paths are.
MetaRight(path) == IsMeta(path) <=> Operators(path) # {}
Labelled == \A path \in UNION {Denoted(Line(l).path) : l \in Read} :
              /\ Matching(path) # {}
              /\ given.file.entries[Lookup(path)].type = Line(Winner(Found(path))).type
Precedence ==
  BinBuilt /\ (\A l \in Read : l[1] \in Range(Device) => MetaRight(Line(l).path)) => Labelled

\* and without that condition: TLC refutes it, as is_meta takes an expression for a
\* plain path if each of its operators is also in it with a backslash.
AlwaysPrecedence == BinBuilt => Labelled

\* No file_contexts.bin holds a label that the policy does not know or that is not
\* for files, whichever partition it comes from; and there is none without lines.
BinValid ==
  BinBuilt =>
    /\ Read # {}
    /\ \A l \in Read : LET t == Line(l).type
                       IN  /\ t \in DOMAIN Policy.flavor /\ Policy.flavor[t] = "type"
                           /\ t = Exempt \/ \E a \in Attributes("file") : a \in Policy.attrs[t]
=============================================================================
