--------------------------- MODULE AmendAndCheck ----------------------------
(***************************************************************************)
(* A policy is amended by seamendc and audited by sepolicy-check.  The two *)
(* share the files on the disk: sepolicy-check is started on the last      *)
(* output when seamendc has exited, whether it succeeded or not.           *)
(***************************************************************************)
EXTENDS SepolicyCheck, Seamendc

CONSTANTS Bases,        \* policies of the first base
          NoQuery       \* sepolicy-check was not started yet

Tables  == [te : SUBSET Rule, cond : SUBSET Rule]
PathArg == Paths \cup {None}
CilFile == [fault : STRING, rules : SUBSET Rule]
CommandLine == [base : PathArg, output : PathArg, files : Seq(CilFile)]

ASSUME BasesAreTables == Bases \subseteq Tables
ASSUME JobsAreJobs    == Jobs \subseteq Seq(CommandLine) \ {<<>>}
ASSUME NoneAlike      == /\ None \notin Paths /\ NoQuery \notin Queries
                         /\ {Unreadable, Missing} \cap Tables = {}

VARIABLE audited        \* the path given to sepolicy-check

systemVars == <<amendVars, vars, audited>>

SystemInit ==
  /\ \E base \in Bases :
       AmendInit([p \in Paths |-> IF p = "base" THEN base ELSE Missing])
  /\ policy = Missing /\ query = NoQuery /\ audited = None
  /\ pc = "options" /\ printed = FALSE /\ status = Running

Amending == AmendNext /\ UNCHANGED <<vars, audited>>

StartAudit ==
  /\ step = "exited" /\ Len(jobs) = 1 /\ query = NoQuery /\ args.output # None
  /\ query' \in Queries
  /\ audited' = args.output /\ policy' = disk[args.output]
  /\ pdb' = None /\ parsed' = 0 /\ tree' = {}           \* memory that is gone
  /\ UNCHANGED <<jobs, disk, step, rc, asked, pc, printed, status>>

\* load_policy does not get past a file that is missing or cut short
Auditing ==
  /\ query # NoQuery
  /\ Next
  /\ pc' = "resolve" => Readable(policy)
  /\ UNCHANGED <<amendVars, audited>>

SystemNext == Amending \/ StartAudit \/ Auditing
SystemSpec == SystemInit /\ [][SystemNext]_systemVars

-----------------------------------------------------------------------------
\* The answers are about everything that went into the policy: "no match" that no
\* rule of the base, of the earlier amendments or of any FILE gives the permission,
\* and a match comes from one of them; whatever failed before.
AuditOfAmended ==
  /\ status = 0 /\ query.p.op = "EQUALS" /\ PermValue \in 1 .. MaskBits =>
       \A r \in asked[audited] : ~Holds(r, PermValue)
  /\ printed => \E r \in asked[audited] : Holds(r, PermValue)
  /\ rc = 0 => Readable(disk[args.output])

\* A run of seamendc that fails leaves the policies that were there.  TLC refutes
\* it: the output is opened for writing, and may be the base.
FailureKeepsPolicies ==
  [][step # "exited" /\ step' = "exited" /\ rc' # 0 =>
       \A p \in Paths : Readable(disk[p]) => disk'[p] = disk[p]]_systemVars
=============================================================================
