-------------------------- MODULE NeverallowParser --------------------------
(***************************************************************************)
(* sepolicy-analyze neverallow: the parser of neverallow.c, which reads    *)
(* the neverallow rules out of a policy.conf, run on a file and on what    *)
(* sepolicy_filter_neverallow.py leaves of it, which is what the CTS has.  *)
(*                                                                         *)
(* One action is one turn of a loop of the C code: over the statements, in *)
(* read_typeset, and over the classes and the permissions in               *)
(* read_classperms.  Type sets and bit masks are sets.  The check of the   *)
(* rules that are read against the policy is libsepol.                     *)
(***************************************************************************)
EXTENDS FilterNeverallow

CONSTANTS Types,      \* types of the policy that is checked
          Members,    \* a function from its attributes to their types
          Perms,      \* a function from its classes to their permissions
          Files       \* the files, each with its lines

VARIABLES
  conf,     \* policy.conf: the file, with its lines
  stage,    \* "whole", then "filtered"
  text,     \* the atoms that are parsed
  pos,      \* p
  loop,     \* the loop the program is in
  rule,     \* avrule
  set,      \* the typeset that is read
  openparens, negate, complement,
  rules,    \* neverallows, the last one first
  ok,       \* no error
  results   \* what came of each stage: <<ok, rules>>

readVars == <<conf, stage, text, pos, loop, rule, set, openparens, negate, complement, rules, ok, results>>

LineEnd == "nl"
Space   == {" ", LineEnd}

\* the file's atoms as check_neverallows copies them, without comments
Uncommented(lines) == FlattenSeq([k \in DOMAIN lines |-> Append(Code(lines[k]), LineEnd)])

EmptySet == [flag |-> "none", types |-> {}, negset |-> {}]
NewRule  == [stypes |-> {}, ttypes |-> {}, self |-> FALSE, classes |-> {}, perms |-> {}]

Begin(lines) ==
  /\ text' = Uncommented(lines) /\ pos' = 1 /\ loop' = "scan"
  /\ rule' = NewRule /\ set' = EmptySet /\ openparens' = 0
  /\ negate' = FALSE /\ complement' = FALSE /\ rules' = <<>> /\ ok' = TRUE

ReadInit ==
  /\ conf \in Files /\ stage = "whole" /\ results = <<>>
  /\ text = Uncommented(conf.lines) /\ pos = 1 /\ loop = "scan"
  /\ rule = NewRule /\ set = EmptySet /\ openparens = 0
  /\ negate = FALSE /\ complement = FALSE /\ rules = <<>> /\ ok = TRUE

-----------------------------------------------------------------------------
End == Len(text) + 1

\* the first place from p on with an atom that is not, or is, among these
SkipOver(p, atoms) == Least({q \in p .. End : q = End \/ text[q] \notin atoms})
SkipTo(p, atoms)   == Least({q \in p .. End : q = End \/ text[q] \in atoms})
Skip(p)            == SkipOver(p, Space)

\* a word is one atom: a longer one is no name of the policy
Word(p, q) == IF q = p + 1 THEN text[p] ELSE "other"

\* err: the program says that there is an error and has the status -1
Err == /\ loop' = "end" /\ ok' = FALSE
       /\ UNCHANGED <<pos, rule, set, openparens, negate, complement, rules>>

(***************************************************************************)
(* A turn of the loops in read_typeset and read_classperms: at p there is  *)
(* one of the marks, or a word, which goes to the next of the delimiters.  *)
(* A loop goes on while a bracket is open, whatever the turn has read.     *)
(***************************************************************************)
Brackets == {"{", "}"}
Behind(p, marks, delimiters) ==
  IF text[p] \in marks THEN p + 1 ELSE SkipTo(p, delimiters)

Unfit(p, marks, delimiters) ==
  \/ p = End
  \/ text[p] = "}" /\ openparens = 0
  \/ Behind(p, marks, delimiters) = p

Opened(p) == CASE text[p] = "{" -> openparens + 1
               [] text[p] = "}" -> openparens - 1
               [] OTHER         -> openparens

Turned(p, marks, delimiters, done) ==
  /\ pos' = Behind(p, marks, delimiters) /\ openparens' = Opened(p)
  /\ loop' = IF pos' < End /\ openparens' > 0 THEN loop ELSE done

Unread == UNCHANGED <<conf, stage, text, results>>

\* check_neverallows: a word, and the start of a rule if it is the keyword
Scan ==
  /\ loop = "scan" /\ pos < End
  /\ LET start == Skip(pos)
         p     == SkipTo(start, Space)
     IN  /\ pos' = p
         /\ IF p > start /\ Word(start, p) = "neverallow"
            THEN loop' = "stypes" /\ rule' = NewRule ELSE UNCHANGED <<loop, rule>>
  /\ UNCHANGED <<set, openparens, negate, complement, rules, ok>> /\ Unread

\* ... and the end of the text, where there must have been a rule
Checked ==
  /\ loop = "scan" /\ pos = End
  /\ IF rules = <<>> THEN Err
     ELSE loop' = "end" /\ UNCHANGED <<pos, rule, set, openparens, negate, complement, rules, ok>>
  /\ Unread

-----------------------------------------------------------------------------
(***************************************************************************)
(* read_typeset                                                            *)
(***************************************************************************)
TypeMarks      == Brackets \cup {"*", "-"}
TypeDelimiters == Space \cup Brackets \cup {":", ";", "#"}

IsName(id)  == id \in Types \cup DOMAIN Members
TypesOf(id) == IF id \in Types THEN {id} ELSE Members[id]

WithTypes(s, ts)  == [s EXCEPT !.types = @ \cup ts]
WithNegset(s, ts) == [s EXCEPT !.negset = @ \cup ts]

\* a word in a type set; "self" leaves a negation to the next name, and a
\* name that the policy does not have takes it away
ReadType(id, s) ==
  IF id = "self"
  THEN rule' = [rule EXCEPT !.self = TRUE] /\ set' = s /\ UNCHANGED negate
  ELSE /\ negate' = FALSE /\ UNCHANGED rule
       /\ set' = CASE ~IsName(id) -> s
                   [] IsName(id) /\ negate  -> WithNegset(s, TypesOf(id))
                   [] IsName(id) /\ ~negate -> WithTypes(s, TypesOf(id))

ReadTypeset ==
  /\ loop \in {"stypes", "ttypes"}
  /\ LET first == Skip(pos)
         comp  == first < End /\ text[first] = "~"
         p     == IF comp THEN Skip(first + 1) ELSE first
         s     == IF comp THEN [set EXCEPT !.flag = "comp"] ELSE set
     IN  IF Unfit(p, TypeMarks, TypeDelimiters) THEN Err
         ELSE /\ Turned(p, TypeMarks, TypeDelimiters, IF loop = "stypes" THEN "send" ELSE "tend")
              /\ IF text[p] \in TypeMarks
                 THEN /\ set' = IF text[p] = "*" THEN [s EXCEPT !.flag = "star"] ELSE s
                      /\ negate' = (negate \/ text[p] = "-")
                      /\ UNCHANGED rule
                 ELSE ReadType(Word(p, pos'), s)
              /\ UNCHANGED <<complement, rules, ok>>
  /\ Unread

\* (mutant) complements the set before types are taken out of it
ResolvedEarly(s) ==
  LET all == s.types \cup (IF s.flag = "star" THEN Types ELSE {})
  IN  (IF s.flag = "comp" THEN Types \ all ELSE all) \ s.negset

\* the types of a set that has been read
Resolved(s) ==
  LET all == (s.types \cup (IF s.flag = "star" THEN Types ELSE {})) \ s.negset
  IN  IF s.flag = "comp" THEN Types \ all ELSE all

TypesetRead ==
  /\ loop \in {"send", "tend"}
  /\ IF pos = End THEN Err
     ELSE /\ set' = EmptySet /\ negate' = FALSE
          /\ IF loop = "send"
             THEN loop' = "ttypes" /\ rule' = [rule EXCEPT !.stypes = Resolved(set)]
             ELSE loop' = "colon"  /\ rule' = [rule EXCEPT !.ttypes = Resolved(set)]
          /\ UNCHANGED <<pos, openparens, complement, rules, ok>>
  /\ Unread

-----------------------------------------------------------------------------
(***************************************************************************)
(* read_classperms                                                         *)
(***************************************************************************)
WithClasses(r, cs) == [r EXCEPT !.classes = @ \cup cs]
WithPerms(r, ps)   == [r EXCEPT !.perms = @ \cup ps]
PermDelimiters == Space \cup Brackets \cup {";", "#"}

Colon ==
  /\ loop = "colon"
  /\ LET p == Skip(pos)
     IN  IF p = End \/ text[p] # ":" THEN Err
         ELSE /\ pos' = p + 1 /\ loop' = "classes"
              /\ UNCHANGED <<rule, set, openparens, negate, complement, rules, ok>>
  /\ Unread

ReadClass ==
  /\ loop = "classes"
  /\ LET p == Skip(pos)
     IN  IF Unfit(p, Brackets, PermDelimiters) THEN Err
         ELSE /\ Turned(p, Brackets, PermDelimiters, "cend")
              /\ rule' = WithClasses(rule, {Word(p, pos')} \cap DOMAIN Perms)
              /\ UNCHANGED <<set, negate, complement, rules, ok>>
  /\ Unread

ClassesRead ==
  /\ loop = "cend"
  /\ IF pos = End THEN Err
     ELSE loop' = "perms" /\ UNCHANGED <<pos, rule, set, openparens, negate, complement, rules, ok>>
  /\ Unread

\* the permissions of the classes that are read, with their classes
AllPerms == UNION {{c} \X Perms[c] : c \in rule.classes}

ReadPerm ==
  /\ loop = "perms"
  /\ LET first == Skip(pos)
         comp  == first < End /\ text[first] = "~"
         p     == IF comp THEN Skip(first + 1) ELSE first
     IN  IF Unfit(p, Brackets, PermDelimiters) THEN Err
         ELSE /\ Turned(p, Brackets, PermDelimiters, "pend")
              /\ LET id == Word(p, pos')
                 IN  rule' = WithPerms(rule, {cp \in AllPerms : id = "*" \/ cp[2] = id})
              /\ complement' = (complement \/ comp)
              /\ UNCHANGED <<set, negate, rules, ok>>
  /\ Unread

PermsRead ==
  /\ loop = "pend"
  /\ IF pos = End THEN Err
     ELSE /\ rule' = [rule EXCEPT !.perms = IF complement THEN AllPerms \ @ ELSE @]
          /\ loop' = "rest" /\ complement' = FALSE
          /\ UNCHANGED <<pos, set, openparens, negate, rules, ok>>
  /\ Unread

\* the rest of the statement, which nobody looks at
Rest ==
  /\ loop = "rest"
  /\ LET p == SkipTo(pos, {";"})
     IN  IF p = End THEN Err
         ELSE /\ pos' = p /\ loop' = "scan" /\ rules' = <<rule>> \o rules
              /\ UNCHANGED <<rule, set, openparens, negate, complement, ok>>
  /\ Unread

-----------------------------------------------------------------------------
\* the file is filtered, and what is left is read; then it is done
Finish ==
  /\ loop = "end"
  /\ results' = Append(results, <<ok, rules>>)
  /\ IF stage = "whole"
     THEN stage' = "filtered" /\ Begin(Filtered(conf.lines)) /\ UNCHANGED conf
     ELSE /\ stage' = "done" /\ loop' = "done"
          /\ UNCHANGED <<conf, text, pos, rule, set, openparens, negate, complement, rules, ok>>

ReadNext ==
  \/ Scan \/ Checked \/ ReadTypeset \/ TypesetRead
  \/ Colon \/ ReadClass \/ ClassesRead \/ ReadPerm \/ PermsRead \/ Rest \/ Finish
ReadSpec == ReadInit /\ [][ReadNext]_readVars
=============================================================================
