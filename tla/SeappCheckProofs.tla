-------------------------- MODULE SeappCheckProofs --------------------------
(***************************************************************************)
(* The invariants of SeappCheck, proved for any lines, policies, table     *)
(* size and length of the input: IInv is inductive, and the verdict of the *)
(* program follows from it.  At the end: it implements SeappPromise.       *)
(***************************************************************************)
EXTENDS SeappCheck, SequenceTheorems, TLAPS

(***************************************************************************)
(* Appending to a sequence given as a function on 1 .. n.                  *)
(***************************************************************************)
LEMMA AppendFun ==
  ASSUME NEW S, NEW n \in Nat, NEW f \in [1 .. n -> S], NEW e \in S
  PROVE  /\ Append(f, e) \in [1 .. n + 1 -> S]
         /\ Append(f, e)[n + 1] = e
         /\ \A i \in 1 .. n : Append(f, e)[i] = f[i]
<1>1. f \in Seq(S) /\ Len(f) = n
  BY IsASeq, LenProperties
<1>2. /\ Append(f, e) \in Seq(S) /\ Len(Append(f, e)) = n + 1
      /\ Append(f, e)[n + 1] = e
      /\ \A i \in 1 .. n : Append(f, e)[i] = f[i]
  BY <1>1, AppendProperties
<1> QED
  BY <1>2, LenProperties

LEMMA InitInv == Init => IInv
<1> SUFFICES ASSUME Init PROVE IInv
  OBVIOUS
<1>1. TypeOK
  <2>1. /\ read \in Seq(Lines)
        /\ order \in Seq({RuleOf(l) : l \in Lines}) /\ nallow \in Seq({RuleOf(l) : l \in Lines})
        /\ Len(order) = 0 /\ Len(nallow) = 0
    BY EmptySeq DEF Init
  <2>2. /\ violations \in [1 .. 0 -> [head : 0 .. 0, tail : 0 .. 0]]
        /\ next \in [1 .. 0 -> 0 .. 0]
    BY EmptySeq, LenProperties DEF Init
  <2>3. opts \in [vendor : BOOLEAN, dest : {"none", "stdout", "file"}]
    BY DEF Init
  <2>4. /\ table \subseteq {HashKey(l) : l \in Lines} /\ coredom \subseteq 1 .. Len(order)
        /\ cursor \in 1 .. Len(order) + 1 /\ node \in 0 .. Len(nallow) + 1
        /\ reported \subseteq (1 .. Len(order)) \X (1 .. Len(nallow))
    BY <2>1 DEF Init
  <2>5. /\ pc = "options" /\ policy = NoPolicy /\ lost = FALSE
        /\ status = "running" /\ cause = "none"
    BY DEF Init
  <2> QED
    BY <2>1, <2>2, <2>3, <2>4, <2>5 DEF TypeOK
<1>2. ParsedAll
  BY DEF Init, ParsedAll
<1>3. HeadsRight
  BY DEF Init, HeadsRight, HeadOf, Succeeded
<1>4. Untried
  BY DEF Init, Untried, HeadOf
<1>5. ListsAscend /\ Printed /\ Ended
  BY DEF Init, ListsAscend, Printed, Ended, Succeeded
<1> QED
  BY <1>1, <1>2, <1>3, <1>4, <1>5 DEF IInv

-----------------------------------------------------------------------------
(***************************************************************************)
(* The command line, and opening the files: nothing has been read yet.     *)
(***************************************************************************)
LEMMA SetupStep ==
  ASSUME IInv, HandleOptions \/ OpenFails \/ OpenFiles
  PROVE  IInv'
<1> USE DEF Exit, Goto, parsed, validating, outputting, Truncate
<1>1. TypeOK'
  <2>1. CASE HandleOptions
    <3>1. opts' \in [vendor : BOOLEAN, dest : {"none", "stdout", "file"}]
      BY <2>1 DEF IInv, TypeOK, HandleOptions
    <3> QED
      BY <2>1, <3>1 DEF IInv, TypeOK, HandleOptions
  <2>2. CASE OpenFails \/ OpenFiles
    BY <2>2 DEF IInv, TypeOK, OpenFails, OpenFiles
  <2> QED
    BY <2>1, <2>2
<1>2. ParsedAll'
  BY DEF IInv, ParsedAll, HandleOptions, OpenFails, OpenFiles
<1>3. HeadsRight'
  BY DEF IInv, HeadsRight, HeadOf, Tried, Succeeded, HandleOptions, OpenFails, OpenFiles
<1>4. Untried'
  BY DEF IInv, Untried, HeadOf, HandleOptions, OpenFails, OpenFiles
<1>5. ListsAscend'
  BY DEF IInv, ListsAscend, HandleOptions, OpenFails, OpenFiles
<1>6. Printed' /\ Ended'
  BY DEF IInv, Printed, Ended, Succeeded, HeadOf, HandleOptions, OpenFails, OpenFiles
<1> QED
  BY <1>1, <1>2, <1>3, <1>4, <1>5, <1>6 DEF IInv

(***************************************************************************)
(* Lines that change no list.                                              *)
(***************************************************************************)
LEMMA OtherLineStep ==
  ASSUME IInv, NEW l \in Lines, ReadLine(l), SkipLine(l) \/ RejectLine(l)
  PROVE  IInv'
<1> USE DEF Exit, Goto, parsed, validating, outputting, Reject, SkipLine, RejectLine, ReadLine
<1>0. /\ Append(read, l) \in Seq(Lines)
      /\ DOMAIN Append(read, l) = 1 .. Len(read) + 1 /\ DOMAIN read = 1 .. Len(read)
      /\ Len(read) \in Nat
      /\ Append(read, l)[Len(read) + 1] = l
      /\ \A i \in 1 .. Len(read) : Append(read, l)[i] = read[i]
  BY AppendProperties, LenProperties DEF IInv, TypeOK
<1>a. /\ UNCHANGED <<opts, policy, order, nallow, table, coredom, violations, next, cursor,
                      node, reported, lost, out>>
      /\ read' = Append(read, l)
      /\ \/ UNCHANGED <<pc, status, cause>>
         \/ pc' = "exit" /\ status' = "failure" /\ cause' \in {"malformed", "duplicate", "oom"}
  OBVIOUS
<1>1. TypeOK'
  <2> HIDE DEF Exit, Goto, parsed, validating, outputting, Reject, SkipLine, RejectLine, ReadLine
  <2>1. /\ pc' \in {"options", "init", "parse", "validate", "report", "output", "exit"}
        /\ status' \in {"running", "success", "failure"}
        /\ cause' \in {"none", "help", "option", "open", "policy", "malformed", "duplicate",
                       "oom", "violation"}
    BY <1>a DEF IInv, TypeOK
  <2> QED
    BY <1>0, <1>a, <2>1 DEF IInv, TypeOK
<1>2. ParsedAll'
  BY <1>0 DEF IInv, ParsedAll, Ended
<1>3. HeadsRight'
  BY DEF IInv, HeadsRight, HeadOf, Tried, Succeeded, Ended
<1>4. Untried'
  BY DEF IInv, Untried, HeadOf, Ended
<1>5. ListsAscend'
  BY DEF IInv, ListsAscend
<1>6. Printed'
  BY DEF IInv, Printed, HeadOf
<1>7. Ended'
  BY DEF IInv, Ended, Succeeded, HeadOf
<1> QED
  BY <1>1, <1>2, <1>3, <1>4, <1>5, <1>6, <1>7 DEF IInv

(***************************************************************************)
(* A rule or a neverallow enters its list.                                 *)
(***************************************************************************)
LEMMA AcceptLineStep ==
  ASSUME IInv, NEW l \in Lines, ReadLine(l), AcceptLine(l)
  PROVE  IInv'
<1> DEFINE R == {RuleOf(x) : x \in Lines}
           r == RuleOf(l)
           K == 0 .. Len(nallow) + 1
           L == [head : 0 .. Len(nallow), tail : 0 .. Len(nallow)]
<1>0. /\ Append(read, l) \in Seq(Lines)
      /\ DOMAIN Append(read, l) = 1 .. Len(read) + 1 /\ DOMAIN read = 1 .. Len(read)
      /\ Len(read) \in Nat
      /\ Append(read, l)[Len(read) + 1] = l
      /\ \A i \in 1 .. Len(read) : Append(read, l)[i] = read[i]
  BY AppendProperties, LenProperties DEF IInv, TypeOK
<1>1. /\ order \in Seq(R) /\ nallow \in Seq(R) /\ r \in R
      /\ Len(order) \in Nat /\ Len(nallow) \in Nat
      /\ DOMAIN order = 1 .. Len(order) /\ DOMAIN nallow = 1 .. Len(nallow)
  BY LenProperties DEF IInv, TypeOK
<1>2. /\ pc = "parse" /\ pc' = pc /\ status' = status /\ cause' = cause /\ reported = {}
      /\ status = "running" /\ cause = "none"
      /\ read' = Append(read, l)
      /\ UNCHANGED <<opts, policy, cursor, node, reported, lost, out>>
  BY DEF IInv, Printed, Ended, ReadLine, AcceptLine, outputting
<1>4. /\ WellFormed(l, policy, opts.vendor)
      /\ table' = table \cup {r.key}
      /\ IF r.never THEN EnlistNever(r) /\ UNCHANGED <<order, violations>>
                    ELSE EnlistRule(r)  /\ UNCHANGED <<nallow, next>>
      /\ coredom' = IF NotesCoredomain(l, policy, opts.vendor) THEN coredom \cup {Len(order) + 1}
                                                               ELSE coredom
  BY DEF AcceptLine, RuleAdd
<1>3. r.key = HashKey(l) /\ r.never = l.never
  BY DEF RuleOf
<1>a. CASE r.never
  <2>0. UNCHANGED <<order, violations>> /\ nallow' = Append(nallow, r) /\ next' = Append(next, NIL)
    BY <1>a, <1>4 DEF EnlistNever
  <2>1. /\ nallow' \in Seq(R) /\ Len(nallow') = Len(nallow) + 1
        /\ DOMAIN nallow' = 1 .. Len(nallow) + 1
        /\ nallow'[Len(nallow) + 1] = r
        /\ \A n \in 1 .. Len(nallow) : nallow'[n] = nallow[n]
    <3> HIDE DEF R, r
    <3> QED
      BY <2>0, <1>1, AppendProperties, LenProperties
  <2>2. next \in [1 .. Len(nallow) -> K] /\ NIL \in K
    BY <1>1 DEF IInv, TypeOK, NIL
  <2>3. /\ next' \in [1 .. Len(nallow) + 1 -> K]
        /\ next'[Len(nallow) + 1] = NIL
        /\ \A n \in 1 .. Len(nallow) : next'[n] = next[n]
    <3> HIDE DEF K, R, r, L
    <3>0. Len(nallow) \in Nat
      BY <1>1
    <3>1. Append(next, NIL) \in [1 .. Len(nallow) + 1 -> K]
      BY <3>0, <2>2, AppendFun
    <3>2. Append(next, NIL)[Len(nallow) + 1] = NIL
      BY <3>0, <2>2, AppendFun
    <3>3. \A n \in 1 .. Len(nallow) : Append(next, NIL)[n] = next[n]
      BY <3>0, <2>2, AppendFun
    <3> QED
      BY <2>0, <3>1, <3>2, <3>3
  <2>4. coredom' = coredom
    BY <1>a, <1>3, <1>4 DEF NotesCoredomain
  <2>5. TypeOK'
    <3>1. pc' = "parse" /\ opts' \in [vendor : BOOLEAN, dest : {"none", "stdout", "file"}]
          /\ policy' \in Policies \cup {NoPolicy} /\ read' \in Seq(Lines)
      BY <1>0, <1>2 DEF IInv, TypeOK
    <3>2. table' \subseteq {HashKey(x) : x \in Lines}
      BY <1>3, <1>4 DEF IInv, TypeOK
    <3>3. violations' \in [1 .. Len(order') -> [head : 0 .. Len(nallow'), tail : 0 .. Len(nallow')]]
      BY <1>1, <2>0, <2>1 DEF IInv, TypeOK
    <3>4. next' \in [1 .. Len(nallow') -> 0 .. Len(nallow')]
      BY <2>1, <2>3
    <3>5. coredom' \subseteq 1 .. Len(order') /\ cursor' \in 1 .. Len(order') + 1
          /\ node' \in 0 .. Len(nallow') + 1 /\ reported' = {}
      BY <1>1, <1>2, <2>0, <2>1, <2>4 DEF IInv, TypeOK
    <3> QED
      BY <1>1, <1>2, <2>0, <2>1, <3>1, <3>2, <3>3, <3>4, <3>5 DEF IInv, TypeOK
  <2>6. ParsedAll'
    <3>1. \A i \in 1 .. Len(read) :
            \/ Blank(read[i])
            \/ /\ WellFormed(read[i], policy, opts.vendor) /\ Listed(read[i], order, nallow)
               /\ NotesCoredomain(read[i], policy, opts.vendor) => coredom # {}
      BY <1>0, <1>2 DEF IInv, ParsedAll
    <3>2. \A x \in Lines : Listed(x, order, nallow) => Listed(x, order', nallow')
      BY <1>1, <2>0, <2>1 DEF Listed
    <3>3. Listed(l, order', nallow')
      BY <1>1, <1>3, <1>a, <2>0, <2>1, SMTT(30) DEF Listed
    <3>4. /\ coredom # {} => coredom' # {}
          /\ NotesCoredomain(l, policy, opts.vendor) => coredom' # {}
      BY <1>3, <1>a, <2>4 DEF NotesCoredomain
    <3>5. \A i \in 1 .. Len(read) : read[i] \in Lines
      BY <1>0 DEF IInv, TypeOK
    <3>6. \A i \in 1 .. Len(read) + 1 :
            \/ Blank(read'[i])
            \/ /\ WellFormed(read'[i], policy, opts.vendor) /\ Listed(read'[i], order', nallow')
               /\ NotesCoredomain(read'[i], policy, opts.vendor) => coredom' # {}
      <4> TAKE i \in 1 .. Len(read) + 1
      <4>1. CASE i = Len(read) + 1
        <5>1. read'[i] = l
          BY <1>0, <1>2, <4>1
        <5> QED
          BY <1>4, <3>3, <3>4, <5>1
      <4>2. CASE i \in 1 .. Len(read)
        <5>1. read'[i] = read[i] /\ read[i] \in Lines
          BY <1>0, <1>2, <3>5, <4>2
        <5> QED
          BY <3>1, <3>2, <3>4, <4>2, <5>1
      <4> QED
        BY <1>0, <4>1, <4>2
    <3> QED
      BY <1>0, <1>2, <3>6 DEF ParsedAll
  <2>7. HeadsRight'
    BY <1>1, <1>2, <2>0, <2>1 DEF IInv, HeadsRight, Untried, HeadOf, Succeeded
  <2>8. Untried' /\ ListsAscend'
    BY <1>1, <1>2, <2>0, <2>1, <2>3 DEF IInv, TypeOK, ListsAscend, Untried, HeadOf
  <2>9. Printed' /\ Ended'
    BY <1>2 DEF IInv, Printed, Ended, Succeeded
  <2> QED
    BY <2>5, <2>6, <2>7, <2>8, <2>9 DEF IInv
<1>b. CASE ~r.never
  <2>0. UNCHANGED <<nallow, next>> /\ order' = Append(order, r) /\ violations' = Append(violations, EmptyList)
    BY <1>b, <1>4 DEF EnlistRule
  <2>1. /\ order' \in Seq(R) /\ Len(order') = Len(order) + 1
        /\ DOMAIN order' = 1 .. Len(order) + 1
        /\ order'[Len(order) + 1] = r
        /\ \A i \in 1 .. Len(order) : order'[i] = order[i]
    <3> HIDE DEF R, r
    <3> QED
      BY <2>0, <1>1, AppendProperties, LenProperties
  <2>2. /\ violations \in [1 .. Len(order) -> L] /\ EmptyList \in L
        /\ EmptyList.head = NIL
    BY <1>1 DEF IInv, TypeOK, EmptyList, NIL
  <2>3. /\ violations' \in [1 .. Len(order) + 1 -> L]
        /\ violations'[Len(order) + 1] = EmptyList
        /\ \A i \in 1 .. Len(order) : violations'[i] = violations[i]
    <3> HIDE DEF L, R, r
    <3>0. Len(order) \in Nat
      BY <1>1
    <3>1. Append(violations, EmptyList) \in [1 .. Len(order) + 1 -> L]
      BY <3>0, <2>2, AppendFun
    <3>2. Append(violations, EmptyList)[Len(order) + 1] = EmptyList
      BY <3>0, <2>2, AppendFun
    <3>3. \A i \in 1 .. Len(order) : Append(violations, EmptyList)[i] = violations[i]
      BY <3>0, <2>2, AppendFun
    <3> QED
      BY <2>0, <3>1, <3>2, <3>3
  <2>4. /\ coredom' \subseteq 1 .. Len(order) + 1 /\ (coredom # {} => coredom' # {})
        /\ NotesCoredomain(l, policy, opts.vendor) => coredom' # {}
    <3>1. coredom \subseteq 1 .. Len(order)
      BY DEF IInv, TypeOK
    <3>2. coredom' = coredom \cup {Len(order) + 1} \/ (coredom' = coredom /\ ~NotesCoredomain(l, policy, opts.vendor))
      BY <1>4
    <3>3. coredom' \subseteq 1 .. Len(order) + 1
      BY <1>1, <3>1, <3>2
    <3> QED
      BY <3>2, <3>3
  <2>5. TypeOK'
    <3>1. pc' = "parse" /\ opts' \in [vendor : BOOLEAN, dest : {"none", "stdout", "file"}]
          /\ policy' \in Policies \cup {NoPolicy} /\ read' \in Seq(Lines)
      BY <1>0, <1>2 DEF IInv, TypeOK
    <3>2. table' \subseteq {HashKey(x) : x \in Lines}
      BY <1>3, <1>4 DEF IInv, TypeOK
    <3>3. violations' \in [1 .. Len(order') -> [head : 0 .. Len(nallow'), tail : 0 .. Len(nallow')]]
      BY <2>0, <2>1, <2>3
    <3>4. next' \in [1 .. Len(nallow') -> 0 .. Len(nallow')]
      BY <1>1, <2>0, <2>1 DEF IInv, TypeOK
    <3>5. coredom' \subseteq 1 .. Len(order') /\ cursor' \in 1 .. Len(order') + 1
          /\ node' \in 0 .. Len(nallow') + 1 /\ reported' = {}
      BY <1>1, <1>2, <2>0, <2>1, <2>4 DEF IInv, TypeOK
    <3> QED
      BY <1>1, <1>2, <2>0, <2>1, <3>1, <3>2, <3>3, <3>4, <3>5 DEF IInv, TypeOK
  <2>6. ParsedAll'
    <3>1. \A i \in 1 .. Len(read) :
            \/ Blank(read[i])
            \/ /\ WellFormed(read[i], policy, opts.vendor) /\ Listed(read[i], order, nallow)
               /\ NotesCoredomain(read[i], policy, opts.vendor) => coredom # {}
      BY <1>0, <1>2 DEF IInv, ParsedAll
    <3>2. \A x \in Lines : Listed(x, order, nallow) => Listed(x, order', nallow')
      BY <1>1, <2>0, <2>1 DEF Listed
    <3>3. Listed(l, order', nallow')
      BY <1>1, <1>3, <1>b, <2>0, <2>1 DEF Listed
    <3>4. /\ coredom # {} => coredom' # {}
          /\ NotesCoredomain(l, policy, opts.vendor) => coredom' # {}
      BY <1>3, <1>b, <2>4 DEF NotesCoredomain
    <3>5. \A i \in 1 .. Len(read) : read[i] \in Lines
      BY <1>0 DEF IInv, TypeOK
    <3>6. \A i \in 1 .. Len(read) + 1 :
            \/ Blank(read'[i])
            \/ /\ WellFormed(read'[i], policy, opts.vendor) /\ Listed(read'[i], order', nallow')
               /\ NotesCoredomain(read'[i], policy, opts.vendor) => coredom' # {}
      <4> TAKE i \in 1 .. Len(read) + 1
      <4>1. CASE i = Len(read) + 1
        <5>1. read'[i] = l
          BY <1>0, <1>2, <4>1
        <5> QED
          BY <1>4, <3>3, <3>4, <5>1
      <4>2. CASE i \in 1 .. Len(read)
        <5>1. read'[i] = read[i] /\ read[i] \in Lines
          BY <1>0, <1>2, <3>5, <4>2
        <5> QED
          BY <3>1, <3>2, <3>4, <4>2, <5>1
      <4> QED
        BY <1>0, <4>1, <4>2
    <3> QED
      BY <1>0, <1>2, <3>6 DEF ParsedAll
  <2>7. HeadsRight'
    BY <1>1, <1>2, <2>0, <2>1, <2>2, <2>3 DEF IInv, HeadsRight, Untried, HeadOf, Succeeded
  <2>8. Untried' /\ ListsAscend'
    <3>1. ListsAscend'
      BY <2>0 DEF IInv, ListsAscend
    <3>2. \A i \in 1 .. Len(order) + 1 : HeadOf(i)' = NIL
      BY <1>1, <1>2, <2>2, <2>3 DEF IInv, Untried, HeadOf
    <3> QED
      BY <1>2, <2>0, <2>1, <3>1, <3>2 DEF IInv, Untried, HeadOf
  <2>9. Printed' /\ Ended'
    BY <1>2 DEF IInv, Printed, Ended, Succeeded
  <2> QED
    BY <2>5, <2>6, <2>7, <2>8, <2>9 DEF IInv
<1> QED
  BY <1>a, <1>b

LEMMA EndOfInputStep == ASSUME IInv, EndOfInput PROVE IInv'
<1> USE DEF EndOfInput, Goto, parsed, outputting
<1>1. TypeOK'
  BY LenProperties, SMTT(30) DEF IInv, TypeOK
<1>2. ParsedAll' /\ ListsAscend'
  BY DEF IInv, ParsedAll, ListsAscend
<1>3. HeadsRight'
  BY LenProperties DEF IInv, TypeOK, HeadsRight, HeadOf, Tried, Succeeded, Ended
<1>4. Untried'
  BY DEF IInv, Untried, HeadOf, NIL
<1>5. Printed' /\ Ended'
  BY DEF IInv, Printed, Ended, Succeeded
<1> QED
  BY <1>1, <1>2, <1>3, <1>4, <1>5 DEF IInv

-----------------------------------------------------------------------------
(***************************************************************************)
(* The first loop of validate().                                           *)
(***************************************************************************)
LEMMA ValidateRuleStep == ASSUME IInv, ValidateRule PROVE IInv'
<1> USE DEF ValidateRule, parsed, outputting
<1>1. /\ Len(order) \in Nat /\ Len(nallow) \in Nat
      /\ DOMAIN order = 1 .. Len(order) /\ DOMAIN nallow = 1 .. Len(nallow)
      /\ cursor \in 1 .. Len(order) /\ node \in 1 .. Len(nallow)
      /\ pc = "validate" /\ status = "running" /\ cause = "none"
      /\ UNCHANGED <<order, nallow, pc, status, cause, cursor, reported, coredom>>
      /\ node' = node + 1
  BY LenProperties DEF IInv, TypeOK, Untried, Ended, NIL
<1>2. /\ violations \in [1 .. Len(order) -> [head : 0 .. Len(nallow), tail : 0 .. Len(nallow)]]
      /\ next \in [1 .. Len(nallow) -> 0 .. Len(nallow)]
  BY DEF IInv, TypeOK
<1> DEFINE L == [head : 0 .. Len(nallow), tail : 0 .. Len(nallow)]
<1>3. /\ violations' \in [1 .. Len(order) -> L]
      /\ next' \in [1 .. Len(nallow) -> 0 .. Len(nallow)]
      /\ \A i \in 1 .. Len(order) : i # cursor => violations'[i] = violations[i]
      /\ violations[cursor].head # NIL => violations'[cursor].head = violations[cursor].head
      /\ violations[cursor].head = NIL =>
           violations'[cursor].head = IF Asserted(order[cursor], nallow[node]) THEN node ELSE NIL
      /\ Asserted(order[cursor], nallow[node]) => violations'[cursor].tail = node
      /\ ~Asserted(order[cursor], nallow[node]) => violations' = violations
  <2>1. CASE ~Asserted(order[cursor], nallow[node])
    BY <1>1, <1>2, <2>1
  <2>2. CASE Asserted(order[cursor], nallow[node]) /\ violations[cursor].head = NIL
    <3>1. /\ violations' = [violations EXCEPT ![cursor] = [head |-> node, tail |-> node]]
          /\ next' = [next EXCEPT ![node] = NIL]
      BY <2>2 DEF ListAppend
    <3>2. [head |-> node, tail |-> node] \in L /\ NIL \in 0 .. Len(nallow)
      BY <1>1 DEF NIL
    <3> QED
      BY <1>1, <1>2, <2>2, <3>1, <3>2
  <2>3. CASE Asserted(order[cursor], nallow[node]) /\ violations[cursor].head # NIL
    <3>1. /\ violations' = [violations EXCEPT ![cursor].tail = node]
          /\ next' = [next EXCEPT ![node] = NIL, ![violations[cursor].tail] = node]
      BY <2>3 DEF ListAppend, Cleared
    <3>2. [violations[cursor] EXCEPT !.tail = node] \in L
      BY <1>1, <1>2
    <3>3. violations' \in [1 .. Len(order) -> L]
      BY <1>1, <1>2, <3>1, <3>2
    <3>4. next' \in [1 .. Len(nallow) -> 0 .. Len(nallow)]
      <4>1. NIL \in 0 .. Len(nallow) /\ node \in 0 .. Len(nallow)
        BY <1>1 DEF NIL
      <4> QED
        BY <1>2, <3>1, <4>1
    <3>5. violations'[cursor].head = violations[cursor].head /\ violations'[cursor].tail = node
      BY <1>1, <1>2, <3>1
    <3>6. \A i \in 1 .. Len(order) : i # cursor => violations'[i] = violations[i]
      BY <1>1, <1>2, <3>1
    <3> QED
      BY <2>3, <3>3, <3>4, <3>5, <3>6
  <2> QED
    BY <2>1, <2>2, <2>3
<1>4. ListsAscend'
  <2>1. violations[cursor].head # NIL =>
          violations[cursor].tail # NIL /\ violations[cursor].tail < node
    BY <1>1 DEF IInv, Untried, HeadOf
  <2> QED
    BY <1>1, <1>2, <2>1 DEF IInv, ListsAscend, ListAppend, Cleared, NIL
<1>5. TypeOK'
  BY <1>1, <1>3 DEF IInv, TypeOK
<1>6. ParsedAll'
  BY <1>1 DEF IInv, ParsedAll
<1>7. HeadsRight'
  <2>1. ASSUME NEW i \in 1 .. Len(order), HeadOf(i)' # NIL
        PROVE  Violates(order[i], nallow[HeadOf(i)'])
    BY <1>1, <1>2, <1>3, <2>1 DEF IInv, HeadsRight, HeadOf, Asserted
  <2>2. ASSUME NEW i \in 1 .. Len(order), NEW n \in 1 .. Len(nallow),
               Tried(i, n)', Violates(order[i], nallow[n])
        PROVE  HeadOf(i)' # NIL
    <3>1. CASE i = cursor /\ n = node
      BY <1>1, <1>2, <1>3, <2>2, <3>1 DEF HeadOf, Asserted, NIL
    <3>2. CASE Tried(i, n)
      BY <1>1, <1>2, <1>3, <2>2, <3>2 DEF IInv, HeadsRight, HeadOf
    <3> QED
      BY <1>1, <2>2, <3>1, <3>2 DEF Tried
  <2> QED
    BY <1>1, <2>1, <2>2 DEF HeadsRight, HeadOf
<1>8. Untried'
  <2>1. ASSUME NEW i \in 1 .. Len(order), HeadOf(i)' # NIL
        PROVE  violations'[i].tail # NIL
    BY <1>1, <1>2, <1>3, <2>1 DEF IInv, Untried, HeadOf, NIL
  <2>2. ASSUME NEW i \in 1 .. Len(order), i > cursor
        PROVE  HeadOf(i)' = NIL
    BY <1>1, <1>2, <1>3, <2>2 DEF IInv, Untried, HeadOf
  <2>3. ASSUME HeadOf(cursor)' # NIL
        PROVE  violations'[cursor].tail < node'
    BY <1>1, <1>2, <1>3, <2>3 DEF IInv, Untried, HeadOf
  <2> QED
    BY <1>1, <2>1, <2>2, <2>3 DEF Untried, HeadOf, NIL
<1>9. Printed' /\ Ended'
  BY <1>1 DEF IInv, Printed, Ended, Succeeded
<1> QED
  BY <1>4, <1>5, <1>6, <1>7, <1>8, <1>9 DEF IInv
LEMMA NextRuleStep == ASSUME IInv, NextRule PROVE IInv'
<1> USE DEF NextRule, parsed, outputting, FirstNeverallow
<1>0. /\ Len(order) \in Nat /\ Len(nallow) \in Nat
      /\ DOMAIN order = 1 .. Len(order) /\ DOMAIN nallow = 1 .. Len(nallow)
      /\ cursor \in 1 .. Len(order) /\ pc = "validate" /\ status = "running"
      /\ node \in Nat /\ node > Len(nallow) /\ cursor' = cursor + 1 /\ node' = 1
  BY LenProperties DEF IInv, TypeOK, Ended
<1>1. TypeOK'
  BY <1>0, SMTT(30) DEF IInv, TypeOK
<1>2. ParsedAll' /\ ListsAscend'
  BY DEF IInv, ParsedAll, ListsAscend
<1>3. HeadsRight'
  <2>1. ASSUME NEW i \in DOMAIN order, NEW n \in DOMAIN nallow, Tried(i, n)'
        PROVE  Tried(i, n)
    BY <1>0, <2>1 DEF Tried
  <2> QED
    BY <1>0, <2>1 DEF IInv, HeadsRight, HeadOf
<1>4. Untried'
  BY <1>0 DEF IInv, Untried, HeadOf, NIL
<1>5. Printed' /\ Ended'
  BY DEF IInv, Printed, Ended, Succeeded
<1> QED
  BY <1>1, <1>2, <1>3, <1>4, <1>5 DEF IInv

-----------------------------------------------------------------------------
(***************************************************************************)
(* The second loop of validate(), which walks the lists.                   *)
(***************************************************************************)
LEMMA StartReportStep == ASSUME IInv, StartReport PROVE IInv'
<1> USE DEF StartReport, parsed, outputting, Goto
<1>0. /\ Len(order) \in Nat /\ Len(nallow) \in Nat
      /\ DOMAIN order = 1 .. Len(order) /\ DOMAIN nallow = 1 .. Len(nallow)
      /\ cursor = Len(order) + 1 /\ pc = "validate" /\ status = "running"
      /\ UNCHANGED <<violations, next, order, nallow, reported, read, policy, opts, coredom>>
      /\ cursor' = 1 /\ pc' = "report"
  BY LenProperties DEF IInv, TypeOK, Ended
<1>1. /\ node' \in 0 .. Len(nallow)
      /\ \A i \in DOMAIN order : i = 1 => node' = HeadOf(i)
  <2>1. node' = IF 1 <= Len(order) THEN HeadOf(1) ELSE NIL
    BY DEF FirstOf, HeadOf
  <2>2. 1 <= Len(order) => HeadOf(1) \in 0 .. Len(nallow)
    BY <1>0 DEF IInv, TypeOK, HeadOf
  <2>3. \A i \in DOMAIN order : i = 1 => 1 <= Len(order)
    BY <1>0
  <2> QED
    BY <1>0, <2>1, <2>2, <2>3 DEF NIL
<1>2. TypeOK'
  BY <1>0, <1>1, SMTT(30) DEF IInv, TypeOK
<1>3. ParsedAll' /\ ListsAscend'
  BY DEF IInv, ParsedAll, ListsAscend
<1>4. HeadsRight'
  BY <1>0 DEF IInv, HeadsRight, HeadOf, Tried
<1>5. Untried'
  BY <1>0 DEF IInv, Untried, HeadOf
<1>6. Printed'
  <2>1. cursor' > Len(order') => node' = NIL
    BY <1>0 DEF FirstOf
  <2> QED
    BY <1>0, <1>1, <2>1 DEF IInv, Printed, HeadOf
<1>7. Ended'
  BY <1>0 DEF IInv, Ended, Succeeded
<1> QED
  BY <1>2, <1>3, <1>4, <1>5, <1>6, <1>7 DEF IInv

LEMMA ReportStep == ASSUME IInv, Report PROVE IInv'
<1> USE DEF Report, parsed, outputting
<1>0. /\ Len(order) \in Nat /\ Len(nallow) \in Nat
      /\ DOMAIN order = 1 .. Len(order) /\ DOMAIN nallow = 1 .. Len(nallow)
      /\ cursor \in 1 .. Len(order) /\ pc = "report" /\ status = "running"
      /\ node \in 0 .. Len(nallow)
      /\ UNCHANGED <<violations, next, order, nallow, read, policy, opts, coredom, pc, status, cause>>
      /\ violations \in [1 .. Len(order) -> [head : 0 .. Len(nallow), tail : 0 .. Len(nallow)]]
      /\ next \in [1 .. Len(nallow) -> 0 .. Len(nallow)]
      /\ UNCHANGED <<lost, out>>
  BY LenProperties DEF IInv, TypeOK, Ended, Printed
<1>1. /\ node' \in 0 .. Len(nallow) /\ cursor' \in 1 .. Len(order) + 1
      /\ reported' \subseteq (1 .. Len(order)) \X (1 .. Len(nallow))
  <2>1. CASE node = NIL
    <3>1. /\ cursor' = cursor + 1 /\ reported' = reported
          /\ node' = IF cursor + 1 <= Len(order) THEN violations[cursor + 1].head ELSE NIL
      BY <2>1 DEF FirstOf
    <3>2. cursor + 1 <= Len(order) => violations[cursor + 1].head \in 0 .. Len(nallow)
      BY <1>0
    <3>3. node' \in 0 .. Len(nallow)
      BY <1>0, <3>1, <3>2 DEF NIL
    <3> QED
      BY <1>0, <3>1, <3>3 DEF IInv, TypeOK
  <2>2. CASE node # NIL
    BY <1>0, <2>2 DEF IInv, TypeOK, NIL
  <2> QED
    BY <2>1, <2>2
<1>2. TypeOK'
  BY <1>0, <1>1, SMTT(30) DEF IInv, TypeOK
<1>3. ParsedAll' /\ ListsAscend'
  BY <1>0 DEF IInv, ParsedAll, ListsAscend
<1>4. HeadsRight'
  BY <1>0 DEF IInv, HeadsRight, HeadOf, Tried
<1>5. Untried'
  BY <1>0 DEF IInv, Untried, HeadOf
<1>6. Printed'
  <2>1. CASE node = NIL
    <3>1. cursor' = cursor + 1 /\ reported' = reported
          /\ node' = IF cursor + 1 <= Len(order) THEN HeadOf(cursor + 1) ELSE NIL
      BY <2>1 DEF FirstOf, HeadOf
    <3>2. HeadOf(cursor) # NIL => <<cursor, HeadOf(cursor)>> \in reported
      BY <1>0, <2>1 DEF IInv, Printed
    <3> QED
      BY <1>0, <1>1, <3>1, <3>2 DEF IInv, Printed, HeadOf
  <2>2. CASE node # NIL
    <3>1. cursor' = cursor /\ reported' = reported \cup {<<cursor, node>>}
      BY <2>2
    <3>2. HeadOf(cursor) # NIL
      BY <1>0, <2>2 DEF IInv, Printed
    <3> QED
      BY <1>0, <1>1, <3>1, <3>2 DEF IInv, Printed, HeadOf
  <2> QED
    BY <2>1, <2>2
<1>7. Ended'
  BY <1>0 DEF IInv, Ended, Succeeded
<1> QED
  BY <1>2, <1>3, <1>4, <1>5, <1>6, <1>7 DEF IInv

LEMMA EndReportStep == ASSUME IInv, EndReport PROVE IInv'
<1> USE DEF EndReport, parsed, outputting, Exit, Goto, FoundIssues
<1>0. /\ Len(order) \in Nat /\ DOMAIN order = 1 .. Len(order)
      /\ cursor > Len(order) /\ pc = "report" /\ status = "running" /\ cause = "none"
  BY LenProperties DEF IInv, TypeOK, Ended
<1>1. TypeOK'
  <2> HIDE DEF EndReport, parsed, outputting, Exit, Goto, FoundIssues
  <2>1. /\ UNCHANGED <<opts, policy, parsed, violations, next, node, reported, out, lost>>
        /\ pc' \in {"output", "exit"} /\ cursor' \in {1, cursor}
        /\ status' \in {"running", "failure"} /\ cause' \in {"none", "violation"}
    BY <1>0 DEF EndReport, outputting, Exit, Goto
  <2>2. cursor' \in 1 .. Len(order) + 1
    BY <1>0, <2>1 DEF IInv, TypeOK
  <2> QED
    BY <2>1, <2>2 DEF IInv, TypeOK, parsed
<1>2. ParsedAll' /\ ListsAscend'
  BY <1>0 DEF IInv, ParsedAll, ListsAscend
<1>3. HeadsRight'
  BY <1>0 DEF IInv, HeadsRight, HeadOf, Tried
<1>4. Untried'
  BY <1>0 DEF IInv, Untried, HeadOf
<1>5. \A i \in DOMAIN order : HeadOf(i) # NIL => <<i, HeadOf(i)>> \in reported
  BY <1>0 DEF IInv, TypeOK, Printed
<1>6. Printed'
  BY <1>0 DEF IInv, Printed, HeadOf
<1>7. Ended'
  BY <1>0, <1>5 DEF IInv, Ended, Succeeded, HeadOf, HeadsRight, Tried
<1> QED
  BY <1>1, <1>2, <1>3, <1>4, <1>6, <1>7 DEF IInv

-----------------------------------------------------------------------------
(***************************************************************************)
(* output(), and the steps that change nothing.                            *)
(***************************************************************************)
LEMMA OutputStep == ASSUME IInv, OutputRule \/ Finish PROVE IInv'
<1> USE DEF OutputRule, Finish, parsed, validating, outputting, Exit
<1>0. Len(order) \in Nat
  BY LenProperties DEF IInv, TypeOK
<1>1. TypeOK'
  <2>1. CASE OutputRule
    <3>1. cursor' \in 1 .. Len(order) + 1
      <4>1. cursor \in 1 .. Len(order) + 1 /\ cursor <= Len(order) /\ cursor' = cursor + 1
        BY <2>1 DEF IInv, TypeOK
      <4> QED
        BY <1>0, <4>1
    <3>3. lost' \in BOOLEAN
      <4>1. lost' = TRUE \/ lost' = lost
        BY <2>1
      <4> QED
        BY <4>1 DEF IInv, TypeOK
    <3>2. UNCHANGED <<pc, status, cause, opts, policy, read, order, nallow, table, coredom,
                      violations, next, node, reported>>
      BY <2>1
    <3> QED
      BY <3>1, <3>2, <3>3 DEF IInv, TypeOK
  <2>2. CASE Finish
    BY <2>2 DEF IInv, TypeOK
  <2> QED
    BY <2>1, <2>2
<1>2. ParsedAll' /\ ListsAscend'
  BY DEF IInv, ParsedAll, ListsAscend, Ended
<1>3. HeadsRight'
  BY DEF IInv, HeadsRight, HeadOf, Tried, Succeeded
<1>4. Untried' /\ Printed'
  BY DEF IInv, Untried, Printed, HeadOf
<1>5. Ended'
  BY DEF IInv, Ended, Succeeded, HeadOf
<1> QED
  BY <1>1, <1>2, <1>3, <1>4, <1>5 DEF IInv

LEMMA StutterStep == ASSUME IInv, UNCHANGED vars PROVE IInv'
<1>1. TypeOK'
  BY DEF vars, parsed, outputting, IInv, TypeOK
<1>2. ParsedAll'
  BY DEF vars, parsed, outputting, IInv, ParsedAll
<1>3. HeadsRight'
  <2>1. UNCHANGED <<pc, order, nallow, violations, next, cursor, node, status, cause>>
    BY DEF vars
  <2>2. \A i \in DOMAIN order : HeadOf(i) # NIL => Violates(order[i], nallow[HeadOf(i)])
    BY DEF IInv, HeadsRight
  <2>3. pc \in {"validate", "report", "output"} \/ Succeeded =>
          \A i \in DOMAIN order, n \in DOMAIN nallow :
            Tried(i, n) /\ Violates(order[i], nallow[n]) => HeadOf(i) # NIL
    BY DEF IInv, HeadsRight
  <2>4. /\ Succeeded' = Succeeded /\ \A i : HeadOf(i)' = HeadOf(i)
        /\ \A i, n : Tried(i, n)' = Tried(i, n)
    BY <2>1 DEF Succeeded, HeadOf, Tried
  <2> QED
    BY <2>1, <2>2, <2>3, <2>4 DEF HeadsRight
<1>4. Untried'
  BY DEF vars, parsed, outputting, IInv, Untried, HeadOf
<1>5. ListsAscend' /\ Printed'
  BY DEF vars, parsed, outputting, IInv, ListsAscend, Printed, HeadOf
<1>6. Ended'
  BY DEF vars, parsed, outputting, IInv, Ended, Succeeded, HeadOf
<1> QED
  BY <1>1, <1>2, <1>3, <1>4, <1>5, <1>6 DEF IInv

-----------------------------------------------------------------------------
(***************************************************************************)
(* IInv holds in every state: types, and the links between the lists, are  *)
(* right whatever the lines, the policies and the size of the table.       *)
(***************************************************************************)
THEOREM Inductive == Spec => []IInv
<1>1. Init => IInv
  BY InitInv
<1>2. IInv /\ [Next]_vars => IInv'
  <2> SUFFICES ASSUME IInv, [Next]_vars PROVE IInv'
    OBVIOUS
  <2>1. CASE HandleOptions \/ OpenFails \/ OpenFiles
    BY <2>1, SetupStep
  <2>2. ASSUME NEW l \in Lines, ReadLine(l) PROVE IInv'
    BY <2>2, OtherLineStep, AcceptLineStep DEF ReadLine
  <2>3. CASE EndOfInput
    BY <2>3, EndOfInputStep
  <2>4. CASE ValidateRule \/ NextRule
    BY <2>4, ValidateRuleStep, NextRuleStep
  <2>5. CASE StartReport \/ Report \/ EndReport
    BY <2>5, StartReportStep, ReportStep, EndReportStep
  <2>6. CASE OutputRule \/ Finish
    BY <2>6, OutputStep
  <2>7. CASE UNCHANGED vars
    BY <2>7, StutterStep
  <2> QED
    BY <2>1, <2>2, <2>3, <2>4, <2>5, <2>6, <2>7 DEF Next
<1> QED
  BY <1>1, <1>2, PTL DEF Spec

(***************************************************************************)
(* Type correctness of the program for every value of the constants.       *)
(***************************************************************************)
THEOREM TypeCorrect == Spec => []TypeOK
<1>1. IInv => TypeOK
  BY DEF IInv
<1> QED
  BY <1>1, Inductive, PTL

(***************************************************************************)
(* A program that succeeds has read nothing malformed, and no rule that    *)
(* violates a neverallow or assigns a coredomain: the lists that validate  *)
(* shares and overwrites never hide a violation from the exit status.      *)
(***************************************************************************)
THEOREM VerdictIsSound == Spec => []VerdictSound
<1>1. IInv => VerdictSound
  <2> SUFFICES ASSUME IInv, Succeeded PROVE VerdictSound
    BY DEF VerdictSound
  <2>1. /\ \A i \in DOMAIN read :
             \/ Blank(read[i])
             \/ /\ WellFormed(read[i], policy, opts.vendor) /\ Listed(read[i], order, nallow)
                /\ NotesCoredomain(read[i], policy, opts.vendor) => coredom # {}
        /\ coredom = {} /\ pc # "validate"
        /\ \A i \in DOMAIN order : HeadOf(i) = NIL
    BY DEF IInv, ParsedAll, Ended, Succeeded
  <2>2. \A i \in DOMAIN order, n \in DOMAIN nallow : ~Violates(order[i], nallow[n])
    BY <2>1 DEF IInv, HeadsRight, Tried
  <2>3. \A i, j \in DOMAIN read :
          /\ ~Blank(read[i]) /\ ~read[i].never
          /\ ~Blank(read[j]) /\ read[j].never
          => ~Violates(RuleOf(read[i]), RuleOf(read[j]))
    BY <2>1, <2>2 DEF Listed
  <2>4. \A i \in DOMAIN read : ~NotesCoredomain(read[i], policy, opts.vendor)
    <3>1. \A i \in DOMAIN read : Blank(read[i]) => ~NotesCoredomain(read[i], policy, opts.vendor)
      BY DEF Blank, NotesCoredomain
    <3> QED
      BY <2>1, <3>1
  <2> QED
    BY <2>1, <2>3, <2>4 DEF VerdictSound
<1> QED
  BY <1>1, Inductive, PTL

(***************************************************************************)
(* validate() never fails a clean run, and when it fails every rule that   *)
(* violates something is printed with a neverallow that it does violate.   *)
(***************************************************************************)
THEOREM VerdictIsJustified == Spec => []VerdictJustified
<1>1. IInv => VerdictJustified
  <2> SUFFICES ASSUME IInv, cause = "violation"
               PROVE  VerdictJustified
    BY DEF VerdictJustified
  <2>1. /\ DOMAIN order = 1 .. Len(order) /\ DOMAIN nallow = 1 .. Len(nallow)
        /\ Len(order) \in Nat /\ Len(nallow) \in Nat
    BY LenProperties DEF IInv, TypeOK
  <2>2. /\ reported # {} \/ coredom # {}
        /\ \A p \in reported : p[1] \in DOMAIN order /\ HeadOf(p[1]) # NIL
        /\ \A i \in DOMAIN order : Offends(i) => HeadOf(i) # NIL /\ <<i, HeadOf(i)>> \in reported
    BY <2>1 DEF IInv, TypeOK, Printed, Ended, Offends
  <2>3. \A i \in DOMAIN order : HeadOf(i) # NIL =>
          HeadOf(i) \in DOMAIN nallow /\ Violates(order[i], nallow[HeadOf(i)])
    BY <2>1 DEF IInv, TypeOK, HeadsRight, HeadOf, NIL
  <2> QED
    BY <2>2, <2>3 DEF VerdictJustified, Offends
<1> QED
  BY <1>1, Inductive, PTL

-----------------------------------------------------------------------------
(***************************************************************************)
(* The program implements SeappPromise.                                    *)
(***************************************************************************)
(***************************************************************************)
(* What IInv does not say: nothing is taken and the output is as it was    *)
(* until the files are open, and no rule is in the output until output().  *)
(***************************************************************************)
OInv ==
  /\ pc \in {"options", "init"} =>
       order = <<>> /\ nallow = <<>> /\ coredom = {} /\ out = Untouched
  /\ pc \notin {"output", "exit"} => out \in {Untouched, <<>>}

LEMMA OutputInv == Spec => []OInv
<1>1. Init => OInv
  BY DEF Init, OInv
<1>2. OInv /\ [Next]_vars => OInv'
  <2> SUFFICES ASSUME OInv, [Next]_vars PROVE OInv'
    OBVIOUS
  <2> USE DEF OInv, Exit, Goto, parsed, validating, outputting
  <2>1. CASE HandleOptions \/ OpenFails
    BY <2>1 DEF HandleOptions, OpenFails
  <2>2. CASE OpenFiles
    BY <2>2 DEF OpenFiles, Truncate
  <2>3. ASSUME NEW l \in Lines, ReadLine(l) PROVE OInv'
    BY <2>3 DEF ReadLine, SkipLine, RejectLine, Reject, AcceptLine
  <2>4. CASE EndOfInput \/ NextRule \/ StartReport
    BY <2>4 DEF EndOfInput, NextRule, StartReport
  <2>5. CASE ValidateRule
    BY <2>5 DEF ValidateRule
  <2>6. CASE Report \/ EndReport
    BY <2>6 DEF Report, EndReport
  <2>7. CASE OutputRule \/ Finish
    BY <2>7 DEF OutputRule, Finish
  <2>8. CASE UNCHANGED vars
    BY <2>8 DEF vars
  <2> QED
    BY <2>1, <2>2, <2>3, <2>4, <2>5, <2>6, <2>7, <2>8 DEF Next
<1> QED
  BY <1>1, <1>2, PTL DEF Spec

\* When output() is reached, the rules are acceptable.
LEMMA AcceptableInOutput ==
  ASSUME IInv, pc = "output" PROVE Promise!Acceptable
<1>1. coredom = {} /\ \A i \in DOMAIN order : HeadOf(i) = NIL
  BY DEF IInv, Ended
<1>2. \A i \in DOMAIN order, n \in DOMAIN nallow : ~Violates(order[i], nallow[n])
  BY <1>1 DEF IInv, HeadsRight, Tried
<1> QED
  BY <1>1, <1>2 DEF Promise!Acceptable, Tainted

\* Steps of the program that SeappPromise does not see.
LEMMA Unseen ==
  ASSUME UNCHANGED <<opts, policy, order, nallow, coredom, out, status, Written>>
  PROVE  UNCHANGED Promise!vars
BY DEF Promise!vars, Promise!taken, Tainted

\* Errors before output().
LEMMA FailStep ==
  ASSUME IInv, OInv, pc \notin {"output", "exit"}, pc' = "exit", status' = "failure",
         UNCHANGED <<opts, policy, order, nallow, coredom, out>>
  PROVE  Promise!Fail
<1>1. status = "running" /\ Written = 0 /\ Written' = 0
  BY DEF IInv, Ended, Written, Succeeded
<1> QED
  BY <1>1 DEF OInv, Promise!Fail, Promise!taken, Tainted

LEMMA SetupImplements ==
  ASSUME IInv, OInv, HandleOptions \/ OpenFails \/ OpenFiles
  PROVE  [Promise!Next]_Promise!vars
<1>0. Written = 0 /\ status = "running" /\ pc \in {"options", "init"}
  BY DEF IInv, Ended, Written, Succeeded, HandleOptions, OpenFails, OpenFiles
<1>1. Promise!Nothing
  BY <1>0 DEF OInv, Promise!Nothing
<1>2. CASE HandleOptions
  <2> USE <1>2 DEF HandleOptions, Exit, Goto, parsed, validating, outputting
  <2>0. UNCHANGED <<policy, order, nallow, coredom, out>>
    OBVIOUS
  <2>1. Written' = 0
    BY <1>0 DEF Written, Succeeded
  <2>2. CASE status' = "success" /\ UNCHANGED opts
    BY <1>0, <1>1, <2>0, <2>1, <2>2 DEF Promise!Helped, Promise!Next, Promise!taken, Tainted
  <2>3. CASE status' = "failure" /\ pc' = "exit" /\ UNCHANGED opts
    BY <1>0, <2>0, <2>3, FailStep DEF Promise!Next
  <2>4. CASE /\ \E v \in BOOLEAN, d \in {"none", "stdout", "file"} : opts' = [vendor |-> v, dest |-> d]
             /\ UNCHANGED status
    BY <1>0, <1>1, <2>0, <2>1, <2>4 DEF Promise!Told, Promise!Next, Promise!taken, Tainted
  <2> QED
    BY <2>2, <2>3, <2>4
<1>3. CASE OpenFails
  BY <1>0, <1>3, FailStep DEF OpenFails, Exit, parsed, validating, outputting, Promise!Next
<1>4. CASE OpenFiles
  <2>1. /\ out' = IF opts.dest = "none" THEN Untouched ELSE <<>>
        /\ UNCHANGED <<opts, order, nallow, coredom>>
        /\ policy' \in Policies \cup {NoPolicy}
        /\ status' \in {"running", "failure"} /\ pc' # "output"
        /\ status' = "failure" \/ status' = status
    BY <1>0, <1>4 DEF OpenFiles, Truncate, Exit, Goto, parsed, validating, IInv, TypeOK
  <2>2. Written' = 0
    BY <1>0, <2>1 DEF Written, Succeeded
  <2> QED
    BY <1>0, <1>1, <2>1, <2>2 DEF Promise!Opened, Promise!Next, Promise!taken, Tainted
<1> QED
  BY <1>2, <1>3, <1>4

LEMMA LineImplements ==
  ASSUME IInv, OInv, NEW l \in Lines, ReadLine(l)
  PROVE  [Promise!Next]_Promise!vars
<1>0. /\ pc = "parse" /\ status = "running" /\ Written = 0 /\ UNCHANGED <<opts, policy, out, cursor>>
      /\ SkipLine(l) \/ RejectLine(l) \/ AcceptLine(l)
  BY DEF ReadLine, outputting, IInv, Ended, Written, Succeeded
<1>1. CASE SkipLine(l)
  BY <1>0, <1>1, Unseen DEF SkipLine, Written, Succeeded
<1>2. CASE RejectLine(l)
  <2>1. pc' = "exit" /\ status' = "failure" /\ UNCHANGED <<order, nallow, coredom>>
    BY <1>2 DEF RejectLine, Reject, Exit
  <2> QED
    BY <1>0, <2>1, FailStep DEF Promise!Next
<1>3. CASE AcceptLine(l)
  <2>1. /\ ~Blank(l) /\ WellFormed(l, policy, opts.vendor) /\ UNCHANGED <<pc, status, cause>>
        /\ IF l.never THEN nallow' = Append(nallow, RuleOf(l)) /\ UNCHANGED order
                      ELSE order' = Append(order, RuleOf(l)) /\ UNCHANGED nallow
    BY <1>3 DEF AcceptLine, RuleAdd, EnlistRule, EnlistNever, RuleOf
  <2>2. Written' = 0
    BY <1>0, <2>1 DEF Written, Succeeded
  <2>3. Tainted' = (Tainted \/ NotesCoredomain(l, policy, opts.vendor))
    BY <1>3 DEF AcceptLine, Tainted
  <2>4. Promise!Take(l)
    BY <1>0, <2>1, <2>2, <2>3 DEF OInv, Promise!Take
  <2> QED
    BY <2>4 DEF Promise!Next
<1> QED
  BY <1>0, <1>1, <1>2, <1>3

LEMMA ValidateImplements ==
  ASSUME IInv, OInv,
         EndOfInput \/ ValidateRule \/ NextRule \/ StartReport \/ Report \/ EndReport
  PROVE  [Promise!Next]_Promise!vars
<1>0. /\ pc \notin {"output", "exit"} /\ status = "running" /\ cause = "none" /\ Written = 0
      /\ UNCHANGED <<opts, policy, order, nallow, coredom, out>>
  BY DEF EndOfInput, ValidateRule, NextRule, StartReport, Report, EndReport, parsed, outputting,
         IInv, Ended, Written, Succeeded
<1>1. CASE EndReport /\ FoundIssues
  BY <1>0, <1>1, FailStep DEF EndReport, Exit, Promise!Next
<1>2. CASE EndReport /\ ~FoundIssues
  <2>1. pc' = "output" /\ cursor' = 1 /\ UNCHANGED <<status, cause>>
    BY <1>2 DEF EndReport, Goto
  <2>2. Written' = 0
    BY <2>1 DEF Written
  <2> QED
    BY <1>0, <2>1, <2>2, Unseen
<1>3. CASE EndOfInput \/ ValidateRule \/ NextRule \/ StartReport \/ Report
  <2>1. pc' # "output" /\ UNCHANGED <<status, cause>>
    BY <1>0, <1>3 DEF EndOfInput, ValidateRule, NextRule, StartReport, Report, Goto
  <2>2. Written' = 0
    BY <1>0, <2>1 DEF Written, Succeeded
  <2> QED
    BY <1>0, <2>1, <2>2, Unseen
<1> QED
  BY <1>1, <1>2, <1>3

LEMMA OutputImplements ==
  ASSUME IInv, OInv, OutputRule \/ Finish
  PROVE  [Promise!Next]_Promise!vars
<1>0. /\ pc = "output" /\ status = "running" /\ Written = cursor - 1
      /\ Len(order) \in Nat /\ cursor \in 1 .. Len(order) + 1
      /\ UNCHANGED <<opts, policy, order, nallow, coredom>>
  BY LenProperties DEF OutputRule, Finish, parsed, IInv, TypeOK, Ended, Written
<1>1. Promise!Acceptable
  BY <1>0, AcceptableInOutput
<1>2. CASE OutputRule
  <2>1. /\ opts.dest # "none" /\ cursor <= Len(order) /\ cursor' = cursor + 1
        /\ UNCHANGED <<pc, status>>
        /\ out' = Append(out, order[cursor].m) \/ out' = out
    BY <1>2 DEF OutputRule
  <2>2. Written' = Written + 1 /\ Written < Len(order) /\ Written + 1 = cursor
    BY <1>0, <2>1 DEF Written
  <2> QED
    BY <1>0, <1>1, <2>1, <2>2 DEF Promise!Write, Promise!Next, Promise!taken, Tainted
<1>3. CASE Finish
  <2>1. /\ pc' = "exit" /\ status' = "success" /\ cause' = "none" /\ UNCHANGED <<cursor, out>>
        /\ opts.dest = "none" \/ cursor > Len(order)
    BY <1>3 DEF Finish, Exit, AllWritten, validating, outputting
  <2>2. Written' = Written
    BY <1>0, <2>1 DEF Written, Succeeded
  <2>3. opts.dest # "none" => Written = Len(order)
    BY <1>0, <2>1
  <2> QED
    BY <1>0, <1>1, <2>1, <2>2, <2>3 DEF Promise!Succeed, Promise!Next, Promise!taken, Tainted
<1> QED
  BY <1>2, <1>3

(***************************************************************************)
(* The tables, the shared list elements and the loops of the program are   *)
(* not seen by those who use its output: each step is one of SeappPromise  *)
(* or none.                                                                *)
(***************************************************************************)
THEOREM KeepsPromise == Spec => Implements
<1>1. Init => Promise!Init
  BY DEF Init, Promise!Init, Written, Succeeded, Tainted
<1>2. IInv /\ OInv /\ [Next]_vars => [Promise!Next]_Promise!vars
  <2> SUFFICES ASSUME IInv, OInv, [Next]_vars PROVE [Promise!Next]_Promise!vars
    OBVIOUS
  <2>1. CASE HandleOptions \/ OpenFails \/ OpenFiles
    BY <2>1, SetupImplements
  <2>2. ASSUME NEW l \in Lines, ReadLine(l) PROVE [Promise!Next]_Promise!vars
    BY <2>2, LineImplements
  <2>3. CASE EndOfInput \/ ValidateRule \/ NextRule \/ StartReport \/ Report \/ EndReport
    BY <2>3, ValidateImplements
  <2>4. CASE OutputRule \/ Finish
    BY <2>4, OutputImplements
  <2>5. CASE UNCHANGED vars
    BY <2>5, Unseen DEF vars, Written, Succeeded
  <2> QED
    BY <2>1, <2>2, <2>3, <2>4, <2>5 DEF Next
<1> QED
  BY <1>1, <1>2, Inductive, OutputInv, PTL DEF Spec, Implements, Promise!Spec
=============================================================================
