--------------------------- MODULE FilterOutProofs --------------------------
(***************************************************************************)
(* Two programs that go over the text of a policy.                         *)
(*                                                                         *)
(* What filter_out does to every file: it keeps a pair of line markers     *)
(* exactly when there is a statement between them, and the statements that *)
(* no pattern matches, in the markers they were in; to do it again changes *)
(* nothing.  First the loop of remove_redundant_line_markers, then what it *)
(* is to choose lines of a file and which markers are open at one of them, *)
(* what the loop leaves of a file, what a file says, and the calls.        *)
(*                                                                         *)
(* What the parser of sepolicy-analyze reads in every file of neverallow   *)
(* rules: what they mean.  First what it has read at a token of a rule     *)
(* (ReadInv), then places in the text, how rules are written, the turns of *)
(* the loop over a list, the parts of a rule, and the rules of a file.     *)
(***************************************************************************)
EXTENDS FilterOut, NeverallowLanguage, FiniteSetTheorems, SequenceTheorems, TLAPS

\* What the invariant says after a step depends on the lines, which no step
\* changes.
LEMMA StartMarkerStep == MarkInv /\ StartMarker => MarkInv'
<1> SUFFICES ASSUME MarkInv, StartMarker PROVE MarkInv'
  OBVIOUS
<1> USE DEF MarkInv
<1> DEFINE n == Len(stk)
<1>1. /\ idx \in 1 .. Len(lines) /\ Kind(idx) \in Starts
      /\ lines' = lines /\ idx' = idx + 1 /\ pc' = pc
      /\ valid' = valid /\ partner' = partner /\ stk' = Append(stk, idx)
  BY DEF StartMarker, Advance, MarkTypeOK, Pushed
<1>2. /\ stk \in Seq(1 .. Len(lines)) /\ n \in Nat /\ Len(lines) \in Nat
      /\ Len(stk') = n + 1 /\ stk'[n + 1] = idx
      /\ \A d \in 1 .. n : stk'[d] = stk[d] /\ stk[d] \in 1 .. Len(lines)
  BY <1>1 DEF MarkTypeOK
<1>3. \A i : Kind(i)' = Kind(i) /\ IsStmt(i)' = IsStmt(i)
  BY <1>1 DEF Kind, IsStmt
<1>4. ~IsStmt(idx)
  BY <1>1 DEF IsStmt, Starts
<1>5. MarkTypeOK'
  BY <1>1, <1>2 DEF MarkTypeOK
<1>6. StackAscends'
  BY <1>1, <1>2, <1>3, SMTT(30) DEF StackAscends, MarkTypeOK
<1>7. OpenRight'
  <2> SUFFICES ASSUME NEW d \in 1 .. n + 1
               PROVE  valid[stk'[d]] <=> \E j \in stk'[d] + 1 .. Bound(d)' - 1 : IsStmt(j)
    BY <1>1, <1>2, <1>3 DEF OpenRight
  <2>1. CASE d = n + 1
    <3>1. ~valid[idx]
      BY <1>1 DEF StatementsKept, MarkTypeOK
    <3>2. Bound(d)' = idx + 1
      BY <1>1, <1>2, <2>1 DEF Bound
    <3> QED
      BY <1>1, <1>2, <2>1, <3>1, <3>2
  <2>2. CASE d \in 1 .. n
    <3>1. Bound(d)' = Bound(d)
      BY <1>1, <1>2, <2>2 DEF Bound
    <3> QED
      BY <1>2, <2>2, <3>1 DEF OpenRight
  <2> QED
    BY <1>2, <2>1, <2>2
<1>8. ClosedRight'
  <2> SUFFICES ASSUME NEW e \in 1 .. idx - 1, Kind(e) = "lme"
               PROVE  PairRight(e)'
    BY <1>1, <1>3 DEF ClosedRight, Starts, MarkTypeOK
  <2>1. PairRight(e) /\ partner[e] # idx
    BY <1>1 DEF ClosedRight, PairRight, MarkTypeOK
  <2>2. \A d \in 1 .. n + 1 : stk'[d] # partner[e]
    BY <1>2, <2>1, SMTT(30) DEF PairRight
  <2> QED
    BY <1>1, <1>2, <2>1, <2>2 DEF PairRight, IsStmt, Kind
<1>9. StatementsKept'
  BY <1>1, <1>3, <1>4 DEF StatementsKept, MarkTypeOK
<1> QED
  BY <1>5, <1>6, <1>7, <1>8, <1>9

LEMMA StatementStep == MarkInv /\ Statement => MarkInv'
<1> SUFFICES ASSUME MarkInv, Statement PROVE MarkInv'
  OBVIOUS
<1> USE DEF MarkInv
<1> DEFINE n == Len(stk)
<1>1. /\ idx \in 1 .. Len(lines) /\ Kind(idx) = "stmt"
      /\ lines' = lines /\ idx' = idx + 1 /\ pc' = pc /\ partner' = partner /\ stk' = stk
      /\ valid' = [i \in 1 .. Len(lines) |-> valid[i] \/ i \in SetBy(idx)]
  BY DEF Statement, Advance, MarkTypeOK
<1>2. /\ stk \in Seq(1 .. Len(lines)) /\ n \in Nat /\ Len(lines) \in Nat
      /\ \A d \in 1 .. n : stk[d] \in 1 .. Len(lines) /\ stk[d] < idx
      /\ stk # <<>> <=> n > 0
      /\ Top = stk[n]
  BY DEF MarkTypeOK, StackAscends, Top
<1>3. \A i : Kind(i)' = Kind(i) /\ IsStmt(i)' = IsStmt(i)
  BY <1>1 DEF Kind, IsStmt
<1>4. IsStmt(idx)
  BY <1>1 DEF IsStmt
<1>5. \A i \in 1 .. Len(lines) : valid[i] \in BOOLEAN
  BY DEF MarkTypeOK
<1>6. \A i \in 1 .. Len(lines) :
        valid'[i] <=> valid[i] \/ i = idx \/ (n > 0 /\ i = stk[n])
  BY <1>1, <1>2 DEF SetBy
<1>7. MarkTypeOK'
  BY <1>1, <1>5 DEF MarkTypeOK
<1>8. StackAscends'
  BY <1>1, <1>2, <1>3 DEF StackAscends, MarkTypeOK
<1>9. OpenRight'
  <2> SUFFICES ASSUME NEW d \in 1 .. n
               PROVE  valid'[stk[d]] <=> \E j \in stk[d] + 1 .. Bound(d)' - 1 : IsStmt(j)
    BY <1>1, <1>2, <1>3 DEF OpenRight
  <2>1. CASE d = n
    <3>1. Bound(d)' = idx + 1
      BY <1>1, <1>2, <2>1 DEF Bound
    <3>2. valid'[stk[d]]
      BY <1>2, <1>6, <2>1
    <3> QED
      BY <1>1, <1>2, <1>4, <3>1, <3>2
  <2>2. CASE d < n
    <3>1. Bound(d)' = Bound(d)
      BY <1>1, <1>2, <2>2 DEF Bound
    <3>2. stk[d] # stk[n]
      BY <1>2, <2>2 DEF StackAscends
    <3>3. valid'[stk[d]] <=> valid[stk[d]]
      BY <1>1, <1>2, <1>6, <3>2
    <3> QED
      BY <3>1, <3>3 DEF OpenRight
  <2> QED
    BY <1>2, <2>1, <2>2
<1>10. ClosedRight'
  <2> SUFFICES ASSUME NEW e \in 1 .. idx - 1, Kind(e) = "lme"
               PROVE  PairRight(e)'
    BY <1>1, <1>3 DEF ClosedRight, MarkTypeOK
  <2>1. PairRight(e) /\ e # idx /\ partner[e] # idx /\ (n > 0 => stk[n] # partner[e])
    <3>1. PairRight(e) /\ e # idx
      BY <1>1 DEF ClosedRight
    <3>2. partner[e] # idx
      BY <1>1, <3>1 DEF PairRight
    <3>3. n > 0 => stk[n] # partner[e]
      BY <1>2, <3>1 DEF PairRight
    <3> QED
      BY <3>1, <3>2, <3>3
  <2>2. n > 0 => stk[n] # e
    BY <1>2 DEF StackAscends, Starts
  <2>3. e \in 1 .. Len(lines) /\ partner[e] \in 1 .. Len(lines)
    BY <1>1, <2>1 DEF PairRight
  <2>4. (valid'[e] <=> valid[e]) /\ (valid'[partner[e]] <=> valid[partner[e]])
    BY <1>6, <2>1, <2>2, <2>3
  <2> QED
    BY <1>1, <2>1, <2>4 DEF PairRight, IsStmt, Kind
<1>11. StatementsKept'
  BY <1>1, <1>2, <1>3, <1>6 DEF StatementsKept
<1> QED
  BY <1>7, <1>8, <1>9, <1>10, <1>11

\* What marker_stk.pop() leaves.
LEMMA PopFun ==
  ASSUME NEW S, NEW s \in Seq(S), s # <<>>
  PROVE  /\ Pop(s) \in Seq(S) /\ Len(Pop(s)) = Len(s) - 1
         /\ \A d \in 1 .. Len(s) - 1 : Pop(s)[d] = s[d]
<1>1. Len(s) \in Nat \ {0} /\ \A i \in 1 .. Len(s) - 1 : s[i] \in S
  OBVIOUS
<1> DEFINE m == Len(s) - 1
<1>2. m \in Nat /\ \A i \in 1 .. m : s[i] \in S
  BY <1>1
<1>3. /\ SubSeq(s, 1, m) \in Seq(S)
      /\ Len(SubSeq(s, 1, m)) = IF 1 <= m THEN m - 1 + 1 ELSE 0
      /\ \A i \in 1 .. m - 1 + 1 : SubSeq(s, 1, m)[i] = s[1 + i - 1]
  <2> HIDE DEF m
  <2> QED
    BY <1>2, SubSeqProperties
<1> HIDE DEF m
<1>4. Len(SubSeq(s, 1, m)) = m /\ \A i \in 1 .. m : SubSeq(s, 1, m)[i] = s[i]
  BY <1>2, <1>3
<1> QED
  BY <1>3, <1>4 DEF Pop, m

LEMMA EndMarkerStep == MarkInv /\ EndMarker => MarkInv'
<1> SUFFICES ASSUME MarkInv, EndMarker PROVE MarkInv'
  OBVIOUS
<1> USE DEF MarkInv
<1> DEFINE n == Len(stk)
<1>1. /\ idx \in 1 .. Len(lines) /\ Kind(idx) = "lme" /\ stk # <<>>
      /\ lines' = lines /\ idx' = idx + 1 /\ pc' = pc
      /\ stk' = Pop(stk) /\ partner' = [partner EXCEPT ![idx] = Top]
      /\ valid' = IF valid[Top] THEN [i \in 1 .. Len(lines) |-> valid[i] \/ i \in Propagates(idx)]
                                ELSE valid
  BY DEF EndMarker, Advance, MarkTypeOK
<1>2. /\ stk \in Seq(1 .. Len(lines)) /\ n \in Nat \ {0} /\ Len(lines) \in Nat
      /\ \A d \in 1 .. n : stk[d] \in 1 .. Len(lines) /\ stk[d] < idx /\ Kind(stk[d]) \in Starts
      /\ \A d, e \in 1 .. n : d < e => stk[d] < stk[e]
      /\ Top = stk[n] /\ Below = stk[n - 1]
  BY <1>1 DEF MarkTypeOK, StackAscends, Top, Below
<1>3. /\ stk' \in Seq(1 .. Len(lines)) /\ Len(stk') = n - 1
      /\ \A d \in 1 .. n - 1 : stk'[d] = stk[d]
  BY <1>1, <1>2, PopFun
<1>n. n = Len(stk)
  OBVIOUS
<1>o. \A d \in 1 .. n : /\ stk[d] \in 1 .. Len(lines) /\ stk[d] \in Int /\ stk[d] < idx
                         /\ Kind(stk[d]) \in Starts
  BY <1>2
<1>p. \A d, e \in 1 .. n : d < e => stk[d] < stk[e]
  BY <1>2
<1>q. n \in Nat \ {0} /\ Len(lines) \in Nat /\ idx \in Int
  BY <1>1, <1>2
<1> HIDE DEF n
<1>4. \A i : Kind(i)' = Kind(i) /\ IsStmt(i)' = IsStmt(i)
  BY <1>1 DEF Kind, IsStmt
<1>5. ~IsStmt(idx) /\ ~IsStmt(stk[n]) /\ ~valid[idx]
  <2>1. stk[n] \in 1 .. Len(lines) /\ Kind(stk[n]) \in Starts
    BY <1>2
  <2>2. ~valid[idx]
    BY <1>1 DEF StatementsKept
  <2> QED
    BY <1>1, <2>1, <2>2 DEF IsStmt, Starts
<1>6. \A i \in 1 .. Len(lines) : valid[i] \in BOOLEAN
  BY DEF MarkTypeOK
<1>7. \A i \in 1 .. Len(lines) :
        valid'[i] <=> valid[i] \/ (valid[stk[n]] /\ (i = idx \/ (n >= 2 /\ i = stk[n - 1])))
  <2>1. CASE valid[stk[n]]
    <3>1. Propagates(idx) = IF n >= 2 THEN {idx, stk[n - 1]} ELSE {idx}
      BY <1>2, <1>n DEF Propagates
    <3>2. valid' = [i \in 1 .. Len(lines) |-> valid[i] \/ i \in Propagates(idx)]
      BY <1>1, <1>2, <2>1
    <3>3. \A i \in 1 .. Len(lines) : valid'[i] = (valid[i] \/ i \in Propagates(idx))
      BY <3>2
    <3> QED
      BY <2>1, <3>1, <3>3
  <2>2. CASE ~valid[stk[n]]
    BY <1>1, <1>2, <2>2
  <2> QED
    BY <2>1, <2>2
<1>8. valid[stk[n]] <=> \E j \in stk[n] + 1 .. idx - 1 : IsStmt(j)
  <2>1. n \in 1 .. n /\ Bound(n) = idx
    BY <1>n, <1>q DEF Bound
  <2> QED
    BY <1>n, <2>1 DEF OpenRight
<1>9. partner' \in [1 .. Len(lines) -> 0 .. Len(lines)] /\ partner'[idx] = stk[n]
      /\ \A e \in 1 .. Len(lines) : e # idx => partner'[e] = partner[e]
  BY <1>1, <1>2, SMTT(30) DEF MarkTypeOK
<1>10. MarkTypeOK'
  BY <1>1, <1>3, <1>6, <1>9 DEF MarkTypeOK
<1>11. StackAscends'
  <2>1. \A d \in 1 .. n - 1 : stk'[d] < idx' /\ lines'[stk'[d]].kind \in Starts
    <3> SUFFICES ASSUME NEW d \in 1 .. n - 1
                 PROVE  stk'[d] < idx' /\ lines'[stk'[d]].kind \in Starts
      OBVIOUS
    <3>1. stk'[d] = stk[d] /\ d \in 1 .. n
      BY <1>3, <1>q
    <3>2. stk[d] < idx + 1 /\ lines[stk[d]].kind \in Starts
      BY <1>o, <1>q, <3>1 DEF Kind
    <3> QED
      BY <1>1, <3>1, <3>2
  <2>2. \A d, e \in 1 .. n - 1 : d < e => stk'[d] < stk'[e]
    BY <1>3, <1>p, <1>q
  <2> QED
    BY <1>3, <2>1, <2>2 DEF StackAscends, Starts, Kind
<1>12. OpenRight'
  <2> SUFFICES ASSUME NEW d \in 1 .. n - 1
               PROVE  valid'[stk[d]] <=> \E j \in stk[d] + 1 .. Bound(d)' - 1 : IsStmt(j)
    BY <1>1, <1>3, <1>4 DEF OpenRight
  <2>1. CASE d = n - 1
    <3>1. Bound(d)' = idx + 1 /\ Bound(d) = stk[n]
      BY <1>1, <1>3, <1>n, <1>q, <2>1 DEF Bound
    <3>2. valid'[stk[d]] <=> valid[stk[d]] \/ valid[stk[n]]
      BY <1>7, <1>o, <1>p, <1>q, <2>1
    <3>3. valid[stk[d]] <=> \E j \in stk[d] + 1 .. stk[n] - 1 : IsStmt(j)
      BY <1>n, <1>q, <2>1, <3>1 DEF OpenRight
    <3>4. stk[d] < stk[n] /\ stk[n] < idx /\ idx \in Nat /\ stk[d] \in Nat /\ stk[n] \in Nat
      BY <1>o, <1>p, <1>q, <2>1
    <3>5. (\E j \in stk[d] + 1 .. idx : IsStmt(j))
            <=> (\E j \in stk[d] + 1 .. stk[n] - 1 : IsStmt(j)) \/ (\E j \in stk[n] + 1 .. idx - 1 : IsStmt(j))
      BY <1>5, <3>4
    <3> QED
      BY <1>8, <3>1, <3>2, <3>3, <3>4, <3>5
  <2>2. CASE d < n - 1
    <3>1. Bound(d)' = stk[d + 1] /\ Bound(d) = stk[d + 1]
      <4>1. d + 1 \in 1 .. n - 1 /\ d < n /\ d < Len(stk')
        BY <1>3, <1>q, <2>2
      <4> QED
        BY <1>3, <1>n, <4>1 DEF Bound
    <3>2. stk[d] # stk[n - 1] /\ stk[d] # idx /\ stk[d] \in 1 .. Len(lines)
      BY <1>o, <1>p, <1>q, <2>2
    <3>3. valid'[stk[d]] <=> valid[stk[d]]
      BY <1>7, <3>2
    <3> QED
      BY <1>n, <1>q, <3>1, <3>3 DEF OpenRight
  <2> QED
    BY <1>q, <2>1, <2>2
<1>13. ClosedRight'
  <2> SUFFICES ASSUME NEW e \in 1 .. idx, Kind(e) = "lme"
               PROVE  PairRight(e)'
    <3>1. idx' - 1 = idx
      BY <1>1, <1>q
    <3> QED
      BY <1>4, <3>1 DEF ClosedRight
  <2>1. CASE e = idx
    <3>1. partner'[e] = stk[n] /\ (valid'[e] <=> valid[stk[n]])
      BY <1>1, <1>5, <1>7, <1>9, <2>1
    <3>2. valid'[stk[n]] <=> valid[stk[n]]
      BY <1>7, <1>o, <1>q
    <3>3. \A d \in 1 .. n - 1 : stk[d] # stk[n]
      BY <1>o, <1>p, <1>q
    <3>4. stk[n] \in 1 .. e - 1 /\ Kind(stk[n]) \in Starts
      BY <1>o, <1>q, <2>1
    <3> QED
      BY <1>1, <1>3, <1>8, <2>1, <3>1, <3>2, <3>3, <3>4 DEF PairRight, IsStmt, Kind, Starts
  <2>2. CASE e \in 1 .. idx - 1
    <3>1. PairRight(e) /\ \A d \in 1 .. n : stk[d] # partner[e]
      BY <1>n, <2>2 DEF ClosedRight, PairRight
    <3>2. e \in 1 .. Len(lines) /\ partner[e] \in 1 .. Len(lines) /\ e # idx /\ partner[e] # idx
      BY <1>1, <2>2, <3>1 DEF PairRight
    <3>3. partner'[e] = partner[e]
      BY <1>9, <3>2
    <3>4. n >= 2 => stk[n - 1] # partner[e] /\ stk[n - 1] # e
      BY <1>o, <1>q, <3>1 DEF Starts
    <3>5. (valid'[e] <=> valid[e]) /\ (valid'[partner[e]] <=> valid[partner[e]])
      BY <1>7, <3>2, <3>4
    <3>6. \A d \in 1 .. n - 1 : stk'[d] # partner[e]
      BY <1>3, <1>q, <3>1
    <3> QED
      BY <1>1, <1>3, <3>1, <3>3, <3>5, <3>6 DEF PairRight, IsStmt, Kind, Starts
  <2> QED
    BY <1>1, <2>1, <2>2
<1>14. StatementsKept'
  <2>1. \A i \in 1 .. idx : IsStmt(i) => valid'[i]
    BY <1>1, <1>5, <1>7, <1>q DEF StatementsKept
  <2>2. \A i \in idx + 1 .. Len(lines) : i # idx /\ (n >= 2 => i # stk[n - 1]) /\ ~valid[i]
    BY <1>o, <1>q DEF StatementsKept
  <2>3. \A i \in idx + 1 .. Len(lines) : ~valid'[i]
    BY <1>1, <1>7, <1>q, <2>2
  <2>4. idx' - 1 = idx /\ idx' = idx + 1 /\ lines' = lines
    BY <1>1, <1>q
  <2> QED
    BY <1>4, <2>1, <2>3, <2>4 DEF StatementsKept, IsStmt, Kind
<1> QED
  BY <1>10, <1>11, <1>12, <1>13, <1>14

\* The steps that end the loop, and stuttering, only change pc.
LEMMA OtherStep == MarkInv /\ (Unbalanced \/ EndOfLines \/ UNCHANGED markVars) => MarkInv'
<1> SUFFICES ASSUME MarkInv, Unbalanced \/ EndOfLines \/ UNCHANGED markVars PROVE MarkInv'
  OBVIOUS
<1> USE DEF MarkInv
<1>1. /\ UNCHANGED <<lines, idx, stk, valid, partner>>
      /\ pc' \in {"mark", "marked", "IndexError"}
  BY DEF Unbalanced, EndOfLines, markVars, MarkTypeOK
<1>2. \A i : Kind(i)' = Kind(i) /\ IsStmt(i)' = IsStmt(i) /\ Bound(i)' = Bound(i)
  BY <1>1 DEF Kind, IsStmt, Bound
<1>3. MarkTypeOK' /\ StackAscends'
  BY <1>1, <1>2 DEF MarkTypeOK, StackAscends
<1>4. OpenRight'
  BY <1>1, <1>2 DEF OpenRight
<1>5. ClosedRight'
  BY <1>1, <1>2 DEF ClosedRight, PairRight
<1>6. StatementsKept'
  BY <1>1, <1>2 DEF StatementsKept
<1> QED
  BY <1>3, <1>4, <1>5, <1>6

\* MarkInv holds while remove_redundant_line_markers runs, on any lines.
LEMMA MarkStep == MarkInv /\ [MarkNext]_markVars => MarkInv'
BY StartMarkerStep, StatementStep, EndMarkerStep, OtherStep DEF MarkNext

-----------------------------------------------------------------------------
(***************************************************************************)
(* Choosing lines.                                                         *)
(***************************************************************************)
\* A set of numbers has a least one: of the intervals up to them, one has no other in it.
LEMMA LeastNat ==
  ASSUME NEW T, T \in SUBSET Nat, T # {}
  PROVE  \E x \in T : \A y \in T : x <= y
<1> DEFINE F == {1 .. x : x \in T}
<1>1. \A x \in T : 1 .. x \in FiniteSubsetsOf(Nat)
  BY FS_Interval DEF FiniteSubsetsOf
<1>2. F \subseteq FiniteSubsetsOf(Nat) /\ F # {}
  BY <1>1
<1>3. PICK f \in F : \A g \in F : ~(<<g, f>> \in StrictSubsetOrdering(Nat))
  BY <1>2, FS_StrictSubsetOrderingWellFounded, WFMin
<1>4. PICK x \in T : f = 1 .. x
  BY <1>3
<1>5. ASSUME NEW y \in T, ~(x <= y) PROVE FALSE
  <2>1. 1 .. y \in F /\ 1 .. y \in SUBSET Nat /\ 1 .. x \in SUBSET Nat
    OBVIOUS
  <2>2. x \in 1 .. x /\ x \notin 1 .. y /\ 1 .. y \subseteq 1 .. x
    BY <1>5
  <2> QED
    BY <1>3, <1>4, <2>1, <2>2 DEF StrictSubsetOrdering
<1> QED
  BY <1>5

\* What holds of 0, and of every number behind one of which it holds.
LEMMA Upward ==
  ASSUME NEW n \in Nat, NEW S, S \subseteq 0 .. n, 0 \notin S,
         \A k \in 0 .. n : k # n /\ k \notin S => k + 1 \notin S
  PROVE  S = {}
<1> SUFFICES ASSUME S # {} PROVE FALSE
  OBVIOUS
<1>1. S \in SUBSET Nat
  OBVIOUS
<1>2. PICK x \in S : \A y \in S : x <= y
  BY <1>1, LeastNat, Zenon
<1>3. x \in 1 .. n
  OBVIOUS
<1>4. x - 1 \notin S
  BY <1>2, <1>3
<1> QED
  BY <1>3, <1>4

\* A function whose values follow each from the one before.
Follows(f, n, T, b, next) ==
  /\ f \in [0 .. n -> T] /\ f[0] = b
  /\ \A k \in 1 .. n : f[k] = next[k][f[k - 1]]

\* It exists, by induction on how many numbers it is defined for.
LEMMA SomeFollows ==
  ASSUME NEW n \in Nat, NEW T, NEW b \in T, NEW next, \A k \in 1 .. n : next[k] \in [T -> T]
  PROVE  \E f : Follows(f, n, T, b, next)
<1> DEFINE S == {k \in 0 .. n : ~\E f : Follows(f, k, T, b, next)}
<1>1. 0 \notin S
  <2>1. Follows([k \in 0 .. 0 |-> b], 0, T, b, next)
    BY DEF Follows
  <2> QED
    BY <2>1
<1>2. ASSUME NEW k \in 0 .. n, k # n, k \notin S PROVE k + 1 \notin S
  <2>1. PICK f : Follows(f, k, T, b, next)
    BY <1>2
  <2> DEFINE h == [j \in 0 .. k + 1 |-> IF j = k + 1 THEN next[k + 1][f[k]] ELSE f[j]]
  <2>2. /\ f \in [0 .. k -> T] /\ f[0] = b /\ k \in 0 .. k /\ k + 1 \in 1 .. n
        /\ \A j \in 1 .. k : f[j] = next[j][f[j - 1]]
    BY <1>2, <2>1 DEF Follows
  <2>3. next[k + 1][f[k]] \in T
    BY <2>2
  <2>4. h \in [0 .. k + 1 -> T] /\ h[k + 1] = next[k + 1][f[k]] /\ \A j \in 0 .. k : h[j] = f[j]
    BY <2>2, <2>3
  <2> HIDE DEF h
  <2>5. ASSUME NEW j \in 1 .. k + 1 PROVE h[j] = next[j][h[j - 1]]
    <3>1. CASE j = k + 1
      <4>1. j - 1 = k /\ h[k] = f[k]
        BY <2>2, <2>4, <3>1
      <4> QED
        BY <2>4, <3>1, <4>1
    <3>2. CASE j # k + 1
      <4>1. j \in 1 .. k /\ j \in 0 .. k /\ j - 1 \in 0 .. k
        BY <3>2
      <4> QED
        BY <2>2, <2>4, <4>1
    <3> QED
      BY <3>1, <3>2
  <2>6. h[0] = b
    BY <2>2, <2>4
  <2>7. Follows(h, k + 1, T, b, next)
    BY <2>4, <2>5, <2>6 DEF Follows
  <2> QED
    BY <2>7
<1>3. S \subseteq 0 .. n
  OBVIOUS
<1>4. S = {}
  <2> HIDE DEF S
  <2> QED
    BY <1>1, <1>2, <1>3, Upward
<1>5. n \in 0 .. n
  OBVIOUS
<1> QED
  BY <1>4, <1>5

\* The members of a set of positions, in their order.
Lists(g, ks, m) ==
  /\ m \in Nat /\ g \in [1 .. m -> ks]
  /\ \A k \in ks : \E j \in 1 .. m : g[j] = k
  /\ \A i, j \in 1 .. m : i < j => g[i] < g[j]

\* There is one way to list a set: as far as two go they agree ...
LEMMA ListsAgree ==
  ASSUME NEW ks \in SUBSET Nat, NEW g, NEW m, NEW h, NEW n, Lists(g, ks, m), Lists(h, ks, n), m <= n
  PROVE  \A j \in 1 .. m : g[j] = h[j]
<1> DEFINE S == {j \in 1 .. m : g[j] # h[j]}
<1>0. /\ m \in Nat /\ n \in Nat /\ g \in [1 .. m -> ks] /\ h \in [1 .. n -> ks]
      /\ \A j \in 1 .. m : j \in 1 .. n
  BY DEF Lists
<1>1. /\ \A j \in 1 .. m : g[j] \in Nat
      /\ \A i, j \in 1 .. m : i < j => g[i] < g[j]
  BY <1>0 DEF Lists
<1>2. /\ \A j \in 1 .. n : h[j] \in Nat
      /\ \A i, j \in 1 .. n : i < j => h[i] < h[j]
  BY <1>0 DEF Lists
<1> SUFFICES ASSUME S # {} PROVE FALSE
  OBVIOUS
<1>3. PICK x \in S : \A y \in S : x <= y
  <2>1. S \in SUBSET Nat
    OBVIOUS
  <2> HIDE DEF S
  <2> QED
    BY <2>1, LeastNat, Zenon
<1>4. /\ x \in 1 .. m /\ x \in 1 .. n /\ g[x] # h[x]
      /\ \A y \in 1 .. m : y < x => g[y] = h[y]
  BY <1>0, <1>3
<1>5. CASE g[x] < h[x]
  <2>1. PICK j \in 1 .. n : h[j] = g[x]
    BY <1>0, <1>4 DEF Lists
  <2>2. j < x
    <3>1. ~(x < j) /\ x # j
      BY <1>1, <1>2, <1>4, <1>5, <2>1
    <3> QED
      BY <1>0, <1>4, <2>1, <3>1
  <2>3. g[j] = h[j] /\ j \in 1 .. m
    BY <1>0, <1>4, <2>2
  <2> QED
    BY <1>1, <1>4, <2>1, <2>2, <2>3
<1>6. CASE h[x] < g[x]
  <2>1. PICK j \in 1 .. m : g[j] = h[x]
    BY <1>0, <1>4 DEF Lists
  <2>2. j < x
    <3>1. ~(x < j) /\ x # j
      BY <1>1, <1>2, <1>4, <1>6, <2>1
    <3> QED
      BY <1>0, <1>4, <2>1, <3>1
  <2>3. g[j] = h[j]
    BY <1>4, <2>2
  <2> QED
    <3>1. j \in 1 .. n /\ h[j] = h[x]
      BY <1>0, <2>1, <2>3
    <3> QED
      BY <1>2, <1>4, <2>2, <3>1
<1> QED
  BY <1>1, <1>2, <1>4, <1>5, <1>6

\* ... and the longer one has nothing left to go on with.
LEMMA OneList ==
  ASSUME NEW ks \in SUBSET Nat, NEW g, NEW m, NEW h, NEW n, Lists(g, ks, m), Lists(h, ks, n)
  PROVE  m = n /\ \A j \in 1 .. m : g[j] = h[j]
<1>0. m \in Nat /\ n \in Nat
  BY DEF Lists
<1>1. ASSUME NEW a, NEW i, NEW b, NEW j, Lists(a, ks, i), Lists(b, ks, j), i < j PROVE FALSE
  <2>1. i \in Nat /\ j \in Nat /\ i + 1 \in 1 .. j /\ b \in [1 .. j -> ks] /\ i <= j
    BY <1>1 DEF Lists
  <2>2. \A l \in 1 .. i : a[l] = b[l]
    <3>1. Lists(a, ks, i) /\ Lists(b, ks, j) /\ i <= j
      BY <1>1, <2>1
    <3> QED
      BY <3>1, ListsAgree
  <2>3. PICK l \in 1 .. i : a[l] = b[i + 1]
    BY <1>1, <2>1 DEF Lists
  <2>4. l \in 1 .. j /\ l < i + 1 /\ b[l] = b[i + 1]
    BY <2>1, <2>2, <2>3
  <2>5. b[l] < b[i + 1] /\ b[l] \in Nat
    BY <1>1, <2>1, <2>4 DEF Lists
  <2> QED
    BY <2>4, <2>5
<1>2. ~(m < n) /\ ~(n < m)
  BY <1>1
<1>3. m = n /\ m <= n
  BY <1>0, <1>2
<1> QED
  BY <1>3, ListsAgree

\* What is chosen are the lines at the positions, in their order.
LEMMA ChosenIs ==
  ASSUME NEW S, NEW s \in Seq(S), NEW ks \in SUBSET (1 .. Len(s))
  PROVE  /\ Chosen(s, ks) \in Seq(S)
         /\ \E g : /\ Lists(g, ks, Len(Chosen(s, ks)))
                   /\ \A j \in 1 .. Len(Chosen(s, ks)) : Chosen(s, ks)[j] = s[g[j]]
<1> DEFINE n == Len(s)
           next == [k \in 1 .. n |-> [t \in Seq(S) |-> IF k \in ks THEN Append(t, s[k]) ELSE t]]
           Def(f) == f = [i \in 0 .. n |-> IF i = 0 THEN <<>>
                                           ELSE IF i \in ks THEN Append(f[i - 1], s[i]) ELSE f[i - 1]]
           f == CHOOSE f : Def(f)
<1>0. n \in Nat /\ \A k \in 1 .. n : s[k] \in S
  OBVIOUS
<1>k. \A j \in ks : j \in 1 .. n
  OBVIOUS
<1>1. \E x : Def(x)
  <2>1. \A k \in 1 .. n : next[k] \in [Seq(S) -> Seq(S)]
    BY <1>0
  <2>2. \A k \in 1 .. n : \A t \in Seq(S) : next[k][t] = IF k \in ks THEN Append(t, s[k]) ELSE t
    OBVIOUS
  <2>3. <<>> \in Seq(S)
    OBVIOUS
  <2> HIDE DEF next, n
  <2>4. PICK x : Follows(x, n, Seq(S), <<>>, next)
    BY <1>0, <2>1, <2>3, SomeFollows
  <2>5. x \in [0 .. n -> Seq(S)] /\ x[0] = <<>> /\ \A k \in 1 .. n : x[k] = next[k][x[k - 1]]
    BY <2>4 DEF Follows
  <2>6. ASSUME NEW k \in 1 .. n
        PROVE  x[k] = IF k \in ks THEN Append(x[k - 1], s[k]) ELSE x[k - 1]
    <3>1. k - 1 \in 0 .. n
      BY <1>0
    <3>2. x[k - 1] \in Seq(S)
      BY <2>5, <3>1
    <3> QED
      BY <2>2, <2>5, <3>2
  <2>7. \A k \in 0 .. n : x[k] = IF k = 0 THEN <<>> ELSE IF k \in ks THEN Append(x[k - 1], s[k])
                                 ELSE x[k - 1]
    <3> HIDE DEF n
    <3>1. \A k \in 0 .. n : k # 0 => k \in 1 .. n
      BY <1>0
    <3> QED
      BY <2>5, <2>6, <3>1
  <2>8. Def(x)
    BY <2>5, <2>7, Zenon
  <2> QED
    BY <2>8
<1>2. Def(f)
  BY <1>1
<1>3. Chosen(s, ks) = f[n]
  BY DEF Chosen
<1>4. /\ f[0] = <<>>
      /\ \A k \in 1 .. n : f[k] = IF k \in ks THEN Append(f[k - 1], s[k]) ELSE f[k - 1]
  <2> HIDE DEF f, n
  <2>1. \A k \in 0 .. n : f[k] = IF k = 0 THEN <<>> ELSE IF k \in ks THEN Append(f[k - 1], s[k])
                                 ELSE f[k - 1]
    BY <1>2
  <2> QED
    BY <1>0, <2>1
<1> DEFINE Fine(t, g, k) == /\ t \in Seq(S) /\ Lists(g, {j \in ks : j <= k}, Len(t))
                            /\ \A j \in 1 .. Len(t) : t[j] = s[g[j]]
           Wrong == {k \in 0 .. n : ~\E g : Fine(f[k], g, k)}
<1> HIDE DEF f
<1>5. 0 \notin Wrong
  <2>a. \A j \in ks : ~(j <= 0)
    BY <1>k
  <2>b. {j \in ks : j <= 0} = {}
    BY <2>a, Zenon
  <2>1. <<>> \in Seq(S) /\ Len(<<>>) = 0
    OBVIOUS
  <2>2. Fine(<<>>, [j \in 1 .. 0 |-> j], 0)
    BY <2>1, <2>b DEF Lists
  <2>3. Fine(f[0], [j \in 1 .. 0 |-> j], 0)
    BY <1>4, <2>2, Zenon
  <2> QED
    BY <2>3, Zenon
<1>6. ASSUME NEW k \in 0 .. n, k # n, k \notin Wrong PROVE k + 1 \notin Wrong
  <2>1. PICK g : Fine(f[k], g, k)
    BY <1>6
  <2>2. k + 1 \in 1 .. n /\ k \in Nat /\ k + 1 - 1 = k
    BY <1>0, <1>6
  <2>3. f[k + 1] = IF k + 1 \in ks THEN Append(f[k], s[k + 1]) ELSE f[k]
    BY <1>4, <2>2
  <2>4. CASE k + 1 \notin ks
    <3>a. \A j \in ks : j <= k + 1 <=> j <= k
      BY <1>k, <2>2, <2>4
    <3>1. {j \in ks : j <= k + 1} = {j \in ks : j <= k}
      BY <3>a, Zenon
    <3>2. Fine(f[k + 1], g, k + 1)
      BY <2>1, <2>3, <2>4, <3>1
    <3> QED
      BY <3>2
  <2>5. CASE k + 1 \in ks
    <3> DEFINE t == Append(f[k], s[k + 1])
               l == Len(f[k])
               h == [m \in 1 .. l + 1 |-> IF m = l + 1 THEN k + 1 ELSE g[m]]
               js == {j \in ks : j <= k + 1}
    <3>1. /\ f[k] \in Seq(S) /\ l \in Nat /\ s[k + 1] \in S
          /\ g \in [1 .. l -> {j \in ks : j <= k}]
      BY <1>0, <2>1, <2>2 DEF Lists
    <3>2. /\ t \in Seq(S) /\ Len(t) = l + 1
          /\ \A m \in 1 .. l + 1 : t[m] = IF m = l + 1 THEN s[k + 1] ELSE f[k][m]
      BY <3>1
    <3>3. /\ h[l + 1] = k + 1 /\ \A m \in 1 .. l : h[m] = g[m] /\ h[m] \in ks /\ h[m] <= k
      <4> HIDE DEF l
      <4> QED
        BY <3>1
    <3>4. \A m \in 1 .. l + 1 : m = l + 1 \/ m \in 1 .. l
      BY <3>1
    <3>5. h \in [1 .. l + 1 -> js]
      <4>1. \A m \in 1 .. l + 1 : h[m] \in js
        <5>1. \A m \in 1 .. l + 1 : h[m] \in ks /\ h[m] <= k + 1
          <6> HIDE DEF h, l, n
          <6>1. h[l + 1] \in ks /\ h[l + 1] <= k + 1
            BY <2>2, <2>5, <3>3
          <6>2. \A m \in 1 .. l : h[m] \in ks /\ h[m] <= k + 1
            <7> SUFFICES ASSUME NEW m \in 1 .. l PROVE h[m] \in ks /\ h[m] <= k + 1
              OBVIOUS
            <7>1. h[m] \in ks /\ h[m] <= k
              BY <3>3, Zenon
            <7>2. h[m] \in 1 .. n
              BY <1>k, <7>1, Zenon
            <7> QED
              BY <1>0, <2>2, <7>1, <7>2
          <6> QED
            BY <3>4, <6>1, <6>2, Zenon
        <5> HIDE DEF h, l
        <5> QED
          BY <5>1
      <4> QED
        BY <4>1
    <3> HIDE DEF t, l, h
    <3>6. \A m \in 1 .. l + 1 : t[m] = s[h[m]]
      BY <2>1, <3>2, <3>3, <3>4 DEF l
    <3>7. ASSUME NEW j \in js PROVE \E m \in 1 .. l + 1 : h[m] = j
      <4>1. CASE j = k + 1
        <5>1. l + 1 \in 1 .. l + 1
          BY <3>1
        <5> QED
          BY <3>3, <4>1, <5>1
      <4>2. CASE j # k + 1
        <5>1. j \in {i \in ks : i <= k}
          BY <2>2, <4>2
        <5>2. PICK m \in 1 .. l : g[m] = j
          BY <2>1, <5>1 DEF Lists, l
        <5> QED
          BY <3>1, <3>3, <5>2
      <4> QED
        BY <4>1, <4>2
    <3>8. ASSUME NEW i1 \in 1 .. l + 1, NEW i2 \in 1 .. l + 1, i1 < i2 PROVE h[i1] < h[i2]
      <4>1. i1 \in 1 .. l
        BY <3>1, <3>8
      <4>2. CASE i2 = l + 1
        <5>1. h[i1] \in 1 .. n /\ h[i1] <= k
          BY <3>3, <4>1
        <5> QED
          BY <2>2, <3>3, <4>2, <5>1
      <4>3. CASE i2 # l + 1
        <5>1. i2 \in 1 .. l
          BY <3>4, <4>3
        <5> QED
          BY <2>1, <3>3, <3>8, <4>1, <5>1 DEF Lists, l
      <4> QED
        BY <4>2, <4>3
    <3>9. Fine(t, h, k + 1)
      <4>1. Lists(h, js, l + 1)
        BY <3>1, <3>5, <3>7, <3>8 DEF Lists
      <4> QED
        BY <3>2, <3>6, <4>1
    <3> QED
      BY <2>3, <2>5, <3>9 DEF t
  <2> QED
    BY <2>4, <2>5
<1>7. Wrong \subseteq 0 .. n
  OBVIOUS
<1>8. Wrong = {}
  <2> HIDE DEF Wrong, n
  <2> QED
    BY <1>0, <1>5, <1>6, <1>7, Upward
<1>9. n \in 0 .. n
  BY <1>0
<1>10. PICK g : Fine(f[n], g, n)
  BY <1>8, <1>9
<1>a. \A j \in ks : j <= n
  BY <1>0, <1>k
<1>11. {j \in ks : j <= n} = ks
  BY <1>a, Zenon
<1> QED
  BY <1>3, <1>10, <1>11


\* the same, the listing of the positions in one word
Picks(a, s, ks) ==
  \E g : Lists(g, ks, Len(a)) /\ \A j \in 1 .. Len(a) : a[j] = s[g[j]]

LEMMA ChosenPicks ==
  ASSUME NEW S, NEW s \in Seq(S), NEW ks \in SUBSET (1 .. Len(s))
  PROVE  Picks(Chosen(s, ks), s, ks)
BY ChosenIs DEF Picks

\* Two choices are the same if one chooses, in the same order, lines that are those the
\* other chooses.
LEMMA SameChosen ==
  ASSUME NEW S, NEW s \in Seq(S), NEW ks \in SUBSET (1 .. Len(s)),
         NEW T, NEW t \in Seq(T), NEW js \in SUBSET (1 .. Len(t)), NEW g,
         \A j \in js : g[j] \in ks /\ t[j] = s[g[j]],
         \A k \in ks : \E j \in js : g[j] = k,
         \A i, j \in js : i < j => g[i] < g[j]
  PROVE  Chosen(t, js) = Chosen(s, ks)
<1> DEFINE a == Chosen(s, ks)
           b == Chosen(t, js)
<1>1. PICK d : Lists(d, ks, Len(a)) /\ \A j \in 1 .. Len(a) : a[j] = s[d[j]]
  <2>1. Picks(a, s, ks)
    BY ChosenPicks
  <2> QED
    BY <2>1 DEF Picks
<1>2. PICK e : Lists(e, js, Len(b)) /\ \A j \in 1 .. Len(b) : b[j] = t[e[j]]
  <2>1. Picks(b, t, js)
    BY ChosenPicks
  <2> QED
    BY <2>1 DEF Picks
<1>3. a \in Seq(S) /\ b \in Seq(T)
  BY ChosenIs
<1> HIDE DEF a, b
<1> DEFINE m == Len(b)
           c == [j \in 1 .. m |-> g[e[j]]]
<1>4. m \in Nat /\ e \in [1 .. m -> js]
  BY <1>2 DEF Lists
<1>5. \A j \in 1 .. m : e[j] \in js /\ c[j] = g[e[j]] /\ c[j] \in ks
  <2> HIDE DEF m
  <2> QED
    BY <1>4
<1>6. c \in [1 .. m -> ks]
  BY <1>5
<1> HIDE DEF c
<1>7. \A k \in ks : \E j \in 1 .. m : c[j] = k
  <2> SUFFICES ASSUME NEW k \in ks PROVE \E j \in 1 .. m : c[j] = k
    OBVIOUS
  <2>1. PICK i \in js : g[i] = k
    OBVIOUS
  <2>2. PICK j \in 1 .. m : e[j] = i
    BY <1>2 DEF Lists
  <2> QED
    BY <1>5, <2>1, <2>2
<1>8. \A i, j \in 1 .. m : i < j => c[i] < c[j]
  <2> SUFFICES ASSUME NEW i \in 1 .. m, NEW j \in 1 .. m, i < j PROVE c[i] < c[j]
    OBVIOUS
  <2>1. e[i] < e[j]
    BY <1>2 DEF Lists
  <2> QED
    BY <1>5, <2>1
<1>9. Lists(c, ks, m)
  BY <1>4, <1>6, <1>7, <1>8 DEF Lists
<1>10. ks \in SUBSET Nat
  OBVIOUS
<1>11. m = Len(a) /\ \A j \in 1 .. m : c[j] = d[j]
  <2>1. Lists(c, ks, m) /\ Lists(d, ks, Len(a))
    BY <1>1, <1>9
  <2>2. m = Len(a)
    BY <1>10, <2>1, OneList
  <2>3. \A j \in 1 .. m : c[j] = d[j]
    BY <1>10, <2>1, OneList
  <2> QED
    BY <2>2, <2>3
<1>12. \A j \in 1 .. m : b[j] = a[j]
  <2> SUFFICES ASSUME NEW j \in 1 .. m PROVE b[j] = a[j]
    OBVIOUS
  <2>1. b[j] = t[e[j]]
    BY <1>2, Zenon
  <2>2. a[j] = s[d[j]]
    BY <1>1, <1>11, Zenon
  <2>3. t[e[j]] = s[g[e[j]]] /\ d[j] = g[e[j]]
    BY <1>5, <1>11, Zenon
  <2> QED
    BY <2>1, <2>2, <2>3, Zenon
<1>13. DOMAIN a = 1 .. m /\ DOMAIN b = 1 .. m
  BY <1>3, <1>11
<1>14. a = [j \in 1 .. m |-> a[j]] /\ b = [j \in 1 .. m |-> b[j]]
  BY <1>3, <1>13
<1>15. a = b
  BY <1>12, <1>14
<1> QED
  BY <1>15 DEF a, b

\* the same, all that is assumed in one
SameLines(s, ks, t, js, g) ==
  /\ (\E S : s \in Seq(S)) /\ ks \in SUBSET (1 .. Len(s))
  /\ (\E T : t \in Seq(T)) /\ js \in SUBSET (1 .. Len(t))
  /\ \A j \in js : g[j] \in ks /\ t[j] = s[g[j]]
  /\ \A k \in ks : \E j \in js : g[j] = k
  /\ \A i, j \in js : i < j => g[i] < g[j]

LEMMA SameLinesChosen ==
  ASSUME NEW s, NEW ks, NEW t, NEW js, NEW g, SameLines(s, ks, t, js, g)
  PROVE  Chosen(t, js) = Chosen(s, ks)
<1>1. PICK S : s \in Seq(S)
  BY DEF SameLines
<1>2. PICK T : t \in Seq(T)
  BY DEF SameLines
<1>3. /\ ks \in SUBSET (1 .. Len(s)) /\ js \in SUBSET (1 .. Len(t))
      /\ \A j \in js : g[j] \in ks /\ t[j] = s[g[j]]
      /\ \A k \in ks : \E j \in js : g[j] = k
      /\ \A i, j \in js : i < j => g[i] < g[j]
  BY DEF SameLines
<1> QED
  BY <1>1, <1>2, <1>3, SameChosen

\* All lines are what there is.
LEMMA AllChosen ==
  ASSUME NEW S, NEW s \in Seq(S)
  PROVE  Chosen(s, 1 .. Len(s)) = s
<1> DEFINE n == Len(s)
           a == Chosen(s, 1 .. n)
           id == [j \in 1 .. n |-> j]
<1>0. n \in Nat /\ 1 .. n \in SUBSET (1 .. Len(s)) /\ 1 .. n \in SUBSET Nat
  OBVIOUS
<1>1. PICK d : Lists(d, 1 .. n, Len(a)) /\ \A j \in 1 .. Len(a) : a[j] = s[d[j]]
  <2>1. Picks(a, s, 1 .. n)
    BY <1>0, ChosenPicks
  <2> QED
    BY <2>1 DEF Picks
<1>2. a \in Seq(S)
  BY <1>0, ChosenIs
<1>3. Lists(id, 1 .. n, n) /\ \A j \in 1 .. n : id[j] = j
  <2> HIDE DEF n
  <2> QED
    BY <1>0 DEF Lists
<1> HIDE DEF a, id
<1>4. Len(a) = n /\ \A j \in 1 .. n : d[j] = id[j]
  <2>1. Lists(id, 1 .. n, n) /\ Lists(d, 1 .. n, Len(a))
    BY <1>1, <1>3, Zenon
  <2>2. n = Len(a) /\ \A j \in 1 .. n : id[j] = d[j]
    <3> HIDE DEF n
    <3>1. n = Len(a)
      BY <1>0, <2>1, OneList
    <3>2. \A j \in 1 .. n : id[j] = d[j]
      BY <1>0, <2>1, OneList
    <3> QED
      BY <3>1, <3>2
  <2> QED
    BY <2>2, Zenon
<1>5. \A j \in 1 .. n : a[j] = s[j]
  BY <1>1, <1>3, <1>4
<1>6. a = [j \in 1 .. n |-> a[j]] /\ s = [j \in 1 .. n |-> s[j]]
  BY <1>2, <1>4
<1>7. a = s
  BY <1>5, <1>6
<1> QED
  BY <1>7 DEF a

\* If each line tells the one of the same number in another sequence, so does each of
\* those that are chosen.
LEMMA ChosenEach ==
  ASSUME NEW S, NEW s \in Seq(S), NEW T, NEW t \in Seq(T), Len(s) = Len(t),
         NEW ks \in SUBSET (1 .. Len(s))
  PROVE  /\ Len(Chosen(s, ks)) = Len(Chosen(t, ks))
         /\ \A j \in 1 .. Len(Chosen(s, ks)) :
              \E k \in ks : Chosen(s, ks)[j] = s[k] /\ Chosen(t, ks)[j] = t[k]
<1> DEFINE a == Chosen(s, ks)
           b == Chosen(t, ks)
<1>1. PICK d : Lists(d, ks, Len(a)) /\ \A j \in 1 .. Len(a) : a[j] = s[d[j]]
  <2>1. Picks(a, s, ks)
    BY ChosenPicks
  <2> QED
    BY <2>1 DEF Picks
<1>2. PICK e : Lists(e, ks, Len(b)) /\ \A j \in 1 .. Len(b) : b[j] = t[e[j]]
  <2>1. Picks(b, t, ks)
    BY ChosenPicks
  <2> QED
    BY <2>1 DEF Picks
<1> HIDE DEF a, b
<1>3. ks \in SUBSET Nat
  OBVIOUS
<1>4. Len(a) = Len(b) /\ \A j \in 1 .. Len(a) : d[j] = e[j]
  <2>1. Lists(d, ks, Len(a)) /\ Lists(e, ks, Len(b))
    BY <1>1, <1>2, Zenon
  <2>3. Len(a) = Len(b)
    BY <1>3, <2>1, OneList
  <2>4. \A j \in 1 .. Len(a) : d[j] = e[j]
    BY <1>3, <2>1, OneList
  <2> QED
    BY <2>3, <2>4
<1>5. \A j \in 1 .. Len(a) : d[j] \in ks /\ a[j] = s[d[j]] /\ b[j] = t[d[j]]
  BY <1>1, <1>2, <1>4 DEF Lists
<1>6. \A j \in 1 .. Len(a) : \E k \in ks : a[j] = s[k] /\ b[j] = t[k]
  BY <1>5
<1> QED
  BY <1>4, <1>6 DEF a, b


-----------------------------------------------------------------------------
(***************************************************************************)
(* The markers that are open.                                              *)
(***************************************************************************)
\* What a line leaves open.
After(open, line, n) ==
  IF line.kind \in Starts THEN open \cup {n} ELSE IF line.kind = "lme" THEN Outer(open) ELSE open

\* A start marker opens a block, an end marker closes the innermost one, and the open
\* ones are start markers that have been passed.
LEMMA OpenIs ==
  ASSUME NEW s \in Seq(Line)
  PROVE  /\ Open(s)[0] = {}
         /\ \A n \in 1 .. Len(s) : Open(s)[n] = After(Open(s)[n - 1], s[n], n)
         /\ \A n \in 0 .. Len(s) : \A p \in Open(s)[n] :
              p \in 1 .. n /\ p \in 1 .. Len(s) /\ s[p].kind \in Starts
<1> DEFINE m == Len(s)
           next == [n \in 1 .. m |-> [open \in SUBSET Nat |-> After(open, s[n], n)]]
           Def(f) == f = [n \in 0 .. m |->
                            IF n = 0 THEN {}
                            ELSE CASE s[n].kind \in Starts -> f[n - 1] \cup {n}
                                   [] s[n].kind = "lme"    -> Outer(f[n - 1])
                                   [] s[n].kind = "stmt"   -> f[n - 1]]
           f == CHOOSE f : Def(f)
<1>0. m \in Nat /\ \A n \in 1 .. m : s[n] \in Line
  OBVIOUS
<1>1. \A n \in 1 .. m : s[n].kind \in {"lms", "lmx", "lme", "stmt"}
  BY <1>0 DEF Line
<1>c. ASSUME NEW n \in 1 .. m, NEW open
      PROVE  (CASE s[n].kind \in Starts -> open \cup {n}
                [] s[n].kind = "lme"    -> Outer(open)
                [] s[n].kind = "stmt"   -> open) = After(open, s[n], n)
  BY <1>1 DEF After, Starts
<1>2. \E x : Def(x)
  <2>1. \A n \in 1 .. m : next[n] \in [SUBSET Nat -> SUBSET Nat]
    <3>1. \A n \in 1 .. m : \A open \in SUBSET Nat : After(open, s[n], n) \in SUBSET Nat
      <4> SUFFICES ASSUME NEW n \in 1 .. m, NEW open \in SUBSET Nat
                   PROVE  After(open, s[n], n) \in SUBSET Nat
        OBVIOUS
      <4>1. n \in Nat
        BY <1>0
      <4>2. Outer(open) \in SUBSET Nat /\ open \cup {n} \in SUBSET Nat
        BY <4>1 DEF Outer
      <4> QED
        BY <4>2, Zenon DEF After
    <3> QED
      BY <3>1
  <2>2. \A n \in 1 .. m : \A open \in SUBSET Nat : next[n][open] = After(open, s[n], n)
    OBVIOUS
  <2>3. {} \in SUBSET Nat
    OBVIOUS
  <2> HIDE DEF next, m
  <2>4. PICK x : Follows(x, m, SUBSET Nat, {}, next)
    BY <1>0, <2>1, <2>3, SomeFollows
  <2>5. x \in [0 .. m -> SUBSET Nat] /\ x[0] = {} /\ \A k \in 1 .. m : x[k] = next[k][x[k - 1]]
    BY <2>4 DEF Follows
  <2>6. ASSUME NEW k \in 0 .. m
        PROVE  x[k] = IF k = 0 THEN {} ELSE CASE s[k].kind \in Starts -> x[k - 1] \cup {k}
                                              [] s[k].kind = "lme"    -> Outer(x[k - 1])
                                              [] s[k].kind = "stmt"   -> x[k - 1]
    <3>1. CASE k = 0
      BY <2>5, <3>1
    <3>2. CASE k # 0
      <4>1. k \in 1 .. m /\ k - 1 \in 0 .. m
        BY <1>0, <3>2
      <4>2. x[k - 1] \in SUBSET Nat
        BY <2>5, <4>1
      <4>3. x[k] = After(x[k - 1], s[k], k)
        BY <2>2, <2>5, <4>1, <4>2
      <4> QED
        BY <1>c, <3>2, <4>1, <4>3
    <3> QED
      BY <3>1, <3>2
  <2>7. x = [k \in 0 .. m |-> x[k]]
    BY <2>5
  <2>8. Def(x)
    BY <2>6, <2>7
  <2> QED
    BY <2>8
<1>3. Def(f)
  BY <1>2
<1>4. Open(s) = f
  BY DEF Open
<1> HIDE DEF f
<1>5. f[0] = {} /\ \A n \in 1 .. m : f[n] = After(f[n - 1], s[n], n)
  <2> HIDE DEF m
  <2>1. \A k \in 0 .. m : f[k] = IF k = 0 THEN {} ELSE CASE s[k].kind \in Starts -> f[k - 1] \cup {k}
                                              [] s[k].kind = "lme"    -> Outer(f[k - 1])
                                              [] s[k].kind = "stmt"   -> f[k - 1]
    BY <1>3
  <2>2. ASSUME NEW k \in 1 .. m PROVE f[k] = After(f[k - 1], s[k], k)
    <3>1. k \in 0 .. m /\ k # 0
      BY <1>0
    <3> QED
      BY <1>c, <2>1, <3>1
  <2>3. 0 \in 0 .. m
    BY <1>0
  <2> QED
    BY <2>1, <2>2, <2>3
<1> HIDE DEF m
<1> DEFINE Wrong == {n \in 0 .. m : ~\A p \in f[n] : p \in 1 .. n /\ p \in 1 .. m /\ s[p].kind \in Starts}
<1>6. 0 \notin Wrong
  BY <1>5
<1>7. ASSUME NEW n \in 0 .. m, n # m, n \notin Wrong PROVE n + 1 \notin Wrong
  <2>1. n + 1 \in 1 .. m /\ n + 1 - 1 = n /\ n \in Nat
    BY <1>0, <1>7
  <2>2. f[n + 1] = After(f[n], s[n + 1], n + 1)
    BY <1>5, <2>1
  <2>3. \A p \in f[n] : p \in 1 .. n /\ p \in 1 .. m /\ s[p].kind \in Starts
    BY <1>7
  <2>4. \A p \in f[n + 1] : p \in f[n] \/ (p = n + 1 /\ s[n + 1].kind \in Starts)
    BY <2>2 DEF After, Outer
  <2>5. \A p \in f[n + 1] : p \in 1 .. n + 1 /\ p \in 1 .. m /\ s[p].kind \in Starts
    BY <2>1, <2>3, <2>4
  <2> QED
    BY <2>5
<1>8. Wrong \subseteq 0 .. m
  OBVIOUS
<1>9. Wrong = {}
  <2> HIDE DEF Wrong
  <2> QED
    BY <1>0, <1>6, <1>7, <1>8, Upward
<1>10. \A n \in 0 .. m : \A p \in f[n] : p \in 1 .. n /\ p \in 1 .. m /\ s[p].kind \in Starts
  BY <1>9
<1> QED
  BY <1>4, <1>5, <1>10 DEF m

\* What is open behind a line depends on the lines up to there.
LEMMA OpenPrefix ==
  ASSUME NEW s \in Seq(Line), NEW t \in Seq(Line), Len(s) <= Len(t),
         \A n \in 1 .. Len(s) : s[n] = t[n]
  PROVE  \A n \in 0 .. Len(s) : Open(s)[n] = Open(t)[n]
<1> DEFINE m == Len(s)
           a == Open(s)
           b == Open(t)
           Wrong == {n \in 0 .. m : a[n] # b[n]}
<1>0. m \in Nat /\ \A n \in 1 .. m : n \in 1 .. Len(t)
  OBVIOUS
<1>1. a[0] = {} /\ \A n \in 1 .. m : a[n] = After(a[n - 1], s[n], n)
  BY OpenIs
<1>2. b[0] = {} /\ \A n \in 1 .. m : b[n] = After(b[n - 1], t[n], n)
  BY <1>0, OpenIs
<1> HIDE DEF a, b
<1>3. 0 \notin Wrong
  BY <1>1, <1>2
<1>4. ASSUME NEW n \in 0 .. m, n # m, n \notin Wrong PROVE n + 1 \notin Wrong
  <2>1. n + 1 \in 1 .. m /\ n + 1 - 1 = n
    BY <1>0, <1>4
  <2>2. a[n] = b[n] /\ s[n + 1] = t[n + 1]
    BY <1>4, <2>1
  <2>3. a[n + 1] = b[n + 1]
    BY <1>1, <1>2, <2>1, <2>2
  <2> QED
    BY <2>3
<1>5. Wrong \subseteq 0 .. m
  OBVIOUS
<1>6. Wrong = {}
  <2> HIDE DEF Wrong, m
  <2> QED
    BY <1>0, <1>3, <1>4, <1>5, Upward
<1>7. \A n \in 0 .. m : a[n] = b[n]
  BY <1>6
<1> QED
  BY <1>7 DEF a, b

IsLast(p, open) == p \in open /\ \A q \in open : q <= p

\* If a block is open there is an innermost one.
LEMMA HasLast ==
  ASSUME NEW n \in Nat, NEW open \in SUBSET (1 .. n), open # {}
  PROVE  \E p : IsLast(p, open)
<1> DEFINE T == {n - p : p \in open}
<1>0. \A p \in open : p \in 1 .. n
  OBVIOUS
<1>1. T \in SUBSET Nat /\ T # {}
  <2>1. \A p \in open : n - p \in Nat
    BY <1>0
  <2> QED
    BY <2>1
<1>2. PICK x \in T : \A y \in T : x <= y
  <2> HIDE DEF T
  <2> QED
    BY <1>1, LeastNat, Zenon
<1>3. PICK p \in open : x = n - p
  BY <1>2
<1>4. \A q \in open : n - p <= n - q
  BY <1>2, <1>3
<1>5. \A q \in open : q \in Int /\ p \in Int
  BY <1>0
<1>6. \A q \in open : q <= p
  BY <1>4, <1>5
<1> QED
  BY <1>6 DEF IsLast

\* After line n of a file, and after k of the lines that are left of it, the same
\* blocks are open, but for those whose markers were taken out.
Mirrors(g, new, old, ks) ==
  /\ \A q \in new : g[q] \in old
  /\ \A p \in old : p \in ks => \E q \in new : g[q] = p

Fits(g, k, n, m) == (k = 0 \/ g[k] <= n) /\ (k = m \/ n < g[k + 1])

\* This is so if markers are taken out in pairs.
LEMMA Thinned ==
  ASSUME NEW s \in Seq(Line), NEW ks \in SUBSET (1 .. Len(s)), NEW t \in Seq(Line), NEW g,
         Lists(g, ks, Len(t)), \A k \in 1 .. Len(t) : t[k] = s[g[k]],
         \A e \in 1 .. Len(s) : s[e].kind = "lme" =>
           \A p \in Open(s)[e - 1] : IsLast(p, Open(s)[e - 1]) => (e \in ks <=> p \in ks)
  PROVE  \A n \in 0 .. Len(s) : \A k \in 0 .. Len(t) :
           Fits(g, k, n, Len(t)) => Mirrors(g, Open(t)[k], Open(s)[n], ks)
<1> DEFINE l == Len(s)
           m == Len(t)
           a == Open(s)
           b == Open(t)
           Wrong == {n \in 0 .. l : ~\A k \in 0 .. m : Fits(g, k, n, m) => Mirrors(g, b[k], a[n], ks)}
<1>0. l \in Nat /\ m \in Nat
  OBVIOUS
<1>1. /\ a[0] = {} /\ \A n \in 1 .. l : a[n] = After(a[n - 1], s[n], n)
      /\ \A n \in 0 .. l : \A p \in a[n] : p \in 1 .. n
  BY OpenIs
<1>2. /\ b[0] = {} /\ \A k \in 1 .. m : b[k] = After(b[k - 1], t[k], k)
      /\ \A k \in 0 .. m : \A q \in b[k] : q \in 1 .. k
  BY OpenIs
<1>3. /\ \A k \in 1 .. m : g[k] \in ks /\ g[k] \in 1 .. l /\ t[k] = s[g[k]]
      /\ \A p \in ks : p \in 1 .. l /\ \E k \in 1 .. m : g[k] = p
      /\ \A j, k \in 1 .. m : j < k => g[j] < g[k]
  BY DEF Lists
<1>4. \A e \in 1 .. l : s[e].kind = "lme" =>
        \A p \in a[e - 1] : IsLast(p, a[e - 1]) => (e \in ks <=> p \in ks)
  OBVIOUS
<1> HIDE DEF a, b, l, m
<1>5. 0 \notin Wrong
  <2> SUFFICES ASSUME NEW k \in 0 .. m, Fits(g, k, 0, m) PROVE Mirrors(g, b[k], a[0], ks)
    OBVIOUS
  <2>1. k = 0
    <3>1. ASSUME k # 0 PROVE FALSE
      <4>1. k \in 1 .. m /\ g[k] <= 0
        BY <1>0, <3>1 DEF Fits
      <4> QED
        BY <1>0, <1>3, <4>1
    <3> QED
      BY <3>1
  <2> QED
    BY <1>1, <1>2, <2>1 DEF Mirrors
<1>6. ASSUME NEW n \in 0 .. l, n # l, n \notin Wrong PROVE n + 1 \notin Wrong
  <2> SUFFICES ASSUME NEW k \in 0 .. m, Fits(g, k, n + 1, m) PROVE Mirrors(g, b[k], a[n + 1], ks)
    OBVIOUS
  <2> DEFINE e == n + 1
  <2>1. e \in 1 .. l /\ e - 1 = n /\ n \in Nat /\ n \in 0 .. l
    BY <1>0, <1>6
  <2>2. a[e] = After(a[n], s[e], e)
    BY <1>1, <2>1
  <2>3. \A j \in 0 .. m : Fits(g, j, n, m) => Mirrors(g, b[j], a[n], ks)
    BY <1>6
  <2>4. \A p \in a[n] : p \in 1 .. n
    BY <1>1, <2>1
  <2>4a. s[e].kind = "lme" => \A p \in a[n] : IsLast(p, a[n]) => (e \in ks <=> p \in ks)
    BY <1>4, <2>1
  <2>5. CASE e \in ks
    <3>1. PICK j \in 1 .. m : g[j] = e
      BY <1>3, <2>5
    <3>2. j = k
      <4>1. k # 0 => k \in 1 .. m /\ g[k] <= e
        BY <1>0 DEF Fits
      <4>2. k # m => k + 1 \in 1 .. m /\ e < g[k + 1]
        BY <1>0 DEF Fits
      <4>3. ~(j > k)
        <5> SUFFICES ASSUME j > k PROVE FALSE
          OBVIOUS
        <5>1. k + 1 \in 1 .. m /\ e < g[k + 1] /\ (k + 1 = j \/ k + 1 < j)
          BY <1>0, <3>1, <4>2
        <5>2. g[k + 1] <= g[j] /\ g[k + 1] \in 1 .. l
          BY <1>3, <3>1, <5>1
        <5> QED
          BY <1>0, <2>1, <3>1, <5>1, <5>2
      <4>4. ~(j < k)
        <5> SUFFICES ASSUME j < k PROVE FALSE
          OBVIOUS
        <5>1. k \in 1 .. m /\ g[k] <= e
          BY <1>0, <3>1, <4>1
        <5>2. g[j] < g[k] /\ g[k] \in 1 .. l
          BY <1>3, <3>1, <5>1
        <5> QED
          BY <1>0, <2>1, <3>1, <5>1, <5>2
      <4> QED
        BY <1>0, <3>1, <4>3, <4>4
    <3>3. k \in 1 .. m /\ g[k] = e /\ t[k] = s[e] /\ k - 1 \in 0 .. m /\ k - 1 + 1 = k
      BY <1>0, <1>3, <3>1, <3>2
    <3>4. Fits(g, k - 1, n, m)
      <4>1. k - 1 # 0 => k - 1 \in 1 .. m /\ k - 1 < k
        BY <1>0, <3>3
      <4>2. k - 1 # 0 => g[k - 1] < e /\ g[k - 1] \in 1 .. l
        BY <1>3, <3>3, <4>1
      <4>3. k - 1 # 0 => g[k - 1] <= n
        BY <1>0, <2>1, <4>2
      <4>4. n < g[k - 1 + 1]
        BY <2>1, <3>3
      <4> QED
        BY <4>3, <4>4 DEF Fits
    <3>5. Mirrors(g, b[k - 1], a[n], ks)
      BY <2>3, <3>3, <3>4
    <3>6. b[k] = After(b[k - 1], s[e], k)
      BY <1>2, <3>3
    <3>7. \A q \in b[k - 1] : q \in 1 .. k - 1 /\ q \in 1 .. m /\ g[q] \in ks
      <4>1. \A q \in b[k - 1] : q \in 1 .. k - 1
        BY <1>2, <3>3
      <4>2. \A q \in 1 .. k - 1 : q \in 1 .. m
        BY <1>0, <3>3
      <4> QED
        BY <1>3, <4>1, <4>2
    <3> HIDE DEF e
    <3>8. CASE s[e].kind \in Starts
      <4>1. b[k] = b[k - 1] \cup {k} /\ a[e] = a[n] \cup {e}
        BY <2>2, <3>6, <3>8 DEF After
      <4>2. Mirrors(g, b[k], a[e], ks)
        BY <3>3, <3>5, <4>1 DEF Mirrors
      <4> QED
        BY <4>2 DEF e
    <3>9. CASE s[e].kind = "lme"
      <4>1. b[k] = Outer(b[k - 1]) /\ a[e] = Outer(a[n])
        BY <2>2, <3>6, <3>9 DEF After, Starts
      <4>2. ASSUME NEW q \in b[k] PROVE g[q] \in a[e]
        <5>1. PICK r \in b[k - 1] : q < r /\ q \in b[k - 1]
          BY <4>1, <4>2 DEF Outer
        <5>2. g[q] < g[r] /\ g[q] \in a[n] /\ g[r] \in a[n]
          BY <1>3, <3>5, <3>7, <5>1 DEF Mirrors
        <5> QED
          BY <4>1, <5>2 DEF Outer
      <4>3. ASSUME NEW p \in a[e], p \in ks PROVE \E q \in b[k] : g[q] = p
        <5>1. p \in a[n] /\ a[n] # {} /\ a[n] \in SUBSET (1 .. n)
          BY <2>4, <4>1, <4>3 DEF Outer
        <5>2. PICK r : IsLast(r, a[n])
          BY <2>1, <5>1, HasLast
        <5>3. r \in a[n] /\ r \in ks /\ p < r
          <6>1. PICK r1 \in a[n] : p < r1
            BY <4>1, <4>3 DEF Outer
          <6>2. r \in a[n] /\ r1 <= r
            BY <5>2, <6>1 DEF IsLast
          <6>3. p \in Int /\ r1 \in Int /\ r \in Int
            BY <2>4, <5>1, <6>1, <6>2
          <6>4. r \in ks
            BY <2>4a, <2>5, <3>9, <5>2, <6>2
          <6> QED
            BY <6>1, <6>2, <6>3, <6>4
        <5>4. PICK q \in b[k - 1] : g[q] = p
          BY <3>5, <4>3, <5>1 DEF Mirrors
        <5>5. PICK q1 \in b[k - 1] : g[q1] = r
          BY <3>5, <5>3 DEF Mirrors
        <5>6. q < q1
          <6>1. q \in 1 .. m /\ q1 \in 1 .. m
            BY <3>7, <5>4, <5>5
          <6>2. ~(q1 < q) /\ q1 # q
            <7>1. q1 < q => g[q1] < g[q]
              BY <1>3, <6>1
            <7>2. p \in Int /\ r \in Int
              BY <2>4, <5>1, <5>3
            <7> QED
              BY <5>3, <5>4, <5>5, <7>1, <7>2
          <6> QED
            BY <1>0, <6>1, <6>2
        <5>7. q \in b[k]
          BY <4>1, <5>4, <5>5, <5>6 DEF Outer
        <5> QED
          BY <5>4, <5>7
      <4>4. Mirrors(g, b[k], a[e], ks)
        BY <4>2, <4>3 DEF Mirrors
      <4> QED
        BY <4>4 DEF e
    <3>10. CASE s[e].kind \notin Starts /\ s[e].kind # "lme"
      <4>1. b[k] = b[k - 1] /\ a[e] = a[n]
        BY <2>2, <3>6, <3>10 DEF After
      <4>2. Mirrors(g, b[k], a[e], ks)
        BY <3>5, <4>1
      <4> QED
        BY <4>2 DEF e
    <3> QED
      BY <3>8, <3>9, <3>10
  <2>6. CASE e \notin ks
    <3>1. Fits(g, k, n, m)
      <4>1. k # 0 => k \in 1 .. m /\ g[k] <= e
        BY <1>0 DEF Fits
      <4>2. k # m => k + 1 \in 1 .. m /\ e < g[k + 1]
        BY <1>0 DEF Fits
      <4>3. k # 0 => g[k] # e /\ g[k] \in Int
        BY <1>3, <2>6, <4>1
      <4>4. k # m => g[k + 1] \in Int
        BY <1>3, <4>2
      <4>5. (k # 0 => g[k] <= n) /\ (k # m => n < g[k + 1])
        BY <2>1, <4>1, <4>2, <4>3, <4>4
      <4> QED
        BY <4>5 DEF Fits
    <3>2. Mirrors(g, b[k], a[n], ks)
      BY <2>3, <3>1
    <3> HIDE DEF e
    <3>3. \A p \in a[e] : p \in a[n] \/ p = e
      BY <2>2 DEF After, Outer
    <3>4. \A q \in b[k] : q \in 1 .. m /\ g[q] \in ks
      <4>1. \A q \in b[k] : q \in 1 .. k
        BY <1>2
      <4>2. \A q \in 1 .. k : q \in 1 .. m
        BY <1>0
      <4> QED
        BY <1>3, <4>1, <4>2
    <3>5. ASSUME NEW p \in a[n], p \in ks PROVE p \in a[e]
      <4>1. CASE s[e].kind \in Starts
        BY <2>2, <3>5, <4>1 DEF After
      <4>2. CASE s[e].kind = "lme"
        <5>1. a[e] = Outer(a[n])
          BY <2>2, <4>2 DEF After, Starts
        <5>2. ~IsLast(p, a[n])
          BY <2>4a, <2>6, <3>5, <4>2
        <5>3. PICK q \in a[n] : ~(q <= p)
          BY <3>5, <5>2 DEF IsLast
        <5>4. p \in Int /\ q \in Int
          BY <2>4, <3>5, <5>3
        <5>5. p < q
          BY <5>3, <5>4
        <5> QED
          BY <3>5, <5>1, <5>3, <5>5 DEF Outer
      <4>3. CASE s[e].kind \notin Starts /\ s[e].kind # "lme"
        BY <2>2, <3>5, <4>3 DEF After
      <4> QED
        BY <4>1, <4>2, <4>3
    <3>6. \A p \in a[e] : p \in ks => \E q \in b[k] : g[q] = p
      BY <2>6, <3>2, <3>3 DEF Mirrors
    <3>7. \A q \in b[k] : g[q] \in a[e]
      BY <3>2, <3>4, <3>5 DEF Mirrors
    <3>8. Mirrors(g, b[k], a[e], ks)
      BY <3>6, <3>7 DEF Mirrors
    <3> QED
      BY <3>8 DEF e
  <2> QED
    BY <2>5, <2>6
<1>7. Wrong \subseteq 0 .. l
  OBVIOUS
<1>8. Wrong = {}
  <2> HIDE DEF Wrong
  <2> QED
    BY <1>0, <1>5, <1>6, <1>7, Upward
<1>9. \A n \in 0 .. l : \A k \in 0 .. m : Fits(g, k, n, m) => Mirrors(g, b[k], a[n], ks)
  BY <1>8
<1> QED
  BY <1>9 DEF a, b, l, m


\* A block that is open at one line and not at a later one was closed between them.
LEMMA Closes ==
  ASSUME NEW s \in Seq(Line), NEW n \in 0 .. Len(s), NEW k \in 0 .. n,
         NEW p \in Open(s)[k], p \notin Open(s)[n]
  PROVE  \E e \in k + 1 .. n : s[e].kind = "lme" /\ IsLast(p, Open(s)[e - 1])
<1> DEFINE a == Open(s)
           T == {x \in k .. n : p \notin a[x]}
<1>0. n \in Nat /\ k \in Nat /\ Len(s) \in Nat /\ k \in 0 .. Len(s)
  OBVIOUS
<1>1. \A x \in 1 .. Len(s) : a[x] = After(a[x - 1], s[x], x)
  BY OpenIs
<1>2. \A x \in 0 .. Len(s) : \A q \in a[x] : q \in 1 .. x
  BY OpenIs
<1>3. p \in a[k] /\ p \notin a[n]
  OBVIOUS
<1> HIDE DEF a
<1>4. T \in SUBSET Nat /\ T # {}
  BY <1>0, <1>3
<1>5. PICK x \in T : \A y \in T : x <= y
  <2> HIDE DEF T
  <2> QED
    BY <1>4, LeastNat, Zenon
<1>6. /\ x \in k + 1 .. n /\ x \in 1 .. Len(s) /\ x - 1 \in k .. n /\ x - 1 \in 0 .. Len(s)
      /\ p \notin a[x]
  BY <1>0, <1>3, <1>5
<1>7. p \in a[x - 1]
  <2>1. ~(x <= x - 1)
    BY <1>6
  <2> QED
    BY <1>5, <1>6, <2>1
<1>8. p \notin After(a[x - 1], s[x], x)
  BY <1>1, <1>6
<1>9. s[x].kind = "lme" /\ p \notin Outer(a[x - 1])
  BY <1>7, <1>8 DEF After
<1>10. \A q \in a[x - 1] : ~(p < q)
  BY <1>7, <1>9 DEF Outer
<1>11. \A q \in a[x - 1] : q \in Int /\ p \in Int
  <2>1. \A q \in a[x - 1] : q \in 1 .. x - 1
    BY <1>2, <1>6
  <2> QED
    BY <1>7, <2>1
<1>12. IsLast(p, a[x - 1])
  BY <1>7, <1>10, <1>11 DEF IsLast
<1> QED
  BY <1>6, <1>9, <1>12 DEF a

\* The stack holds the markers that are open, and an end marker is the partner of the
\* innermost one.
StackIsOpen == \A p : p \in Open(lines)[idx - 1] <=> \E d \in 1 .. Len(stk) : stk[d] = p
Partners    == \A e \in 1 .. idx - 1 : Kind(e) = "lme" => IsLast(partner[e], Open(lines)[e - 1])
NestInv     == StackIsOpen /\ Partners /\ (pc = "marked" => idx = Len(lines) + 1)

LEMMA NestBegins ==
  (\E input \in Seq(Line) : MarkInit(input)) => MarkInv /\ NestInv
<1> SUFFICES ASSUME NEW input \in Seq(Line), MarkInit(input) PROVE MarkInv /\ NestInv
  OBVIOUS
<1>2. /\ lines = input /\ idx = 1 /\ stk = <<>> /\ pc = "mark" /\ Len(stk) = 0 /\ idx - 1 = 0
      /\ lines \in Seq(Line)
  BY DEF MarkInit
<1>3. MarkTypeOK
  BY <1>2 DEF MarkTypeOK, MarkInit
<1>4. StackAscends /\ OpenRight /\ ClosedRight
  BY <1>2 DEF StackAscends, OpenRight, ClosedRight
<1>5. StatementsKept
  BY <1>2 DEF StatementsKept, MarkInit
<1>6. Open(lines)[0] = {}
  BY <1>2, OpenIs
<1>7. NestInv
  BY <1>2, <1>6 DEF NestInv, StackIsOpen, Partners
<1> QED
  BY <1>3, <1>4, <1>5, <1>7 DEF MarkInv

LEMMA NestStep == MarkInv /\ NestInv /\ [MarkNext]_markVars => NestInv'
<1> SUFFICES ASSUME MarkInv, NestInv, [MarkNext]_markVars PROVE NestInv'
  OBVIOUS
<1> DEFINE n == Len(stk)
<1>0. /\ lines \in Seq(Line) /\ idx \in 1 .. Len(lines) + 1 /\ stk \in Seq(1 .. Len(lines))
      /\ Len(lines) \in Nat /\ n \in Nat
      /\ \A d \in 1 .. n : stk[d] \in 1 .. Len(lines) /\ stk[d] < idx
      /\ \A d, e \in 1 .. n : d < e => stk[d] < stk[e]
      /\ partner \in [1 .. Len(lines) -> 0 .. Len(lines)]
  BY DEF MarkInv, MarkTypeOK, StackAscends
<1>1. \A k \in 1 .. Len(lines) : Open(lines)[k] = After(Open(lines)[k - 1], lines[k], k)
  BY <1>0, OpenIs
<1> DEFINE a == Open(lines)
<1>2. \A p : p \in a[idx - 1] <=> \E d \in 1 .. n : stk[d] = p
  BY DEF NestInv, StackIsOpen
<1>3. \A e \in 1 .. idx - 1 : Kind(e) = "lme" => IsLast(partner[e], a[e - 1])
  BY DEF NestInv, Partners
<1>4. CASE StartMarker
  <2>1. /\ idx \in 1 .. Len(lines) /\ lines[idx].kind \in Starts
        /\ lines' = lines /\ idx' = idx + 1 /\ pc' = pc /\ pc = "mark" /\ idx' - 1 = idx
        /\ partner' = partner /\ stk' = Append(stk, idx)
    BY <1>0, <1>4 DEF StartMarker, Advance, Pushed, Kind
  <2>2. Len(stk') = n + 1 /\ stk'[n + 1] = idx /\ \A d \in 1 .. n : stk'[d] = stk[d]
    BY <1>0, <2>1
  <2>3. a[idx] = a[idx - 1] \cup {idx}
    BY <1>1, <2>1 DEF After
  <2> HIDE DEF a, n
  <2>4. \A p : p \in a[idx] <=> \E d \in 1 .. n + 1 : stk'[d] = p
    <3>1. n + 1 \in 1 .. n + 1 /\ \A d \in 1 .. n + 1 : d = n + 1 \/ d \in 1 .. n
      BY <1>0
    <3>2. \A d \in 1 .. n : d \in 1 .. n + 1
      BY <1>0
    <3> SUFFICES ASSUME NEW p PROVE p \in a[idx] <=> \E d \in 1 .. n + 1 : stk'[d] = p
      OBVIOUS
    <3>3. ASSUME p \in a[idx] PROVE \E d \in 1 .. n + 1 : stk'[d] = p
      BY <1>2, <2>2, <2>3, <3>1, <3>2, <3>3
    <3>4. ASSUME NEW d \in 1 .. n + 1, stk'[d] = p PROVE p \in a[idx]
      BY <1>2, <2>2, <2>3, <3>1, <3>4
    <3> QED
      BY <3>3, <3>4
  <2>5. \A e \in 1 .. idx : lines[e].kind = "lme" => IsLast(partner[e], a[e - 1])
    <3>1. \A e \in 1 .. idx : e = idx \/ e \in 1 .. idx - 1
      BY <2>1
    <3> QED
      BY <1>3, <2>1, <3>1 DEF Kind, Starts
  <2> QED
    BY <2>1, <2>2, <2>4, <2>5 DEF NestInv, StackIsOpen, Partners, Kind, a, n
<1>5. CASE EndMarker
  <2>1. /\ idx \in 1 .. Len(lines) /\ lines[idx].kind = "lme" /\ stk # <<>>
        /\ lines' = lines /\ idx' = idx + 1 /\ pc' = pc /\ pc = "mark" /\ idx' - 1 = idx
        /\ partner' = [partner EXCEPT ![idx] = Top] /\ stk' = Pop(stk)
    BY <1>0, <1>5 DEF EndMarker, Advance, Kind
  <2>2. Len(stk') = n - 1 /\ n \in Nat \ {0} /\ \A d \in 1 .. n - 1 : stk'[d] = stk[d]
    <3>1. Len(Pop(stk)) = n - 1 /\ \A d \in 1 .. n - 1 : Pop(stk)[d] = stk[d]
      BY <1>0, <2>1, PopFun
    <3>2. n # 0
      BY <1>0, <2>1
    <3> QED
      BY <1>0, <2>1, <3>1, <3>2
  <2>3. a[idx] = Outer(a[idx - 1])
    BY <1>1, <2>1 DEF After, Starts
  <2>4. partner'[idx] = stk[n] /\ \A e \in 1 .. Len(lines) : e # idx => partner'[e] = partner[e]
    BY <1>0, <2>1 DEF Top
  <2> HIDE DEF a, n
  <2>5. n \in 1 .. n /\ \A d \in 1 .. n : d = n \/ (d \in 1 .. n - 1 /\ d < n)
    BY <2>2
  <2>6. \A d \in 1 .. n : stk[d] \in Int /\ stk[d] <= stk[n]
    BY <1>0, <2>5
  <2>7. IsLast(stk[n], a[idx - 1])
    <3>1. stk[n] \in a[idx - 1]
      BY <1>2, <2>5
    <3>2. \A q \in a[idx - 1] : q <= stk[n]
      BY <1>2, <2>6
    <3> QED
      BY <3>1, <3>2 DEF IsLast
  <2>8. \A p : p \in a[idx] <=> \E d \in 1 .. n - 1 : stk'[d] = p
    <3> SUFFICES ASSUME NEW p PROVE p \in a[idx] <=> \E d \in 1 .. n - 1 : stk'[d] = p
      OBVIOUS
    <3>1. ASSUME p \in a[idx] PROVE \E d \in 1 .. n - 1 : stk'[d] = p
      <4>1. PICK q \in a[idx - 1] : p < q /\ p \in a[idx - 1]
        BY <2>3, <3>1 DEF Outer
      <4>2. PICK d \in 1 .. n : stk[d] = p
        BY <1>2, <4>1
      <4>3. PICK e \in 1 .. n : stk[e] = q
        BY <1>2, <4>1
      <4>4. d # n
        BY <2>6, <4>1, <4>2, <4>3
      <4> QED
        BY <2>2, <2>5, <4>2, <4>4
    <3>2. ASSUME NEW d \in 1 .. n - 1, stk'[d] = p PROVE p \in a[idx]
      <4>1. d \in 1 .. n /\ d < n /\ stk[d] = p
        BY <2>2, <3>2
      <4>2. p \in a[idx - 1] /\ p < stk[n] /\ stk[n] \in a[idx - 1]
        BY <1>0, <1>2, <2>5, <4>1
      <4> QED
        BY <2>3, <4>2 DEF Outer
    <3> QED
      BY <3>1, <3>2
  <2>9. \A e \in 1 .. idx : lines[e].kind = "lme" => IsLast(partner'[e], a[e - 1])
    <3>1. \A e \in 1 .. idx : e = idx \/ (e \in 1 .. idx - 1 /\ e # idx /\ e \in 1 .. Len(lines))
      BY <1>0, <2>1
    <3> QED
      BY <1>3, <2>4, <2>7, <3>1 DEF Kind
  <2> QED
    BY <2>1, <2>2, <2>8, <2>9 DEF NestInv, StackIsOpen, Partners, Kind, a, n
<1>6. CASE Statement
  <2>1. /\ idx \in 1 .. Len(lines) /\ lines[idx].kind = "stmt"
        /\ lines' = lines /\ idx' = idx + 1 /\ pc' = pc /\ pc = "mark" /\ idx' - 1 = idx
        /\ partner' = partner /\ stk' = stk
    BY <1>0, <1>6 DEF Statement, Advance, Kind
  <2>2. a[idx] = a[idx - 1]
    BY <1>1, <2>1 DEF After, Starts
  <2> HIDE DEF a, n
  <2>3. \A e \in 1 .. idx : lines[e].kind = "lme" => IsLast(partner[e], a[e - 1])
    <3>1. \A e \in 1 .. idx : e = idx \/ e \in 1 .. idx - 1
      BY <2>1
    <3> QED
      BY <1>3, <2>1, <3>1 DEF Kind
  <2> QED
    BY <1>2, <2>1, <2>2, <2>3 DEF NestInv, StackIsOpen, Partners, Kind, a, n
<1>7. CASE Unbalanced \/ EndOfLines \/ UNCHANGED markVars
  <2>1. /\ lines' = lines /\ idx' = idx /\ stk' = stk /\ partner' = partner
        /\ pc' = "marked" => idx = Len(lines) + 1
    <3>1. lines' = lines /\ idx' = idx /\ stk' = stk /\ partner' = partner
      BY <1>7 DEF Unbalanced, EndOfLines, markVars
    <3>2. pc' = "marked" => pc = "marked" \/ idx > Len(lines)
      BY <1>7 DEF Unbalanced, EndOfLines, markVars
    <3>3. pc = "marked" => idx = Len(lines) + 1
      BY DEF NestInv
    <3> QED
      BY <1>0, <3>1, <3>2, <3>3
  <2> QED
    BY <1>2, <1>3, <2>1 DEF NestInv, StackIsOpen, Partners, Kind
<1> QED
  BY <1>4, <1>5, <1>6, <1>7 DEF MarkNext


-----------------------------------------------------------------------------
(***************************************************************************)
(* What remove_redundant_line_markers leaves.                              *)
(***************************************************************************)
StmtIn(s, lo, hi) == \E j \in lo .. hi : s[j].kind = "stmt"

\* a statement that stands in the block p itself, or in blocks of it that are closed
StmtOf(s, p, open) ==
  \E j \in p + 1 .. Len(s) : s[j].kind = "stmt" /\ \A q \in open : p < q => j < q

\* When the loop has ended, a pair of markers is valid if there is a statement in it; one
\* that is left open, if there is one before the next of these.
LEMMA MarkedIs ==
  ASSUME MarkInv, NestInv, pc = "marked"
  PROVE  /\ \A i \in 1 .. Len(lines) : lines[i].kind = "stmt" => valid[i]
         /\ \A e \in 1 .. Len(lines) : lines[e].kind = "lme" =>
              /\ IsLast(partner[e], Open(lines)[e - 1])
              /\ \A p \in Open(lines)[e - 1] : IsLast(p, Open(lines)[e - 1]) =>
                   /\ valid[e] <=> valid[p]
                   /\ valid[e] <=> StmtIn(lines, p + 1, e - 1)
         /\ \A p \in Open(lines)[Len(lines)] :
              valid[p] <=> StmtOf(lines, p, Open(lines)[Len(lines)])
<1> DEFINE n == Len(lines)
           a == Open(lines)
           m == Len(stk)
<1>0. /\ lines \in Seq(Line) /\ n \in Nat /\ idx = n + 1 /\ idx - 1 = n /\ m \in Nat
      /\ \A d \in 1 .. m : stk[d] \in 1 .. n /\ stk[d] < idx
      /\ \A d, e \in 1 .. m : d < e => stk[d] < stk[e]
  BY DEF MarkInv, NestInv, MarkTypeOK, StackAscends
<1>1. \A p : p \in a[n] <=> \E d \in 1 .. m : stk[d] = p
  BY <1>0 DEF NestInv, StackIsOpen
<1>2. \A e \in 1 .. n : Kind(e) = "lme" => IsLast(partner[e], a[e - 1]) /\ PairRight(e)
  BY <1>0 DEF NestInv, Partners, MarkInv, ClosedRight
<1>3. \A k \in 0 .. n : \A p \in a[k] : p \in 1 .. k
  BY <1>0, OpenIs
<1> HIDE DEF a
<1>4. \A i \in 1 .. n : lines[i].kind = "stmt" => valid[i]
  BY <1>0 DEF MarkInv, StatementsKept, IsStmt, Kind
<1>5. ASSUME NEW e \in 1 .. n, lines[e].kind = "lme", NEW p \in a[e - 1], IsLast(p, a[e - 1])
      PROVE  (valid[e] <=> valid[p]) /\ (valid[e] <=> StmtIn(lines, p + 1, e - 1))
  <2>1. IsLast(partner[e], a[e - 1]) /\ PairRight(e)
    BY <1>2, <1>5 DEF Kind
  <2>2. e - 1 \in 0 .. n
    BY <1>0
  <2>3. p \in Int /\ partner[e] \in Int /\ p <= partner[e] /\ partner[e] <= p
    BY <1>3, <1>5, <2>1, <2>2 DEF IsLast
  <2>4. p = partner[e]
    BY <2>3
  <2> QED
    BY <2>1, <2>4 DEF PairRight, StmtIn, IsStmt, Kind
<1>6. ASSUME NEW p \in a[n] PROVE valid[p] <=> StmtOf(lines, p, a[n])
  <2>1. PICK d \in 1 .. m : stk[d] = p
    BY <1>1, <1>6
  <2>2. valid[p] <=> \E j \in p + 1 .. Bound(d) - 1 : lines[j].kind = "stmt"
    BY <2>1 DEF MarkInv, OpenRight, IsStmt, Kind
  <2>3. p \in 1 .. n
    BY <1>0, <2>1
  <2>4. CASE d = m
    <3>1. Bound(d) - 1 = n
      BY <1>0, <2>4 DEF Bound
    <3>2. \A q \in a[n] : ~(p < q)
      <4> SUFFICES ASSUME NEW q \in a[n], p < q PROVE FALSE
        OBVIOUS
      <4>1. PICK e \in 1 .. m : stk[e] = q
        BY <1>1
      <4>2. e = d \/ e < d
        BY <1>0, <2>4
      <4> QED
        BY <1>0, <2>1, <4>1, <4>2
    <3> QED
      BY <2>2, <3>1, <3>2 DEF StmtOf
  <2>5. CASE d # m
    <3>1. d + 1 \in 1 .. m /\ Bound(d) = stk[d + 1]
      BY <1>0, <2>5 DEF Bound
    <3> DEFINE r == stk[d + 1]
    <3>2. r \in a[n] /\ r \in 1 .. n /\ p < r
      BY <1>0, <1>1, <2>1, <3>1
    <3>3. \A q \in a[n] : p < q => r <= q /\ q \in Int
      <4> SUFFICES ASSUME NEW q \in a[n], p < q PROVE r <= q /\ q \in Int
        OBVIOUS
      <4>1. PICK e \in 1 .. m : stk[e] = q
        BY <1>1
      <4>2. ~(e <= d)
        <5>1. e < d => stk[e] < stk[d]
          BY <1>0
        <5> QED
          BY <1>0, <2>1, <2>3, <4>1, <5>1
      <4>3. e = d + 1 \/ d + 1 < e
        BY <1>0, <3>1, <4>2
      <4> QED
        BY <1>0, <3>1, <4>1, <4>3
    <3> HIDE DEF r
    <3>4. ASSUME NEW j \in p + 1 .. r - 1, lines[j].kind = "stmt"
          PROVE  j \in p + 1 .. n /\ \A q \in a[n] : p < q => j < q
      BY <1>0, <2>3, <3>2, <3>3
    <3>5. ASSUME NEW j \in p + 1 .. n, \A q \in a[n] : p < q => j < q
          PROVE  j \in p + 1 .. r - 1
      BY <1>0, <2>3, <3>2, <3>5
    <3>6. (\E j \in p + 1 .. r - 1 : lines[j].kind = "stmt") <=> StmtOf(lines, p, a[n])
      <4>1. ASSUME NEW j \in p + 1 .. r - 1, lines[j].kind = "stmt" PROVE StmtOf(lines, p, a[n])
        BY <3>4, <4>1 DEF StmtOf
      <4>2. ASSUME StmtOf(lines, p, a[n]) PROVE \E j \in p + 1 .. r - 1 : lines[j].kind = "stmt"
        BY <3>5, <4>2 DEF StmtOf
      <4> QED
        BY <4>1, <4>2
    <3> QED
      BY <2>2, <3>1, <3>6 DEF r
  <2> QED
    BY <2>4, <2>5
<1> QED
  BY <1>2, <1>4, <1>5, <1>6 DEF a, Kind

\* A file without markers that have no statement.
Tidy(t) ==
  /\ \A e \in 1 .. Len(t) : t[e].kind = "lme" =>
       \A p \in Open(t)[e - 1] : IsLast(p, Open(t)[e - 1]) => StmtIn(t, p + 1, e - 1)
  /\ \A p \in Open(t)[Len(t)] : StmtOf(t, p, Open(t)[Len(t)])

\* Nothing of it is redundant ...
LEMMA TidyIsKept ==
  ASSUME MarkInv, NestInv, pc = "marked", Tidy(lines)
  PROVE  Kept = lines
<1> DEFINE n == Len(lines)
           a == Open(lines)
<1>0. /\ lines \in Seq(Line) /\ n \in Nat
      /\ \A i \in 1 .. n : lines[i].kind \in {"lms", "lmx", "lme", "stmt"}
  <2>1. lines \in Seq(Line)
    BY DEF MarkInv, MarkTypeOK
  <2>2. \A i \in 1 .. n : lines[i] \in Line
    BY <2>1
  <2>3. \A i \in 1 .. n : lines[i].kind \in {"lms", "lmx", "lme", "stmt"}
    BY <2>2 DEF Line
  <2> QED
    BY <2>1, <2>3
<1>1. /\ \A k \in 1 .. n : a[k] = After(a[k - 1], lines[k], k)
      /\ \A k \in 0 .. n : \A p \in a[k] : p \in 1 .. k
  BY <1>0, OpenIs
<1>2. /\ \A i \in 1 .. n : lines[i].kind = "stmt" => valid[i]
      /\ \A e \in 1 .. n : lines[e].kind = "lme" =>
           /\ IsLast(partner[e], a[e - 1])
           /\ \A p \in a[e - 1] : IsLast(p, a[e - 1]) =>
                /\ valid[e] <=> valid[p]
                /\ valid[e] <=> StmtIn(lines, p + 1, e - 1)
      /\ \A p \in a[n] : valid[p] <=> StmtOf(lines, p, a[n])
  BY MarkedIs
<1>3. /\ \A e \in 1 .. n : lines[e].kind = "lme" =>
           \A p \in a[e - 1] : IsLast(p, a[e - 1]) => StmtIn(lines, p + 1, e - 1)
      /\ \A p \in a[n] : StmtOf(lines, p, a[n])
  BY DEF Tidy
<1>4. ASSUME NEW p \in 1 .. n, lines[p].kind \in Starts, p \notin a[n]
      PROVE  \E e \in p + 1 .. n : lines[e].kind = "lme" /\ IsLast(p, a[e - 1])
  <2>1. p \in a[p]
    <3> HIDE DEF a
    <3>1. a[p] = a[p - 1] \cup {p}
      BY <1>1, <1>4 DEF After
    <3> QED
      BY <3>1
  <2>2. p \in 0 .. n /\ n \in 0 .. n
    BY <1>0
  <2> QED
    BY <1>0, <1>4, <2>1, <2>2, Closes
<1> HIDE DEF a
<1>5. \A e \in 1 .. n : lines[e].kind = "lme" => valid[e]
  <2> SUFFICES ASSUME NEW e \in 1 .. n, lines[e].kind = "lme" PROVE valid[e]
    OBVIOUS
  <2>1. IsLast(partner[e], a[e - 1]) /\ partner[e] \in a[e - 1]
    BY <1>2 DEF IsLast
  <2> QED
    BY <1>2, <1>3, <2>1
<1>6. \A p \in 1 .. n : lines[p].kind \in Starts => valid[p]
  <2> SUFFICES ASSUME NEW p \in 1 .. n, lines[p].kind \in Starts PROVE valid[p]
    OBVIOUS
  <2>1. CASE p \in a[n]
    BY <1>2, <1>3, <2>1
  <2>2. CASE p \notin a[n]
    <3>1. PICK e \in p + 1 .. n : lines[e].kind = "lme" /\ IsLast(p, a[e - 1])
      BY <1>4, <2>2
    <3>2. e \in 1 .. n /\ p \in a[e - 1]
      BY <3>1 DEF IsLast
    <3> QED
      BY <1>2, <1>5, <3>1, <3>2
  <2> QED
    BY <2>1, <2>2
<1>7. \A i \in 1 .. n : valid[i]
  BY <1>0, <1>2, <1>5, <1>6 DEF Starts
<1>8. {i \in DOMAIN lines : valid[i]} = 1 .. Len(lines)
  BY <1>0, <1>7
<1> QED
  BY <1>0, <1>8, AllChosen DEF Kept

\* What is common to the steps that take lines out: which of the lines are left, and what
\* is open in the two files.
Thins(s, ks, t, g) ==
  /\ s \in Seq(Line) /\ t \in Seq(Line) /\ ks \in SUBSET (1 .. Len(s))
  /\ Lists(g, ks, Len(t)) /\ \A k \in 1 .. Len(t) : t[k] = s[g[k]]
  /\ \A e \in 1 .. Len(s) : s[e].kind = "lme" =>
       \A p \in Open(s)[e - 1] : IsLast(p, Open(s)[e - 1]) => (e \in ks <=> p \in ks)

\* Before, at and behind a line that is left, and at the end.
LEMMA ThinsIs ==
  ASSUME NEW s, NEW ks, NEW t, NEW g, Thins(s, ks, t, g)
  PROVE  /\ \A k \in 1 .. Len(t) : g[k] \in ks /\ g[k] \in 1 .. Len(s) /\ t[k] = s[g[k]]
         /\ \A p \in ks : \E k \in 1 .. Len(t) : g[k] = p
         /\ \A j, k \in 1 .. Len(t) : j < k <=> g[j] < g[k]
         /\ \A k \in 1 .. Len(t) : Mirrors(g, Open(t)[k - 1], Open(s)[g[k] - 1], ks)
         /\ \A k \in 1 .. Len(t) : Mirrors(g, Open(t)[k], Open(s)[g[k]], ks)
         /\ \A k \in 1 .. Len(t) - 1 : Mirrors(g, Open(t)[k], Open(s)[g[k + 1] - 1], ks)
         /\ Mirrors(g, Open(t)[Len(t)], Open(s)[Len(s)], ks)
<1> DEFINE l == Len(s)
           m == Len(t)
<1>0. /\ s \in Seq(Line) /\ t \in Seq(Line) /\ ks \in SUBSET (1 .. Len(s))
      /\ l \in Nat /\ m \in Nat
  BY DEF Thins
<1>1. \A n \in 0 .. l : \A k \in 0 .. m :
        Fits(g, k, n, m) => Mirrors(g, Open(t)[k], Open(s)[n], ks)
  BY Thinned DEF Thins
<1>2. \A p \in ks : p \in 1 .. l
  BY <1>0
<1> HIDE DEF l, m
<1>3. /\ \A k \in 1 .. m : g[k] \in ks /\ t[k] = s[g[k]]
      /\ \A p \in ks : \E k \in 1 .. m : g[k] = p
      /\ \A j, k \in 1 .. m : j < k => g[j] < g[k]
  BY DEF Thins, Lists, l, m
<1>4. \A k \in 1 .. m : g[k] \in 1 .. l
  BY <1>2, <1>3
<1>5. \A j, k \in 1 .. m : j < k <=> g[j] < g[k]
  <2> SUFFICES ASSUME NEW j \in 1 .. m, NEW k \in 1 .. m, g[j] < g[k] PROVE j < k
    BY <1>3
  <2>1. ~(k < j) /\ k # j
    BY <1>3, <1>4
  <2> QED
    BY <1>0, <2>1
<1>6. ASSUME NEW k \in 1 .. m, NEW n \in g[k] .. l, k = m \/ n < g[k + 1]
      PROVE  Mirrors(g, Open(t)[k], Open(s)[n], ks)
  <2>1. k \in 0 .. m /\ n \in 0 .. l /\ g[k] <= n
    BY <1>0, <1>4
  <2> QED
    BY <1>1, <1>6, <2>1 DEF Fits
<1>7. \A k \in 1 .. m : k = m \/ (k + 1 \in 1 .. m /\ g[k] < g[k + 1])
  <2> SUFFICES ASSUME NEW k \in 1 .. m, k # m PROVE k + 1 \in 1 .. m /\ g[k] < g[k + 1]
    OBVIOUS
  <2>1. k + 1 \in 1 .. m /\ k < k + 1
    BY <1>0
  <2> QED
    BY <1>3, <2>1
<1>8. \A k \in 1 .. m : Mirrors(g, Open(t)[k], Open(s)[g[k]], ks)
  <2> SUFFICES ASSUME NEW k \in 1 .. m PROVE Mirrors(g, Open(t)[k], Open(s)[g[k]], ks)
    OBVIOUS
  <2>1. g[k] \in g[k] .. l
    BY <1>0, <1>4
  <2> QED
    BY <1>6, <1>7, <2>1
<1>9. ASSUME NEW k \in 1 .. m PROVE Mirrors(g, Open(t)[k - 1], Open(s)[g[k] - 1], ks)
  <2>1. k - 1 \in 0 .. m /\ k - 1 # m /\ k - 1 + 1 = k /\ g[k] - 1 \in 0 .. l /\ g[k] - 1 < g[k]
    BY <1>0, <1>4
  <2>2. k - 1 = 0 \/ g[k - 1] <= g[k] - 1
    <3>1. CASE k = 1
      BY <3>1
    <3>2. CASE k # 1
      <4>1. k - 1 \in 1 .. m /\ k - 1 < k
        BY <1>0, <3>2
      <4>2. g[k - 1] < g[k]
        BY <1>3, <4>1
      <4> QED
        BY <1>4, <4>1, <4>2
    <3> QED
      BY <3>1, <3>2
  <2>3. Fits(g, k - 1, g[k] - 1, m)
    BY <2>1, <2>2 DEF Fits
  <2> QED
    BY <1>1, <2>1, <2>3
<1>10. \A k \in 1 .. m - 1 : Mirrors(g, Open(t)[k], Open(s)[g[k + 1] - 1], ks)
  <2> SUFFICES ASSUME NEW k \in 1 .. m - 1
               PROVE  Mirrors(g, Open(t)[k], Open(s)[g[k + 1] - 1], ks)
    OBVIOUS
  <2>1. k + 1 \in 1 .. m /\ k + 1 - 1 = k
    BY <1>0
  <2> QED
    BY <1>9, <2>1
<1>11. Mirrors(g, Open(t)[m], Open(s)[l], ks)
  <2>1. m \in 0 .. m /\ l \in 0 .. l
    BY <1>0
  <2>2. m = 0 \/ g[m] <= l
    BY <1>0, <1>4
  <2> QED
    BY <1>1, <2>1, <2>2 DEF Fits
<1> QED
  BY <1>3, <1>4, <1>5, <1>8, <1>9, <1>10, <1>11 DEF l, m


\* The kinds of lines that can be read or written.
LEMMA Kinds ==
  ASSUME NEW s \in Seq(Line)
  PROVE  \A i \in 1 .. Len(s) : s[i] \in Line /\ s[i].kind \in {"lms", "lmx", "lme", "stmt"}
<1>1. \A i \in 1 .. Len(s) : s[i] \in Line
  OBVIOUS
<1> QED
  BY <1>1 DEF Line

Valid == {i \in DOMAIN lines : valid[i]}

\* The loop takes markers out in pairs.
LEMMA KeptThins ==
  ASSUME MarkInv, NestInv, pc = "marked"
  PROVE  Kept \in Seq(Line) /\ \E g : Thins(lines, Valid, Kept, g)
<1>1. lines \in Seq(Line) /\ Valid \in SUBSET (1 .. Len(lines))
  <2>1. lines \in Seq(Line)
    BY DEF MarkInv, MarkTypeOK
  <2> QED
    BY <2>1 DEF Valid
<1>2. Kept = Chosen(lines, Valid)
  BY DEF Kept, Valid
<1>3. Kept \in Seq(Line)
  BY <1>1, <1>2, ChosenIs
<1>4. PICK g : /\ Lists(g, Valid, Len(Kept))
               /\ \A j \in 1 .. Len(Kept) : Kept[j] = lines[g[j]]
  <2>1. \E g : /\ Lists(g, Valid, Len(Chosen(lines, Valid)))
               /\ \A j \in 1 .. Len(Chosen(lines, Valid)) : Chosen(lines, Valid)[j] = lines[g[j]]
    BY <1>1, ChosenIs
  <2> QED
    BY <1>2, <2>1
<1>5. \A e \in 1 .. Len(lines) : lines[e].kind = "lme" =>
        \A p \in Open(lines)[e - 1] : IsLast(p, Open(lines)[e - 1]) => (e \in Valid <=> p \in Valid)
  <2> SUFFICES ASSUME NEW e \in 1 .. Len(lines), lines[e].kind = "lme",
                      NEW p \in Open(lines)[e - 1], IsLast(p, Open(lines)[e - 1])
               PROVE  e \in Valid <=> p \in Valid
    OBVIOUS
  <2>1. valid[e] <=> valid[p]
    BY MarkedIs
  <2>2. p \in 1 .. Len(lines)
    <3>1. e - 1 \in 0 .. Len(lines)
      BY <1>1
    <3> QED
      BY <1>1, <3>1, OpenIs
  <2> QED
    BY <1>1, <2>1, <2>2 DEF Valid
<1>6. Kept \in Seq(Line)
  BY <1>3
<1> QED
  BY <1>1, <1>3, <1>4, <1>5, <1>6 DEF Thins

\* ... and what is kept has no redundant ones.
LEMMA KeptIsTidy == ASSUME MarkInv, NestInv, pc = "marked" PROVE Tidy(Kept)
<1> DEFINE s == lines
           t == Kept
           l == Len(s)
           m == Len(t)
           a == Open(s)
           b == Open(t)
<1>1. PICK g : Thins(s, Valid, t, g)
  BY KeptThins
<1>2. /\ s \in Seq(Line) /\ t \in Seq(Line) /\ l \in Nat /\ m \in Nat
  BY <1>1 DEF Thins
<1>3. /\ \A k \in 1 .. m : g[k] \in Valid /\ g[k] \in 1 .. l /\ t[k] = s[g[k]]
      /\ \A p \in Valid : \E k \in 1 .. m : g[k] = p
      /\ \A j, k \in 1 .. m : j < k <=> g[j] < g[k]
      /\ \A k \in 1 .. m : Mirrors(g, b[k - 1], a[g[k] - 1], Valid)
      /\ Mirrors(g, b[m], a[l], Valid)
  BY <1>1, ThinsIs
<1>4. \A k \in 0 .. m : \A q \in b[k] : q \in 1 .. k /\ q \in 1 .. m
  BY <1>2, OpenIs
<1>4a. \A k \in 0 .. l : \A p \in a[k] : p \in 1 .. k
  BY <1>2, OpenIs
<1>5. /\ \A i \in 1 .. l : s[i].kind = "stmt" => valid[i]
      /\ \A e \in 1 .. l : s[e].kind = "lme" =>
           /\ IsLast(partner[e], a[e - 1])
           /\ \A p \in a[e - 1] : IsLast(p, a[e - 1]) =>
                /\ valid[e] <=> valid[p]
                /\ valid[e] <=> StmtIn(s, p + 1, e - 1)
      /\ \A p \in a[l] : valid[p] <=> StmtOf(s, p, a[l])
  BY MarkedIs
<1>6. \A i : i \in Valid <=> i \in 1 .. l /\ valid[i]
  BY <1>2 DEF Valid
<1> HIDE DEF s, t, l, m, a, b
<1>7. ASSUME NEW j \in 1 .. l, s[j].kind = "stmt"
      PROVE  \E k \in 1 .. m : g[k] = j /\ t[k].kind = "stmt"
  BY <1>3, <1>5, <1>6, <1>7
<1>8. ASSUME NEW e \in 1 .. m, t[e].kind = "lme", NEW q \in b[e - 1], IsLast(q, b[e - 1])
      PROVE  StmtIn(t, q + 1, e - 1)
  <2> DEFINE r == g[e]
             p == partner[r]
  <2>1. r \in 1 .. l /\ s[r].kind = "lme" /\ valid[r] /\ e - 1 \in 0 .. m /\ r - 1 \in 0 .. l
    BY <1>2, <1>3, <1>6, <1>8
  <2>2. IsLast(p, a[r - 1]) /\ p \in a[r - 1]
    BY <1>5, <2>1 DEF IsLast
  <2>3. valid[p] /\ StmtIn(s, p + 1, r - 1)
    BY <1>5, <2>1, <2>2
  <2>4. p \in 1 .. r - 1 /\ p \in 1 .. l
    BY <1>2, <1>4a, <2>1, <2>2
  <2>5. Mirrors(g, b[e - 1], a[r - 1], Valid)
    BY <1>3
  <2>6. PICK q1 \in b[e - 1] : g[q1] = p
    BY <1>6, <2>2, <2>3, <2>4, <2>5 DEF Mirrors
  <2>7. q1 \in 1 .. m /\ q \in 1 .. m /\ q1 <= q /\ q \in 1 .. e - 1
    BY <1>4, <1>8, <2>1 DEF IsLast
  <2>8. g[q] \in a[r - 1]
    BY <2>5 DEF Mirrors
  <2>9. g[q] <= p /\ g[q] \in 1 .. l
    BY <1>3, <2>2, <2>7, <2>8 DEF IsLast
  <2> HIDE DEF r, p
  <2>10. PICK j \in p + 1 .. r - 1 : s[j].kind = "stmt"
    BY <2>3 DEF StmtIn
  <2>11. j \in 1 .. l /\ g[q] < j /\ j < r
    BY <1>2, <2>1, <2>4, <2>9
  <2>12. PICK k \in 1 .. m : g[k] = j /\ t[k].kind = "stmt"
    BY <1>7, <2>10, <2>11
  <2>13. q < k /\ k < e
    BY <1>3, <2>7, <2>11, <2>12 DEF r
  <2>14. k \in q + 1 .. e - 1
    BY <1>2, <2>7, <2>13
  <2> QED
    BY <2>12, <2>14 DEF StmtIn
<1>9. ASSUME NEW q \in b[m] PROVE StmtOf(t, q, b[m])
  <2>1. q \in 1 .. m /\ m \in 0 .. m /\ l \in 0 .. l
    BY <1>2, <1>4
  <2>2. g[q] \in a[l] /\ valid[g[q]] /\ g[q] \in 1 .. l
    BY <1>3, <1>6, <2>1 DEF Mirrors
  <2>3. PICK j \in g[q] + 1 .. l : s[j].kind = "stmt" /\ \A p \in a[l] : g[q] < p => j < p
    BY <1>5, <2>2 DEF StmtOf, l
  <2>4. j \in 1 .. l /\ g[q] < j
    BY <1>2, <2>2
  <2>5. PICK k \in 1 .. m : g[k] = j /\ t[k].kind = "stmt"
    BY <1>7, <2>3, <2>4
  <2>6. k \in q + 1 .. m
    <3>1. q < k
      BY <1>3, <2>1, <2>4, <2>5
    <3> QED
      BY <1>2, <2>1, <3>1
  <2>7. ASSUME NEW x \in b[m], q < x PROVE k < x
    <3>1. x \in 1 .. m /\ g[x] \in a[l]
      BY <1>3, <1>4, <2>1 DEF Mirrors
    <3>2. g[q] < g[x]
      BY <1>3, <2>1, <2>7, <3>1
    <3>3. g[k] < g[x]
      BY <2>3, <2>5, <3>1, <3>2
    <3> QED
      BY <1>3, <3>1, <3>3
  <2> QED
    BY <2>5, <2>6, <2>7 DEF StmtOf, m
<1> QED
  BY <1>8, <1>9 DEF Tidy, t, m, b

\* No start marker of such a file has its end marker directly behind it.
LEMMA TidyNoEmpty ==
  ASSUME NEW t \in Seq(Line), Tidy(t), NEW k \in 1 .. Len(t) - 1, t[k].kind \in Starts
  PROVE  t[k + 1].kind # "lme"
<1> SUFFICES ASSUME t[k + 1].kind = "lme" PROVE FALSE
  OBVIOUS
<1>1. k \in 1 .. Len(t) /\ k + 1 \in 1 .. Len(t) /\ k + 1 - 1 = k /\ k - 1 \in 0 .. Len(t) /\ k \in Nat
  OBVIOUS
<1> DEFINE b == Open(t)
<1>2. b[k] = After(b[k - 1], t[k], k)
  BY <1>1, OpenIs
<1>3. \A q \in b[k - 1] : q \in 1 .. k - 1
  BY <1>1, OpenIs
<1>4. \A p \in b[k] : IsLast(p, b[k]) => StmtIn(t, p + 1, k)
  <2>1. \A e \in 1 .. Len(t) : t[e].kind = "lme" =>
          \A p \in b[e - 1] : IsLast(p, b[e - 1]) => StmtIn(t, p + 1, e - 1)
    BY DEF Tidy
  <2> HIDE DEF b
  <2> QED
    BY <1>1, <2>1
<1> HIDE DEF b
<1>5. b[k] = b[k - 1] \cup {k}
  BY <1>2 DEF After
<1>6. IsLast(k, b[k])
  BY <1>1, <1>3, <1>5 DEF IsLast
<1>7. StmtIn(t, k + 1, k)
  BY <1>4, <1>6 DEF IsLast
<1> QED
  BY <1>1, <1>7 DEF StmtIn


-----------------------------------------------------------------------------
(***************************************************************************)
(* What a file says.                                                       *)
(***************************************************************************)
\* the lines with the markers around them
Around(s) == [n \in DOMAIN s |-> <<s[n], Chosen(s, Open(s)[n])>>]

\* The statements that a file says are those chosen of it, and so are the statements with
\* what is around them.
LEMMA SaysIs ==
  ASSUME NEW s \in Seq(Line), NEW ks \in SUBSET (1 .. Len(s))
  PROVE  /\ Texts(Says(s, ks)) = Chosen(s, ks)
         /\ Contexts(Says(s, ks)) = Chosen(Around(s), ks)
<1> DEFINE n == Len(s)
           since(k) == {m \in 1 .. k - 1 : s[m].kind = "stmt" /\ Open(s)[m] = Open(s)[k]}
           all == [k \in DOMAIN s |-> [line   |-> s[k],
                                       around |-> Chosen(s, Open(s)[k]),
                                       since  |-> Cardinality(since(k))]]
           A == {all[k] : k \in 1 .. n}
           C == {Around(s)[k] : k \in 1 .. n}
<1>0. n \in Nat /\ DOMAIN s = 1 .. n
  OBVIOUS
<1>1. Says(s, ks) = Chosen(all, ks)
  BY DEF Says
<1>2. ks \in SUBSET (1 .. n)
  OBVIOUS
<1>3. all \in Seq(A) /\ Len(all) = n
  <2>1. all = [k \in 1 .. n |-> all[k]]
    BY <1>0
  <2> HIDE DEF all
  <2>2. all \in [1 .. n -> A]
    BY <2>1
  <2> HIDE DEF A, n
  <2> QED
    BY <1>0, <2>2
<1>4. Around(s) \in Seq(C) /\ Len(Around(s)) = n
  <2>1. Around(s) = [k \in 1 .. n |-> Around(s)[k]]
    BY <1>0 DEF Around
  <2>2. Around(s) \in [1 .. n -> C]
    BY <2>1
  <2> HIDE DEF C, n
  <2> QED
    BY <1>0, <2>2
<1>5. \A k \in ks : /\ all[k].line = s[k]
                    /\ <<all[k].line, all[k].around>> = Around(s)[k]
  <2> SUFFICES ASSUME NEW k \in ks
               PROVE  all[k].line = s[k] /\ <<all[k].line, all[k].around>> = Around(s)[k]
    OBVIOUS
  <2>1. k \in DOMAIN s
    BY <1>0, <1>2
  <2> QED
    BY <2>1 DEF Around
<1> HIDE DEF all, A, C
<1> DEFINE a == Chosen(all, ks)
           b == Chosen(s, ks)
           c == Chosen(Around(s), ks)
<1>6. a \in Seq(A) /\ b \in Seq(Line) /\ c \in Seq(C)
  BY <1>2, <1>3, <1>4, ChosenIs
<1>7. Len(a) = Len(b) /\ \A j \in 1 .. Len(a) : \E k \in ks : a[j] = all[k] /\ b[j] = s[k]
  <2>1. Len(a) = Len(b)
    BY <1>2, <1>3, ChosenEach
  <2>2. \A j \in 1 .. Len(a) : \E k \in ks : a[j] = all[k] /\ b[j] = s[k]
    BY <1>2, <1>3, ChosenEach
  <2> QED
    BY <2>1, <2>2
<1>8. Len(a) = Len(c) /\ \A j \in 1 .. Len(a) : \E k \in ks : a[j] = all[k] /\ c[j] = Around(s)[k]
  <2>1. Len(a) = Len(c)
    BY <1>2, <1>3, <1>4, ChosenEach
  <2>2. \A j \in 1 .. Len(a) : \E k \in ks : a[j] = all[k] /\ c[j] = Around(s)[k]
    BY <1>2, <1>3, <1>4, ChosenEach
  <2> QED
    BY <2>1, <2>2
<1> HIDE DEF a, b, c
<1>9. \A j \in 1 .. Len(a) : a[j].line = b[j] /\ <<a[j].line, a[j].around>> = c[j]
  <2> SUFFICES ASSUME NEW j \in 1 .. Len(a)
               PROVE  a[j].line = b[j] /\ <<a[j].line, a[j].around>> = c[j]
    OBVIOUS
  <2>1. PICK k \in ks : a[j] = all[k] /\ b[j] = s[k]
    BY <1>7
  <2>2. PICK l \in ks : a[j] = all[l] /\ c[j] = Around(s)[l]
    BY <1>8
  <2> QED
    BY <1>5, <2>1, <2>2
<1>10. DOMAIN a = 1 .. Len(a) /\ DOMAIN b = 1 .. Len(a) /\ DOMAIN c = 1 .. Len(a)
  <2>1. DOMAIN a = 1 .. Len(a) /\ DOMAIN b = 1 .. Len(b) /\ DOMAIN c = 1 .. Len(c)
    BY <1>6
  <2>2. Len(b) = Len(a) /\ Len(c) = Len(a)
    BY <1>7, <1>8, Zenon
  <2> QED
    BY <2>1, <2>2, Zenon
<1>11. b = [j \in 1 .. Len(a) |-> b[j]] /\ c = [j \in 1 .. Len(a) |-> c[j]]
  BY <1>6, <1>10
<1>12. Texts(a) = b
  BY <1>9, <1>10, <1>11 DEF Texts
<1>13. Contexts(a) = c
  BY <1>9, <1>10, <1>11 DEF Contexts
<1> QED
  BY <1>1, <1>12, <1>13 DEF a, b, c

PatternsAre == \A l \in patterns : l.line.kind = "stmt"

\* The lines that match are statements, so that no marker is taken out with them.
LEMMA MatchedThins ==
  ASSUME PatternsAre, NEW s \in Seq(Line), NEW whole
  PROVE  /\ NotMatched(s, whole) \in Seq(Line)
         /\ \E g : Thins(s, Unmatched(s, whole), NotMatched(s, whole), g)
<1> DEFINE t == NotMatched(s, whole)
           ks == Unmatched(s, whole)
<1>1. ks \in SUBSET (1 .. Len(s)) /\ t = Chosen(s, ks)
  BY DEF Unmatched, NotMatched
<1>2. t \in Seq(Line)
  BY <1>1, ChosenIs
<1>3. PICK g : Lists(g, ks, Len(t)) /\ \A j \in 1 .. Len(t) : t[j] = s[g[j]]
  <2>1. \E g : /\ Lists(g, ks, Len(Chosen(s, ks)))
               /\ \A j \in 1 .. Len(Chosen(s, ks)) : Chosen(s, ks)[j] = s[g[j]]
    BY <1>1, ChosenIs
  <2> QED
    BY <1>1, <2>1
<1>4. \A i \in 1 .. Len(s) : s[i].kind # "stmt" => i \in ks
  BY DEF PatternsAre, Unmatched, AsRead, Blank
<1>5. \A e \in 1 .. Len(s) : s[e].kind = "lme" =>
        \A p \in Open(s)[e - 1] : IsLast(p, Open(s)[e - 1]) => (e \in ks <=> p \in ks)
  <2> SUFFICES ASSUME NEW e \in 1 .. Len(s), s[e].kind = "lme", NEW p \in Open(s)[e - 1]
               PROVE  e \in ks /\ p \in ks
    OBVIOUS
  <2>1. e - 1 \in 0 .. Len(s)
    OBVIOUS
  <2>2. p \in 1 .. Len(s) /\ s[p].kind \in Starts
    BY <2>1, OpenIs
  <2> QED
    BY <1>4, <2>2 DEF Starts
<1> QED
  BY <1>1, <1>2, <1>3, <1>5 DEF Thins

\* The lines that a call is given, and those of them that no pattern matches.
Source == given.lines
Stay   == Unmatched(given.lines, given.ended)

\* What the properties say of a result.
Exactly(f)   == Texts(Says(f, Told(f))) = Texts(Says(Source, Meant))
Preserved(f) == Balanced(Source) =>
                  /\ Balanced(f)
                  /\ Contexts(Says(f, Told(f))) = Contexts(Says(Source, Meant))
                  /\ \A i \in DOMAIN f : f[i].kind \in Starts => f[i + 1].kind # "lme"

\* A call, from the file that was there to the one that replaces it: which lines of the
\* files are the same, and what of them is open.
Call(g, h) ==
  /\ MarkInv /\ NestInv /\ pc = "marked" /\ PatternsAre
  /\ Source \in Seq(Line)
  /\ Thins(Source, Stay, lines, g)
  /\ Thins(lines, Valid, Kept, h)

From(g, h) == [j \in 1 .. Len(Kept) |-> g[h[j]]]

\* What can be written: the lines, and an empty line unless the newline completes the last.
Written == {Kept, Append(Kept, Blank)}

\* What the file that is written is like.
LEMMA WrittenIs ==
  ASSUME NEW t \in Seq(Line), NEW f \in {t, Append(t, Blank)}
  PROVE  /\ f \in Seq(Line) /\ Len(t) \in 0 .. Len(f) /\ DOMAIN f = 1 .. Len(f)
         /\ \A k \in 1 .. Len(f) : k \in 1 .. Len(t) \/ (k = Len(t) + 1 /\ f[k] = Blank)
         /\ \A k \in 1 .. Len(t) : f[k] = t[k]
         /\ \A k \in 0 .. Len(t) : Open(f)[k] = Open(t)[k]
         /\ Open(f)[Len(f)] = Open(t)[Len(t)]
<1> DEFINE m == Len(t)
<1>0. t \in Seq(Line) /\ m \in Nat /\ DOMAIN t = 1 .. m
  OBVIOUS
<1>1. CASE f = t
  BY <1>0, <1>1
<1>2. CASE f = Append(t, Blank)
  <2>1. Blank \in Line
    BY NewLineIsText DEF Blank, Line
  <2>2. /\ f \in Seq(Line) /\ Len(f) = m + 1 /\ f[m + 1] = Blank
        /\ DOMAIN f = 1 .. m + 1 /\ \A k \in 1 .. m : f[k] = t[k]
    BY <1>2, <2>1
  <2> HIDE DEF m
  <2>3. \A k \in 0 .. m : Open(f)[k] = Open(t)[k]
    <3>1. Len(t) <= Len(f) /\ \A k \in 1 .. Len(t) : t[k] = f[k]
      BY <1>0, <2>2 DEF m
    <3> QED
      BY <2>2, <3>1, OpenPrefix DEF m
  <2>4. Open(f)[m + 1] = Open(t)[m]
    <3>1. m + 1 \in 1 .. Len(f) /\ m + 1 - 1 = m /\ m \in 0 .. m
      BY <1>0, <2>2
    <3>2. Open(f)[m + 1] = After(Open(f)[m + 1 - 1], f[m + 1], m + 1)
      BY <2>2, <3>1, OpenIs
    <3>3. Blank.kind = "stmt"
      BY DEF Blank
    <3>4. After(Open(f)[m], Blank, m + 1) = Open(f)[m]
      BY <3>3 DEF After, Starts
    <3> QED
      BY <2>2, <2>3, <3>1, <3>2, <3>4
  <2>5. \A k \in 1 .. m + 1 : k \in 1 .. m \/ k = m + 1
    BY <1>0
  <2>6. m \in 0 .. m + 1
    BY <1>0
  <2> QED
    BY <2>2, <2>3, <2>4, <2>5, <2>6 DEF m
<1> QED
  BY <1>1, <1>2

\* The statements that it says are those that are meant, each once, in their order.
LEMMA ToldIs ==
  ASSUME NEW g, NEW h, Call(g, h), NEW f \in Written
  PROVE  /\ f \in Seq(Line) /\ Source \in Seq(Line)
         /\ Told(f) \in SUBSET (1 .. Len(f)) /\ Meant \in SUBSET (1 .. Len(Source))
         /\ \A j \in Told(f) : /\ j \in 1 .. Len(Kept) /\ f[j] = Kept[j]
                               /\ From(g, h)[j] \in Meant
                               /\ f[j] = Source[From(g, h)[j]]
         /\ \A i \in Meant : \E j \in Told(f) : From(g, h)[j] = i
         /\ \A i, j \in Told(f) : i < j => From(g, h)[i] < From(g, h)[j]
<1> DEFINE s == Source
           t == lines
           u == Kept
           m == Len(u)
           G == From(g, h)
<1>1. /\ s \in Seq(Line) /\ t \in Seq(Line) /\ u \in Seq(Line)
      /\ Len(s) \in Nat /\ Len(t) \in Nat /\ m \in Nat
  BY DEF Call, Thins
<1>2. /\ \A k \in 1 .. Len(t) : g[k] \in Stay /\ g[k] \in 1 .. Len(s) /\ t[k] = s[g[k]]
      /\ \A p \in Stay : \E k \in 1 .. Len(t) : g[k] = p
      /\ \A j, k \in 1 .. Len(t) : j < k <=> g[j] < g[k]
  <2>1. Thins(s, Stay, t, g)
    BY DEF Call
  <2> HIDE DEF s, t
  <2>2. \A k \in 1 .. Len(t) : g[k] \in Stay /\ g[k] \in 1 .. Len(s) /\ t[k] = s[g[k]]
    BY <2>1, ThinsIs
  <2>3. \A p \in Stay : \E k \in 1 .. Len(t) : g[k] = p
    BY <2>1, ThinsIs
  <2>4. \A j, k \in 1 .. Len(t) : j < k <=> g[j] < g[k]
    BY <2>1, ThinsIs
  <2> QED
    BY <2>2, <2>3, <2>4
<1>3. /\ \A k \in 1 .. m : h[k] \in Valid /\ h[k] \in 1 .. Len(t) /\ u[k] = t[h[k]]
      /\ \A p \in Valid : \E k \in 1 .. m : h[k] = p
      /\ \A j, k \in 1 .. m : j < k <=> h[j] < h[k]
  <2>1. Thins(t, Valid, u, h)
    BY DEF Call
  <2> HIDE DEF t, u
  <2>2. \A k \in 1 .. m : h[k] \in Valid /\ h[k] \in 1 .. Len(t) /\ u[k] = t[h[k]]
    BY <2>1, ThinsIs
  <2>3. \A p \in Valid : \E k \in 1 .. m : h[k] = p
    BY <2>1, ThinsIs
  <2>4. \A j, k \in 1 .. m : j < k <=> h[j] < h[k]
    BY <2>1, ThinsIs
  <2> QED
    BY <2>2, <2>3, <2>4
<1>4. /\ f \in Seq(Line) /\ m \in 0 .. Len(f) /\ DOMAIN f = 1 .. Len(f)
      /\ \A k \in 1 .. Len(f) : k \in 1 .. m \/ f[k] = Blank
      /\ \A k \in 1 .. m : f[k] = u[k]
  BY <1>1, WrittenIs DEF Written
<1>5. \A i \in 1 .. Len(t) : t[i].kind = "stmt" => i \in Valid
  <2>1. \A i \in 1 .. Len(t) : t[i].kind = "stmt" => valid[i]
    BY MarkedIs DEF Call
  <2> QED
    BY <1>1, <2>1 DEF Valid
<1>6. \A j \in 1 .. m : G[j] = g[h[j]]
  BY DEF From
<1>7. \A i : i \in Meant <=>
               /\ i \in 1 .. Len(s) /\ s[i].kind = "stmt" /\ s[i] # Blank /\ i \in Stay
  BY <1>1 DEF Meant, Told, Stay, Source
<1>8. \A j : j \in Told(f) <=> j \in 1 .. Len(f) /\ f[j].kind = "stmt" /\ f[j] # Blank
  BY <1>4 DEF Told
<1> HIDE DEF s, t, u, m, G
<1>10. \A j \in Told(f) : j \in 1 .. m
  BY <1>4, <1>8
<1>11. \A j \in 1 .. m : /\ f[j] = u[j] /\ u[j] = s[G[j]] /\ G[j] \in Stay
                         /\ G[j] \in 1 .. Len(s)
  BY <1>2, <1>3, <1>4, <1>6
<1>12. ASSUME NEW j \in Told(f) PROVE G[j] \in Meant /\ f[j] = s[G[j]]
  BY <1>7, <1>8, <1>10, <1>11
<1>13. ASSUME NEW i \in Meant PROVE \E j \in Told(f) : G[j] = i
  <2>1. PICK a \in 1 .. Len(t) : g[a] = i
    BY <1>2, <1>7
  <2>2. a \in Valid
    BY <1>2, <1>5, <1>7, <2>1
  <2>3. PICK j \in 1 .. m : h[j] = a
    BY <1>3, <2>2
  <2>4. G[j] = i /\ f[j] = s[i]
    BY <1>6, <1>11, <2>1, <2>3
  <2>5. j \in 1 .. Len(f)
    BY <1>4
  <2>6. j \in Told(f)
    BY <1>7, <1>8, <2>4, <2>5
  <2> QED
    BY <2>4, <2>6
<1>14. ASSUME NEW i \in Told(f), NEW j \in Told(f), i < j PROVE G[i] < G[j]
  <2>1. i \in 1 .. m /\ j \in 1 .. m
    BY <1>10
  <2>2. h[i] < h[j] /\ h[i] \in 1 .. Len(t) /\ h[j] \in 1 .. Len(t)
    BY <1>3, <1>14, <2>1
  <2>3. g[h[i]] < g[h[j]]
    BY <1>2, <2>2
  <2> QED
    BY <1>6, <2>1, <2>3
<1>15. \A j \in Told(f) : j \in 1 .. Len(f)
  BY <1>4, <1>8
<1>16. \A j \in Meant : j \in 1 .. Len(s)
  BY <1>7
<1>17. \A j \in Told(f) : j \in 1 .. m /\ f[j] = u[j]
  BY <1>10, <1>11
<1> QED
  BY <1>1, <1>4, <1>12, <1>13, <1>14, <1>15, <1>16, <1>17 DEF s, u, m, G

\* So it says the same.
LEMMA SaysTheSame ==
  ASSUME NEW g, NEW h, Call(g, h), NEW f \in Written
  PROVE  Exactly(f)
<1> DEFINE s == Source
           ks == Meant
           js == Told(f)
           G == From(g, h)
<1>1. /\ f \in Seq(Line) /\ s \in Seq(Line)
      /\ js \in SUBSET (1 .. Len(f)) /\ ks \in SUBSET (1 .. Len(s))
      /\ \A j \in js : G[j] \in ks /\ f[j] = s[G[j]]
      /\ \A i \in ks : \E j \in js : G[j] = i
      /\ \A i, j \in js : i < j => G[i] < G[j]
  BY ToldIs
<1> HIDE DEF s, ks, js, G
<1>2. Chosen(f, js) = Chosen(s, ks)
  <2>1. (\E S : s \in Seq(S)) /\ \E T : f \in Seq(T)
    BY <1>1, Zenon
  <2>2. SameLines(s, ks, f, js, G)
    BY <1>1, <2>1, Zenon DEF SameLines
  <2> QED
    BY <2>2, SameLinesChosen
<1>3. Texts(Says(f, js)) = Texts(Says(s, ks))
  BY <1>1, <1>2, SaysIs
<1> QED
  BY <1>3 DEF Exactly, s, ks, js

\* If the markers of the file pair up, all of those around a statement are kept: each
\* is closed behind it, by an end marker that has it before it.
LEMMA AroundIsValid ==
  ASSUME NEW g, NEW h, Call(g, h), Balanced(Source),
         NEW n \in 1 .. Len(lines), lines[n].kind = "stmt", NEW p \in Open(lines)[n]
  PROVE  p \in Valid
<1> DEFINE t == lines
           a == Open(t)
<1>1. t \in Seq(Line) /\ Len(t) \in Nat /\ DOMAIN t = 1 .. Len(t)
  BY DEF Call, Thins
<1>2. p \in 1 .. n /\ p \in 1 .. Len(t) /\ t[p].kind \in Starts /\ n \in 0 .. Len(t)
  <2>1. n \in 0 .. Len(t)
    BY <1>1
  <2> QED
    BY <1>1, <2>1, OpenIs
<1>3. p \notin a[Len(t)]
  <2>1. Mirrors(g, a[Len(t)], Open(Source)[Len(Source)], Stay)
    BY ThinsIs DEF Call
  <2>2. Open(Source)[Len(Source)] = {}
    BY DEF Balanced
  <2> QED
    BY <2>1, <2>2 DEF Mirrors
<1>4. PICK e \in n + 1 .. Len(t) : t[e].kind = "lme" /\ IsLast(p, a[e - 1])
  <2>1. Len(t) \in 0 .. Len(t) /\ n \in 0 .. Len(t)
    BY <1>1
  <2> QED
    BY <1>1, <1>3, <2>1, Closes
<1>5. e \in 1 .. Len(t) /\ p \in a[e - 1]
  BY <1>1, <1>4 DEF IsLast
<1>6. (valid[e] <=> valid[p]) /\ (valid[e] <=> StmtIn(t, p + 1, e - 1))
  BY <1>4, <1>5, MarkedIs DEF Call
<1>7. n \in p + 1 .. e - 1
  <2>1. p # n
    BY <1>2 DEF Starts
  <2> QED
    BY <1>1, <1>2, <1>4, <2>1
<1>8. StmtIn(t, p + 1, e - 1)
  BY <1>7 DEF StmtIn
<1> QED
  BY <1>1, <1>2, <1>6, <1>8 DEF Valid

\* Then the same markers are around it.
LEMMA SameAround ==
  ASSUME NEW g, NEW h, Call(g, h), NEW f \in Written, Balanced(Source),
         NEW j \in 1 .. Len(Kept), Kept[j].kind = "stmt"
  PROVE  Chosen(f, Open(f)[j]) = Chosen(Source, Open(Source)[From(g, h)[j]])
<1> DEFINE s == Source
           t == lines
           u == Kept
           m == Len(u)
           G == From(g, h)
<1>1. /\ s \in Seq(Line) /\ t \in Seq(Line) /\ u \in Seq(Line)
      /\ Len(s) \in Nat /\ Len(t) \in Nat /\ m \in Nat
  BY DEF Call, Thins
<1>2. /\ \A k \in 1 .. Len(t) : g[k] \in Stay /\ g[k] \in 1 .. Len(s) /\ t[k] = s[g[k]]
      /\ \A a, b \in 1 .. Len(t) : a < b <=> g[a] < g[b]
      /\ \A k \in 1 .. Len(t) : Mirrors(g, Open(t)[k], Open(s)[g[k]], Stay)
  BY ThinsIs DEF Call
<1>3. /\ \A k \in 1 .. m : h[k] \in Valid /\ h[k] \in 1 .. Len(t) /\ u[k] = t[h[k]]
      /\ \A a, b \in 1 .. m : a < b <=> h[a] < h[b]
      /\ \A k \in 1 .. m : Mirrors(h, Open(u)[k], Open(t)[h[k]], Valid)
  BY ThinsIs DEF Call
<1>4. /\ f \in Seq(Line) /\ m \in 0 .. Len(f) /\ \A k \in 1 .. m : f[k] = u[k]
      /\ \A k \in 0 .. m : Open(f)[k] = Open(u)[k]
  BY <1>1, WrittenIs DEF Written
<1>5. \A k \in 0 .. m : \A q \in Open(u)[k] : q \in 1 .. m
  BY <1>1, OpenIs
<1>6. \A k \in 0 .. Len(s) : \A p \in Open(s)[k] : p \in 1 .. Len(s) /\ s[p].kind \in Starts
  BY <1>1, OpenIs
<1>7. \A i \in 1 .. Len(s) : s[i].kind \in Starts => i \in Stay
  BY <1>1 DEF Call, PatternsAre, Stay, Source, Unmatched, AsRead, Blank, Starts
<1>8. \A k \in 1 .. m : G[k] = g[h[k]]
  BY DEF From
<1>9. j \in 1 .. m /\ u[j].kind = "stmt"
  OBVIOUS
<1>v. \A n \in 1 .. Len(t) : t[n].kind = "stmt" => \A p \in Open(t)[n] : p \in Valid
  BY AroundIsValid
<1> HIDE DEF s, t, u, m, G
<1> DEFINE js == Open(f)[j]
           ks == Open(s)[G[j]]
           b == h[j]
<1>10. js = Open(u)[j] /\ \A q \in js : q \in 1 .. m
  <2>1. j \in 0 .. m
    BY <1>9
  <2> QED
    BY <1>4, <1>5, <2>1
<1>11. b \in 1 .. Len(t) /\ t[b].kind = "stmt" /\ G[j] = g[b] /\ G[j] \in 1 .. Len(s)
  BY <1>2, <1>3, <1>8, <1>9
<1>12. Mirrors(h, js, Open(t)[b], Valid) /\ Mirrors(g, Open(t)[b], ks, Stay)
  BY <1>2, <1>3, <1>9, <1>10, <1>11
<1>13. \A p \in ks : p \in 1 .. Len(s) /\ s[p].kind \in Starts
  <2>1. G[j] \in 0 .. Len(s)
    BY <1>1, <1>11
  <2> QED
    BY <1>6, <2>1
<1>14. \A p \in Open(t)[b] : p \in Valid
  BY <1>v, <1>11
<1> HIDE DEF js, ks, b
<1>15. ASSUME NEW q \in js PROVE G[q] \in ks /\ f[q] = s[G[q]]
  <2>1. q \in 1 .. m /\ h[q] \in Open(t)[b] /\ G[q] = g[h[q]]
    BY <1>8, <1>10, <1>12 DEF Mirrors
  <2>2. G[q] \in ks
    BY <1>12, <2>1 DEF Mirrors
  <2>3. f[q] = s[G[q]]
    BY <1>2, <1>3, <1>4, <2>1
  <2> QED
    BY <2>2, <2>3
<1>16. ASSUME NEW p \in ks PROVE \E q \in js : G[q] = p
  <2>1. PICK a \in Open(t)[b] : g[a] = p
    BY <1>7, <1>12, <1>13 DEF Mirrors
  <2>2. PICK q \in js : h[q] = a
    BY <1>12, <1>14, <2>1 DEF Mirrors
  <2> QED
    BY <1>8, <1>10, <2>1, <2>2
<1>17. ASSUME NEW q \in js, NEW r \in js, q < r PROVE G[q] < G[r]
  <2>1. q \in 1 .. m /\ r \in 1 .. m
    BY <1>10
  <2>2. h[q] < h[r] /\ h[q] \in 1 .. Len(t) /\ h[r] \in 1 .. Len(t)
    BY <1>3, <1>17, <2>1
  <2>3. g[h[q]] < g[h[r]]
    BY <1>2, <2>2
  <2> QED
    BY <1>8, <2>1, <2>3
<1>18. js \in SUBSET (1 .. Len(f)) /\ ks \in SUBSET (1 .. Len(s))
  <2>1. \A q \in 1 .. m : q \in 1 .. Len(f)
    BY <1>1, <1>4
  <2> QED
    BY <1>10, <1>13, <2>1
<1>19. Chosen(f, js) = Chosen(s, ks)
  <2>1. /\ \A q \in js : G[q] \in ks /\ f[q] = s[G[q]]
        /\ \A p \in ks : \E q \in js : G[q] = p
        /\ \A q, r \in js : q < r => G[q] < G[r]
    BY <1>15, <1>16, <1>17, Zenon
  <2> QED
    <3>1. (\E S : s \in Seq(S)) /\ \E T : f \in Seq(T)
      BY <1>1, <1>4, Zenon
    <3>2. SameLines(s, ks, f, js, G)
      BY <1>18, <2>1, <3>1, Zenon DEF SameLines
    <3> QED
      BY <3>2, SameLinesChosen
<1> QED
  BY <1>19 DEF s, G, js, ks


\* The statements keep their markers, these pair up, and none is left with nothing inside.
LEMMA MarkersPreserved ==
  ASSUME NEW g, NEW h, Call(g, h), NEW f \in Written
  PROVE  Preserved(f)
<1> SUFFICES ASSUME Balanced(Source)
             PROVE  /\ Balanced(f)
                    /\ Contexts(Says(f, Told(f))) = Contexts(Says(Source, Meant))
                    /\ \A i \in DOMAIN f : f[i].kind \in Starts => f[i + 1].kind # "lme"
  BY DEF Preserved
<1> DEFINE s == Source
           t == lines
           u == Kept
           m == Len(u)
           G == From(g, h)
<1>1. /\ s \in Seq(Line) /\ t \in Seq(Line) /\ u \in Seq(Line)
      /\ Len(s) \in Nat /\ Len(t) \in Nat /\ m \in Nat
  BY DEF Call, Thins
<1>2. Mirrors(g, Open(t)[Len(t)], Open(s)[Len(s)], Stay) /\ Open(s)[Len(s)] = {}
  BY ThinsIs DEF Call, Balanced
<1>3. /\ \A k \in 1 .. m : h[k] \in Valid /\ h[k] \in 1 .. Len(t) /\ u[k] = t[h[k]]
      /\ \A k \in 1 .. m : Mirrors(h, Open(u)[k - 1], Open(t)[h[k] - 1], Valid)
      /\ Mirrors(h, Open(u)[m], Open(t)[Len(t)], Valid)
  BY ThinsIs DEF Call
<1>4. /\ f \in Seq(Line) /\ Len(f) \in Nat /\ m \in 0 .. Len(f) /\ DOMAIN f = 1 .. Len(f)
      /\ \A k \in 1 .. Len(f) : k \in 1 .. m \/ (k = m + 1 /\ f[k] = Blank)
      /\ \A k \in 1 .. m : f[k] = u[k]
      /\ \A k \in 0 .. m : Open(f)[k] = Open(u)[k]
      /\ Open(f)[Len(f)] = Open(u)[m]
  <2>1. u \in Seq(Line) /\ f \in {u, Append(u, Blank)}
    BY <1>1 DEF Written
  <2> HIDE DEF u, m
  <2>2. /\ f \in Seq(Line) /\ m \in 0 .. Len(f) /\ DOMAIN f = 1 .. Len(f)
        /\ \A k \in 1 .. Len(f) : k \in 1 .. m \/ (k = m + 1 /\ f[k] = Blank)
        /\ \A k \in 1 .. m : f[k] = u[k]
    BY <2>1, WrittenIs DEF m
  <2>3. /\ \A k \in 0 .. m : Open(f)[k] = Open(u)[k]
        /\ Open(f)[Len(f)] = Open(u)[m]
    BY <2>1, WrittenIs DEF m
  <2>4. Len(f) \in Nat
    BY <2>2
  <2> QED
    BY <2>2, <2>3, <2>4
<1>5. Blank.kind = "stmt"
  BY DEF Blank
<1>7. Balanced(f)
  <2>1. Open(f)[Len(f)] = {}
    <3>1. Open(u)[m] = {}
      BY <1>2, <1>3 DEF Mirrors
    <3> QED
      BY <1>4, <3>1
  <2>2. ASSUME NEW k \in DOMAIN f, f[k].kind = "lme" PROVE Open(f)[k - 1] # {}
    <3>1. k \in 1 .. m /\ u[k].kind = "lme" /\ k - 1 \in 0 .. m
      BY <1>1, <1>4, <1>5, <2>2
    <3> DEFINE e == h[k]
    <3>2. e \in 1 .. Len(t) /\ t[e].kind = "lme" /\ e \in Valid /\ e - 1 \in 0 .. Len(t)
      BY <1>1, <1>3, <3>1
    <3>3. IsLast(partner[e], Open(t)[e - 1]) /\ (valid[e] <=> valid[partner[e]])
      BY <3>2, MarkedIs DEF Call, IsLast
    <3>4. partner[e] \in Open(t)[e - 1] /\ partner[e] \in 1 .. Len(t)
      <4>1. partner[e] \in Open(t)[e - 1]
        BY <3>3 DEF IsLast
      <4> QED
        BY <1>1, <3>2, <4>1, OpenIs
    <3>5. partner[e] \in Valid
      BY <1>1, <3>2, <3>3, <3>4 DEF Valid
    <3>6. Mirrors(h, Open(u)[k - 1], Open(t)[e - 1], Valid)
      BY <1>3, <3>1
    <3>7. Open(u)[k - 1] # {}
      BY <3>4, <3>5, <3>6 DEF Mirrors
    <3> QED
      BY <1>4, <3>1, <3>7
  <2> QED
    BY <2>1, <2>2 DEF Balanced
<1> DEFINE ks == Meant
           js == Told(f)
<1>8. Contexts(Says(f, js)) = Contexts(Says(s, ks))
  <2>1. /\ js \in SUBSET (1 .. Len(f)) /\ ks \in SUBSET (1 .. Len(s))
        /\ \A j \in js : j \in 1 .. m /\ f[j] = u[j] /\ G[j] \in ks /\ f[j] = s[G[j]]
        /\ \A i \in ks : \E j \in js : G[j] = i
        /\ \A i, j \in js : i < j => G[i] < G[j]
    BY ToldIs
  <2>2. \A j \in 1 .. m : u[j].kind = "stmt" => Chosen(f, Open(f)[j]) = Chosen(s, Open(s)[G[j]])
    BY SameAround
  <2>3. \A j \in js : f[j].kind = "stmt"
    BY DEF js, Told
  <2> HIDE DEF s, u, m, G, js, ks
  <2>4. /\ \A k \in 1 .. Len(f) : Around(f)[k] = <<f[k], Chosen(f, Open(f)[k])>>
        /\ \A k \in 1 .. Len(s) : Around(s)[k] = <<s[k], Chosen(s, Open(s)[k])>>
        /\ DOMAIN Around(f) = 1 .. Len(f) /\ DOMAIN Around(s) = 1 .. Len(s)
    <3>1. DOMAIN f = 1 .. Len(f) /\ DOMAIN s = 1 .. Len(s)
      BY <1>1, <1>4
    <3> QED
      BY <3>1 DEF Around
  <2>5. ASSUME NEW v \in Seq(Line)
        PROVE  (\E S : Around(v) \in Seq(S)) /\ Len(Around(v)) = Len(v)
    <3> DEFINE n == Len(v)
               C == {Around(v)[k] : k \in 1 .. n}
    <3>1. n \in Nat /\ DOMAIN v = 1 .. n
      OBVIOUS
    <3>2. Around(v) = [k \in 1 .. n |-> Around(v)[k]]
      BY <3>1 DEF Around
    <3>3. Around(v) \in [1 .. n -> C]
      BY <3>2
    <3> HIDE DEF C, n
    <3>4. Around(v) \in Seq(C) /\ Len(Around(v)) = n
      BY <3>1, <3>3
    <3> QED
      BY <3>4 DEF n
  <2>6. \A j \in js : G[j] \in ks /\ Around(f)[j] = Around(s)[G[j]]
    <3> SUFFICES ASSUME NEW j \in js
                 PROVE  G[j] \in ks /\ Around(f)[j] = Around(s)[G[j]]
      OBVIOUS
    <3>1. j \in 1 .. Len(f) /\ G[j] \in 1 .. Len(s) /\ G[j] \in ks /\ f[j] = s[G[j]]
      BY <2>1
    <3>2. Chosen(f, Open(f)[j]) = Chosen(s, Open(s)[G[j]])
      BY <2>1, <2>2, <2>3
    <3> QED
      BY <2>4, <3>1, <3>2
  <2>7. SameLines(Around(s), ks, Around(f), js, G)
    <3>1. /\ (\E S : Around(s) \in Seq(S)) /\ Len(Around(s)) = Len(s)
          /\ (\E S : Around(f) \in Seq(S)) /\ Len(Around(f)) = Len(f)
      BY <1>1, <1>4, <2>5
    <3>2. /\ \A i \in ks : \E j \in js : G[j] = i
          /\ \A i, j \in js : i < j => G[i] < G[j]
          /\ ks \in SUBSET (1 .. Len(Around(s))) /\ js \in SUBSET (1 .. Len(Around(f)))
      BY <2>1, <3>1
    <3> QED
      BY <2>6, <3>1, <3>2, Zenon DEF SameLines
  <2>8. Chosen(Around(f), js) = Chosen(Around(s), ks)
    BY <2>7, SameLinesChosen
  <2> QED
    BY <1>1, <1>4, <2>1, <2>8, SaysIs
<1>9. ASSUME NEW k \in DOMAIN f, f[k].kind \in Starts PROVE f[k + 1].kind # "lme"
  <2>1. k \in 1 .. m /\ u[k].kind \in Starts
    BY <1>1, <1>4, <1>5, <1>9 DEF Starts
  <2>2. CASE k = Len(f)
    <3>1. Open(f)[k] = {}
      BY <1>7, <2>2 DEF Balanced
    <3>2. Open(f)[k] = Open(f)[k - 1] \cup {k}
      BY <1>4, <1>9, OpenIs DEF After
    <3> QED
      BY <3>1, <3>2
  <2>3. CASE k # Len(f)
    <3>1. k + 1 \in 1 .. Len(f)
      BY <1>4, <1>9, <2>3
    <3>2. CASE k + 1 \in 1 .. m
      <4>1. k \in 1 .. m - 1
        BY <1>1, <2>1, <3>2
      <4>2. Tidy(u)
        BY KeptIsTidy DEF Call
      <4>3. u[k + 1].kind # "lme"
        BY <1>1, <2>1, <4>1, <4>2, TidyNoEmpty
      <4> QED
        BY <1>4, <3>2, <4>3
    <3> QED
      BY <1>4, <1>5, <3>1, <3>2
  <2> QED
    BY <2>2, <2>3
<1> QED
  BY <1>7, <1>8, <1>9 DEF s, ks, js

-----------------------------------------------------------------------------
(***************************************************************************)
(* The calls.                                                              *)
(***************************************************************************)
\* A result that every further call leaves as it is.
NoneMatched(t) == \A k \in 1 .. Len(t) : [line |-> t[k], ended |-> TRUE] \notin patterns /\ t[k] # Blank
Left(f, t)     == t \in Seq(Line) /\ f = Append(t, Blank) /\ Tidy(t) /\ NoneMatched(t)

\* A call reads the file that is there, of which all lines are ended in a second call.  A
\* file whose lines were all ended is such a result when it is written, and the calls from
\* then on work on its lines.
Given   == /\ file \in Seq(Line) /\ ended \in BOOLEAN /\ PatternsAre /\ runs \in Nat
           /\ step \in {"idle", "filtering", "failed"}
Before  == runs = 0 => step = "idle" /\ ended = original.ended
Reading == step = "filtering" =>
             /\ file = Source /\ ended = given.ended /\ lines = NotMatched(file, ended)
             /\ ended = (runs > 1 \/ original.ended)
Result  == Done => Exactly(file) /\ Preserved(file) /\ ended = TRUE
Settled == Done /\ (runs > 1 \/ original.ended) => \E t : Left(file, t)
Settles == runs > 1 /\ (runs > 2 \/ original.ended)
Again   == Settles => /\ step = "filtering" => Left(file, lines)
                      /\ Done => file = Source
FInv    == /\ MarkInv /\ NestInv /\ Given /\ Before /\ Reading
           /\ Result /\ Settled /\ Again

\* What a call writes is a result.
LEMMA CallResult ==
  ASSUME MarkInv, NestInv, Given, pc = "marked", Source \in Seq(Line),
         lines = NotMatched(Source, given.ended), NEW f \in Written
  PROVE  /\ Exactly(f) /\ Preserved(f)
         /\ given.ended = TRUE => Left(Append(Kept, Blank), Kept)
<1>1. \E g : Thins(Source, Stay, lines, g)
  BY MatchedThins DEF Given, Source, Stay
<1>2. PICK g : Thins(Source, Stay, lines, g)
  BY <1>1
<1>3. PICK h : Thins(lines, Valid, Kept, h)
  BY KeptThins
<1>4. Call(g, h)
  BY <1>2, <1>3 DEF Call, Given
<1>5. Exactly(f) /\ Preserved(f)
  BY <1>4, SaysTheSame, MarkersPreserved
<1>6. ASSUME given.ended = TRUE PROVE Left(Append(Kept, Blank), Kept)
  <2>1. Kept \in Seq(Line) /\ Tidy(Kept)
    BY KeptThins, KeptIsTidy
  <2>2. \A k \in 1 .. Len(Kept) : h[k] \in 1 .. Len(lines) /\ Kept[k] = lines[h[k]]
    BY <1>3, ThinsIs
  <2>3. \A k \in 1 .. Len(lines) : g[k] \in Stay /\ lines[k] = Source[g[k]]
    BY <1>2, ThinsIs
  <2>4. \A i \in Stay : [line |-> Source[i], ended |-> TRUE] \notin patterns /\ Source[i] # Blank
    BY <1>6 DEF Stay, Source, Unmatched, AsRead
  <2>5. NoneMatched(Kept)
    <3>1. \A k \in 1 .. Len(Kept) : g[h[k]] \in Stay /\ Kept[k] = Source[g[h[k]]]
      BY <2>2, <2>3
    <3> HIDE DEF Stay, Source
    <3> QED
      BY <2>4, <3>1, Zenon DEF NoneMatched
  <2> QED
    BY <2>1, <2>5 DEF Left
<1> QED
  BY <1>5, <1>6

\* Of such a result a call takes the empty line that was added, and no other.
LEMMA OnlyBlank ==
  ASSUME NEW f, NEW t, Left(f, t)
  PROVE  NotMatched(f, TRUE) = t
<1> DEFINE m == Len(t)
           id == [j \in 1 .. m |-> j]
<1>1. t \in Seq(Line) /\ m \in Nat /\ f = Append(t, Blank)
  BY DEF Left
<1>2. f \in Seq(Line) /\ Len(f) = m + 1 /\ DOMAIN f = 1 .. m + 1 /\ f[m + 1] = Blank
      /\ \A k \in 1 .. m : f[k] = t[k]
  <2>1. Blank \in Line
    BY NewLineIsText DEF Blank, Line
  <2> QED
    BY <1>1, <2>1
<1>3. \A k \in 1 .. m : [line |-> t[k], ended |-> TRUE] \notin patterns /\ t[k] # Blank
  BY DEF Left, NoneMatched
<1>4. \A k \in 1 .. m + 1 : k = m + 1 \/ k \in 1 .. m
  BY <1>1
<1>4a. \A k \in 1 .. m : k \in 1 .. m + 1
  BY <1>1
<1> HIDE DEF m
<1>5. Unmatched(f, TRUE) = 1 .. m
  <2>1. \A k : AsRead(f, TRUE, k) = [line |-> f[k], ended |-> TRUE]
    BY DEF AsRead
  <2> QED
    BY <1>2, <1>3, <1>4, <1>4a, <2>1 DEF Unmatched
<1>6. NotMatched(f, TRUE) = Chosen(f, 1 .. m)
  BY <1>5 DEF NotMatched
<1>7. SameLines(t, 1 .. m, f, 1 .. m, id)
  <2>1. \A j \in 1 .. m : id[j] = j
    OBVIOUS
  <2> HIDE DEF id
  <2>2. 1 .. m \in SUBSET (1 .. Len(f)) /\ 1 .. m \in SUBSET (1 .. Len(t))
    BY <1>2, <1>4a DEF m
  <2>3. /\ \A j \in 1 .. m : id[j] \in 1 .. m /\ f[j] = t[id[j]]
        /\ \A k \in 1 .. m : \E j \in 1 .. m : id[j] = k
        /\ \A i, j \in 1 .. m : i < j => id[i] < id[j]
    BY <1>2, <2>1
  <2>4. (\E S : t \in Seq(S)) /\ \E S : f \in Seq(S)
    BY <1>1, <1>2, Zenon
  <2> QED
    BY <2>2, <2>3, <2>4, Zenon DEF SameLines
<1>8. Chosen(f, 1 .. m) = Chosen(t, 1 .. m)
  BY <1>7, SameLinesChosen
<1>9. Chosen(t, 1 .. m) = t
  BY <1>1, AllChosen DEF m
<1> QED
  BY <1>6, <1>8, <1>9

\* What is said of a result is about the patterns and what the call was given.
LEMMA StaysSaid ==
  ASSUME patterns' = patterns, given' = given, NEW x, file' = x
  PROVE  (Exactly(file)' <=> Exactly(x)) /\ (Preserved(file)' <=> Preserved(x))
<1>1. Told(file)' = Told(x)
  BY DEF Told, Blank
<1>2. Meant' = Meant /\ Source' = Source
  BY DEF Meant, Told, Unmatched, AsRead, Blank, Source
<1>3. Says(file, Told(file))' = Says(x, Told(x))
  BY <1>1 DEF Says
<1>4. Says(Source, Meant)' = Says(Source, Meant)
  BY <1>2 DEF Says
<1>5. /\ Texts(Says(file, Told(file)))' = Texts(Says(x, Told(x)))
      /\ Contexts(Says(file, Told(file)))' = Contexts(Says(x, Told(x)))
  BY <1>3, Zenon DEF Texts, Contexts
<1>6. /\ Texts(Says(Source, Meant))' = Texts(Says(Source, Meant))
      /\ Contexts(Says(Source, Meant))' = Contexts(Says(Source, Meant))
  BY <1>4, Zenon DEF Texts, Contexts
<1>7. (Balanced(file)' <=> Balanced(x)) /\ (Balanced(Source)' <=> Balanced(Source))
  BY <1>2 DEF Balanced
<1>8. Exactly(file)' <=> Exactly(x)
  BY <1>5, <1>6 DEF Exactly
<1>9. Preserved(file)' <=> Preserved(x)
  BY <1>5, <1>6, <1>7 DEF Preserved
<1> QED
  BY <1>8, <1>9

\* Whether a result is left as it is depends on the patterns.
LEMMA StaysLeft ==
  ASSUME patterns' = patterns, NEW x, file' = x
  PROVE  (PatternsAre' <=> PatternsAre) /\ \A t : Left(file, t)' <=> Left(x, t)
BY DEF PatternsAre, Left, NoneMatched, Blank


\* At first no call was made.
LEMMA InitKeeps == Init => FInv
<1> SUFFICES ASSUME Init PROVE FInv
  OBVIOUS
<1>1. /\ file \in Inputs /\ ended \in BOOLEAN /\ step = "idle" /\ runs = 0 /\ MarkInit(<<>>)
      /\ original = [lines |-> file, ended |-> ended]
      /\ \E ls \in PatternSets : patterns = Patterns(ls)
  BY DEF Init
<1>2. <<>> \in Seq(Line)
  OBVIOUS
<1>3. MarkInv /\ NestInv
  BY <1>1, <1>2, NestBegins
<1>4. Given
  <2>1. file \in Seq(Line)
    BY <1>1, InputsAreLines
  <2>2. PatternsAre
    BY <1>1 DEF PatternsAre, Patterns
  <2> QED
    BY <1>1, <2>1, <2>2 DEF Given
<1>5. Before
  BY <1>1 DEF Before
<1> QED
  BY <1>1, <1>3, <1>4, <1>5 DEF FInv, Reading, Result, Settled, Again, Settles, Done

\* A call reads the file.  If it is one that is left as it is, the loop works on its lines.
LEMMA StartKeeps == FInv /\ Start => FInv'
<1> SUFFICES ASSUME FInv, Start PROVE FInv'
  OBVIOUS
<1>1. /\ step = "idle" /\ lines' = NotMatched(file, ended) /\ idx' = 1 /\ stk' = <<>>
      /\ pc' = "mark" /\ step' = "filtering" /\ runs' = runs + 1
      /\ file' = file /\ ended' = ended /\ original' = original /\ patterns' = patterns
      /\ given' = [lines |-> file, ended |-> ended]
      /\ valid' = [i \in 1 .. Len(lines') |-> FALSE]
      /\ partner' = [i \in 1 .. Len(lines') |-> 0]
  BY DEF Start, target
<1>2. Given /\ runs \in Nat /\ file \in Seq(Line) /\ PatternsAre
  BY DEF FInv, Given
<1>3. PICK x \in Seq(Line) : x = NotMatched(file, ended)
  BY <1>2, MatchedThins
<1>4. PICK y : y = file
  OBVIOUS
<1>5. (MarkInv /\ NestInv)'
  <2>1. MarkInit(x)'
    BY <1>1, <1>3 DEF MarkInit
  <2>2. (\E input \in Seq(Line) : MarkInit(input))'
    BY <2>1 DEF Line
  <2> QED
    BY <2>2, NestBegins, PTL
<1>6. (PatternsAre' <=> PatternsAre) /\ \A t : Left(file, t)' <=> Left(y, t)
  BY <1>1, <1>4, StaysLeft
<1>7. Given'
  BY <1>1, <1>2, <1>6 DEF Given, Line
<1>8. Before'
  BY <1>1, <1>2 DEF Before
<1>9. Reading'
  <2>1. NotMatched(file, ended)' = NotMatched(file, ended)
    BY <1>1 DEF NotMatched, Unmatched, AsRead, Blank
  <2>2. ended = (runs > 0 \/ original.ended)
    <3>1. CASE runs = 0
      BY <1>2, <3>1 DEF FInv, Before, Given
    <3>2. CASE runs > 0
      BY <1>1, <1>2, <3>2 DEF FInv, Result, Done
    <3> QED
      BY <1>2, <3>1, <3>2
  <2>3. runs' > 1 <=> runs > 0
    BY <1>1, <1>2
  <2>4. Source' = file
    BY <1>1 DEF Source
  <2> QED
    BY <1>1, <2>1, <2>2, <2>3, <2>4 DEF Reading
<1>10. Again'
  <2>1. Settles' => runs > 0 /\ (runs > 1 \/ original.ended)
    BY <1>1, <1>2 DEF Settles
  <2>2. SUFFICES ASSUME runs > 0, runs > 1 \/ original.ended PROVE Left(file, lines)'
    BY <1>1, <2>1 DEF Again, Done
  <2>3. PICK t : Left(file, t)
    BY <1>1, <2>2 DEF FInv, Settled, Done
  <2>4. ended = TRUE
    BY <1>1, <2>2 DEF FInv, Result, Done
  <2>5. x = t
    BY <1>3, <2>3, <2>4, OnlyBlank
  <2>6. Left(file, x)'
    BY <1>4, <1>6, <2>3, <2>5
  <2>7. x = lines'
    BY <1>1, <1>3
  <2> QED
    BY <2>6, <2>7 DEF Left, NoneMatched
<1>11. Result' /\ Settled'
  BY <1>1 DEF Result, Settled, Done
<1> QED
  BY <1>5, <1>7, <1>8, <1>9, <1>10, <1>11 DEF FInv

\* A turn of the loop changes none of the files, nor does nothing at all.
LEMMA SameCallKeeps ==
  ASSUME FInv, (MarkInv /\ NestInv)', lines' = lines, step' = step, runs' = runs, file' = file,
         ended' = ended, original' = original, given' = given, patterns' = patterns
  PROVE  FInv'
<1>1. PICK x : x = lines
  OBVIOUS
<1>2. PICK y : y = file
  OBVIOUS
<1>3. (Exactly(file)' <=> Exactly(y)) /\ (Preserved(file)' <=> Preserved(y))
  BY <1>2, StaysSaid
<1>4. (PatternsAre' <=> PatternsAre) /\ \A t : Left(file, t)' <=> Left(y, t)
  BY <1>2, StaysLeft
<1>5. Given' /\ Before'
  BY <1>4 DEF FInv, Given, Before, Line
<1>6. Reading'
  <2>1. NotMatched(file, ended)' = NotMatched(file, ended) /\ Source' = Source
    BY DEF NotMatched, Unmatched, AsRead, Blank, Source
  <2> QED
    BY <2>1 DEF FInv, Reading
<1>7. Result'
  BY <1>2, <1>3 DEF FInv, Result, Done
<1>8. Settled'
  <2>1. (\E t : Left(file, t))' <=> \E t : Left(file, t)
    BY <1>2, <1>4
  <2> QED
    BY <2>1 DEF FInv, Settled, Done
<1>9. Again'
  <2>1. Left(file, x)' <=> Left(file, x)
    BY <1>2, <1>4
  <2>2. Left(file, lines)' <=> Left(file, x)'
    BY <1>1 DEF Left, NoneMatched
  <2>3. Left(file, lines)' <=> Left(file, lines)
    BY <1>1, <2>1, <2>2
  <2> QED
    BY <2>3 DEF FInv, Again, Settles, Done, Source
<1> QED
  BY <1>5, <1>6, <1>7, <1>8, <1>9 DEF FInv

LEMMA LoopKeeps == FInv /\ Mark => FInv'
<1> SUFFICES ASSUME FInv, Mark PROVE FInv'
  OBVIOUS
<1>1. /\ MarkNext /\ step' = step /\ runs' = runs /\ file' = file /\ ended' = ended
      /\ original' = original /\ given' = given /\ patterns' = patterns
  BY DEF Mark, target, past
<1>2. lines' = lines
  BY <1>1 DEF MarkNext, StartMarker, EndMarker, Unbalanced, Statement, EndOfLines, Advance
<1>3. (MarkInv /\ NestInv)'
  BY <1>1, MarkStep, NestStep DEF FInv
<1> QED
  BY <1>1, <1>2, <1>3, SameCallKeeps

LEMMA StutterKeeps == FInv /\ UNCHANGED vars => FInv'
<1> SUFFICES ASSUME FInv, UNCHANGED vars PROVE FInv'
  OBVIOUS
<1>1. /\ step' = step /\ runs' = runs /\ UNCHANGED markVars /\ file' = file /\ ended' = ended
      /\ original' = original /\ given' = given /\ patterns' = patterns
  BY DEF vars, target, past
<1>2. lines' = lines
  BY <1>1 DEF markVars
<1>3. (MarkInv /\ NestInv)'
  BY <1>1, MarkStep, NestStep DEF FInv
<1> QED
  BY <1>1, <1>2, <1>3, SameCallKeeps

\* What is written is a result of the call, and it is left as it is if all lines were ended.
LEMMA ReplaceKeeps == FInv /\ Replace => FInv'
<1> SUFFICES ASSUME FInv, Replace PROVE FInv'
  OBVIOUS
<1>1. /\ step = "filtering" /\ pc = "marked" /\ step' = "idle" /\ ended' = TRUE
      /\ file' = (IF Unended THEN Kept ELSE Append(Kept, Blank))
      /\ original' = original /\ given' = given /\ patterns' = patterns /\ runs' = runs
      /\ UNCHANGED markVars
  BY DEF Replace, Padded, past
<1>2. /\ MarkInv /\ NestInv /\ Given /\ runs \in Nat /\ runs # 0 /\ PatternsAre
      /\ Source = file /\ Source \in Seq(Line) /\ ended = given.ended
      /\ lines = NotMatched(Source, given.ended)
      /\ given.ended = (runs > 1 \/ original.ended)
  BY <1>1 DEF FInv, Given, Before, Reading
<1>3. (MarkInv /\ NestInv)'
  BY <1>1, <1>2, MarkStep, NestStep
<1>4. PICK x : x = IF Unended THEN Kept ELSE Append(Kept, Blank)
  OBVIOUS
<1>5. x \in Written
  BY <1>4 DEF Written
<1>6. /\ Exactly(x) /\ Preserved(x)
      /\ given.ended = TRUE => Left(Append(Kept, Blank), Kept)
  BY <1>1, <1>2, <1>5, CallResult
<1>7. (Exactly(file)' <=> Exactly(x)) /\ (Preserved(file)' <=> Preserved(x))
  BY <1>1, <1>4, StaysSaid
<1>8. (PatternsAre' <=> PatternsAre) /\ \A t : Left(file, t)' <=> Left(x, t)
  BY <1>1, <1>4, StaysLeft
<1>9. x \in Seq(Line)
  <2>1. Kept \in Seq(Line)
    BY <1>1, <1>2, KeptThins
  <2> QED
    BY <1>5, <2>1, WrittenIs DEF Written
<1>10. Given'
  BY <1>1, <1>2, <1>4, <1>8, <1>9 DEF Given, Line
<1>11. Before' /\ Reading' /\ Result'
  BY <1>1, <1>2, <1>6, <1>7 DEF Before, Reading, Result
<1>12. Settled'
  <2>1. SUFFICES ASSUME runs > 1 \/ original.ended PROVE \E t : Left(file, t)'
    BY <1>1 DEF Settled
  <2>2. given.ended = TRUE
    BY <1>2, <2>1
  <2>3. x = Append(Kept, Blank)
    BY <1>2, <1>4, <2>2 DEF Unended
  <2>4. PICK k : k = Kept
    OBVIOUS
  <2>5. Left(x, k)
    BY <1>6, <2>2, <2>3, <2>4
  <2> QED
    BY <1>8, <2>5
<1>13. Again'
  <2>1. SUFFICES ASSUME Settles PROVE file' = Source
    BY <1>1 DEF Again, Settles, Source
  <2>2. Left(file, lines)
    BY <1>1, <2>1 DEF FInv, Again
  <2>3. Tidy(lines) /\ file = Append(lines, Blank)
    BY <2>2 DEF Left
  <2>4. Kept = lines
    BY <1>1, <1>2, <2>3, TidyIsKept
  <2>5. ~Unended
    BY <1>2, <2>1 DEF Unended, Settles
  <2> QED
    BY <1>1, <1>2, <2>3, <2>4, <2>5
<1> QED
  BY <1>3, <1>10, <1>11, <1>12, <1>13 DEF FInv

\* Nothing is said of a call that has failed.
LEMMA FailKeeps == FInv /\ Fail => FInv'
<1> SUFFICES ASSUME FInv, Fail PROVE FInv'
  OBVIOUS
<1>1. /\ step = "filtering" /\ step' = "failed" /\ runs' = runs /\ file' = file /\ ended' = ended
      /\ original' = original /\ patterns' = patterns /\ UNCHANGED markVars
  BY DEF Fail, target, past
<1>2. (MarkInv /\ NestInv)'
  BY <1>1, MarkStep, NestStep DEF FInv
<1>3. Given'
  BY <1>1 DEF FInv, Given, PatternsAre, Line
<1>4. runs # 0
  BY <1>1 DEF FInv, Before
<1> QED
  BY <1>1, <1>2, <1>3, <1>4 DEF FInv, Before, Reading, Result, Settled, Again, Done

\* Whatever is called, and however often.
LEMMA CallsInvariant == Spec => []FInv
<1>1. FInv /\ [Next]_vars => FInv'
  BY StartKeeps, LoopKeeps, ReplaceKeeps, FailKeeps, StutterKeeps DEF Next
<1> QED
  BY InitKeeps, <1>1, PTL DEF Spec

-----------------------------------------------------------------------------
\* In each call on a file, a pair of line markers is kept, both or neither, exactly when
\* a statement stands between them, and no statement is lost by the loop.
THEOREM MarksAreRight == Spec => []MarksRight
<1>1. FInv => MarksRight
  BY DEF FInv, MarkInv, MarksRight
<1> QED
  BY CallsInvariant, <1>1, PTL

\* The file that filter_out leaves has the statements of the one it was given that no
\* pattern matches, in their order, and no other.
THEOREM FilteredIsExact == Spec => []FilteredExactly
<1>1. FInv => FilteredExactly
  BY DEF FInv, Result, Exactly, Source, FilteredExactly
<1> QED
  BY CallsInvariant, <1>1, PTL

\* If the markers of the file pair up, its statements keep the markers around them, those
\* of the result pair up, and none of them is redundant.
THEOREM ContextIsPreserved == Spec => []ContextPreserved
<1>1. FInv => ContextPreserved
  BY DEF FInv, Result, Preserved, Source, ContextPreserved
<1> QED
  BY CallsInvariant, <1>1, PTL

\* To filter a result again with the same patterns changes nothing, but for the second
\* call on a file that had no newline at its end.
THEOREM FilteringIsIdempotent == Spec => []Idempotent
<1>1. FInv => Idempotent
  BY DEF FInv, Given, Again, Settles, Source, Idempotent, Done
<1> QED
  BY CallsInvariant, <1>1, PTL



-----------------------------------------------------------------------------
(***************************************************************************)
(* What the parser of neverallow rules has read (NeverallowParser) when it *)
(* is at a token of a statement.                                           *)
(***************************************************************************)
\* The place of token j, and that there are only blanks from p to it.
Place(a, j) == IF j \in DOMAIN a THEN a[j] ELSE End
Clear(a, p, j) ==
  /\ j \in 1 .. Len(a) + 1 /\ p \in 1 .. Place(a, j)
  /\ \A q \in p .. Place(a, j) - 1 : text[q] \in Space

\* Of a list that begins with token b, i tokens are read, and not all.
InList(a, p, open, b, comp, list, i) ==
  /\ i \in 0 .. Len(list) - 1 /\ open = Depth(list)[i]
  /\ IF i = 0 THEN Clear(a, p, b) ELSE Clear(a, p, b + Len(Tilde(comp)) + i)

\* ... of a type set
PutTo(list, i)   == {list[x] : x \in {y \in 1 .. i : ~IsTaken(list, y)}} \ (TypeMarks \cup {"self"})
TakenTo(list, i) == {list[x] : x \in {y \in 1 .. i : IsTaken(list, y)}}
StarTo(list, i)  == \E x \in 1 .. i : list[x] = "*"
SetTo(e, i) ==
  [flag   |-> IF e.comp THEN "comp" ELSE IF StarTo(e.list, i) THEN "star" ELSE "none",
   types  |-> Named(PutTo(e.list, i)), negset |-> Named(TakenTo(e.list, i))]
NegateAt(e, i) == i > 0 /\ e.list[i] = "-"
SelfTo(e, i)   == \E x \in 1 .. i : e.list[x] = "self"

\* The tokens of a statement that begin something.
TargetAt(s)  == 2 + Len(Tilde(s.source.comp)) + Len(s.source.list)
ColonAt(s)   == TargetAt(s) + Len(Tilde(s.target.comp)) + Len(s.target.list)
PermsAt(s)   == ColonAt(s) + 1 + Len(s.classes)
EndAt(s)     == PermsAt(s) + Len(Tilde(s.comp)) + Len(s.perms)

\* What the rule is after its parts.
EmptyRule(u, v) == [stypes |-> u, ttypes |-> v, self |-> FALSE, classes |-> {}, perms |-> {}]
WithSelf(r, b)  == IF b THEN [r EXCEPT !.self = TRUE] ELSE r
OfSelf(s) == "self" \in Range(s.target.list)
RuleWith(s, cs, ps) ==
  [stypes |-> Denoted(s.source), ttypes |-> Denoted(s.target), self |-> OfSelf(s),
   classes |-> cs, perms |-> ps]
Classes(s, i) == {s.classes[x] : x \in 1 .. i} \cap DOMAIN Perms
AllOf(s)   == UNION {{c} \X Perms[c] : c \in Classes(s, Len(s.classes))}
PermsTo(s, i) == {cp \in AllOf(s) : \E x \in 1 .. i : s.perms[x] = "*" \/ cp[2] = s.perms[x]}
RuleOf(s)  == RuleWith(s, Classes(s, Len(s.classes)), Granted(s))

\* While the statement s is read, with its tokens at the places a:
NoSet == set = EmptySet /\ ~negate

\* a list has been read, unless the text is at its end,
ListRead(s, a, j) ==
  IF pos = End THEN Len(a) < Len(Tokens(s)) ELSE openparens = 0 /\ Clear(a, pos, j)

\* some tokens of a type set have, and the base of the rule is r,
InTypes(a, e, b, r) ==
  \E i \in 0 .. Len(e.list) - 1 :
    /\ InList(a, pos, openparens, b, e.comp, e.list, i)
    /\ IF i = 0 THEN NoSet /\ rule = r
       ELSE set = SetTo(e, i) /\ (negate <=> NegateAt(e, i)) /\ rule = WithSelf(r, SelfTo(e, i))
TypesAre(e, r) ==
  pos # End => set = SetTo(e, Len(e.list)) /\ rule = WithSelf(r, "self" \in Range(e.list))

\* or some classes or permissions.
InClasses(s, a) ==
  \E i \in 0 .. Len(s.classes) - 1 :
    /\ InList(a, pos, openparens, ColonAt(s) + 1, FALSE, s.classes, i)
    /\ rule = RuleWith(s, Classes(s, i), {})
InPerms(s, a) ==
  \E i \in 0 .. Len(s.perms) - 1 :
    /\ InList(a, pos, openparens, PermsAt(s), s.comp, s.perms, i)
    /\ complement <=> (i # 0 /\ s.comp)
    /\ rule = RuleWith(s, Classes(s, Len(s.classes)), PermsTo(s, i))

Reads(s, a) ==
  /\ \/ loop = "stypes"  /\ InTypes(a, s.source, 2, EmptyRule({}, {}))
     \/ loop = "send"    /\ ListRead(s, a, TargetAt(s)) /\ TypesAre(s.source, EmptyRule({}, {}))
     \/ loop = "ttypes"  /\ InTypes(a, s.target, TargetAt(s), EmptyRule(Denoted(s.source), {}))
     \/ loop = "tend"    /\ ListRead(s, a, ColonAt(s)) /\ TypesAre(s.target, EmptyRule(Denoted(s.source), {}))
     \/ loop = "colon"   /\ Clear(a, pos, ColonAt(s)) /\ rule = RuleWith(s, {}, {}) /\ openparens = 0
     \/ loop = "classes" /\ InClasses(s, a)
     \/ loop = "cend"    /\ ListRead(s, a, PermsAt(s)) /\ (pos # End => rule = RuleWith(s, Classes(s, Len(s.classes)), {}))
     \/ loop = "perms"   /\ InPerms(s, a)
     \/ /\ loop = "pend"   /\ ListRead(s, a, EndAt(s))
        /\ pos # End => /\ complement <=> s.comp
                        /\ rule = RuleWith(s, Classes(s, Len(s.classes)), PermsTo(s, Len(s.perms)))
     \/ loop = "rest"    /\ Clear(a, pos, EndAt(s)) /\ rule = RuleOf(s) /\ openparens = 0
  /\ loop \notin {"stypes", "ttypes", "send", "tend"} => NoSet
  /\ loop \notin {"perms", "pend"} => ~complement
  /\ ok

\* Up to p, n statements begin.
KeywordAt(k)  == conf.at[k][1]
ScansTo(p, n) == \A k \in 1 .. Len(conf.statements) : k <= n <=> KeywordAt(k) < p
\* what is scanned does not begin within a word,
WordBegins(p) == p = 1 \/ p = End \/ text[p] \in Space \cup {";"}
Scans ==
  /\ pos \in 1 .. End /\ ScansTo(pos, Len(rules)) /\ WordBegins(pos)
  /\ openparens = 0 /\ NoSet /\ ~complement /\ ok

RulesRead ==
  /\ Len(rules) \in 0 .. Len(conf.statements)
  /\ rules = [x \in 1 .. Len(rules) |-> RuleOf(conf.statements[Len(rules) + 1 - x])]
  /\ conf.torn => Len(rules) < Len(conf.statements)
IsRight(r) ==
  /\ r[1] <=> (conf.statements # <<>> /\ ~conf.torn)
  /\ r[1] => Contents(r[2]) = Reverse([k \in DOMAIN conf.statements |-> Meaning(conf.statements[k])])

\* The next statement is read.
InStatement ==
  /\ Len(rules) < Len(conf.statements)
  /\ \E s \in {conf.statements[Len(rules) + 1]}, a \in {conf.at[Len(rules) + 1]} : Reads(s, a)

InWhole ==
  /\ text = Uncommented(conf.lines) /\ results = <<>> /\ RulesRead
  /\ \/ loop = "scan" /\ Scans
     \/ /\ loop = "end" /\ (ok <=> (conf.statements # <<>> /\ ~conf.torn))
        /\ ok => Len(rules) = Len(conf.statements)
     \/ InStatement
ReadInv ==
  /\ conf \in Files /\ stage \in {"whole", "filtered", "done"}
  /\ stage = "whole" => InWhole
  /\ stage = "filtered" => results = <<results[1]>> /\ IsRight(results[1])
  /\ stage = "done" => loop = "done" /\ results # <<>> /\ IsRight(results[1])

-----------------------------------------------------------------------------
(***************************************************************************)
(* Places in the text.                                                     *)
(***************************************************************************)
\* Sequences one after the other are a sequence.
JoinsTo(ss, n, f) == f = [k \in 1 .. n |-> IF k = 1 THEN ss[k] ELSE f[k - 1] \o ss[k]]

LEMMA JoinedIsSeq ==
  ASSUME NEW X, NEW ss \in Seq(Seq(X))
  PROVE  FlattenSeq(ss) \in Seq(X)
<1> DEFINE n == Len(ss)
           D == Seq(X)
           next == [k \in 1 .. n |-> [x \in D |-> x \o ss[k]]]
           f == CHOOSE f : JoinsTo(ss, n, f)
<1>1. n \in Nat /\ \A k \in 1 .. n : ss[k] \in D
  OBVIOUS
<1>2. CASE n = 0
  <2>1. FlattenSeq(ss) = ss /\ ss = <<>>
    BY <1>2 DEF FlattenSeq
  <2> QED
    BY <2>1
<1>3. CASE n # 0
  <2>1. \E g : Follows(g, n, D, <<>>, next)
    <3>1. \A x, y \in D : x \o y \in D
      OBVIOUS
    <3>2. \A k \in 1 .. n : next[k] \in [D -> D]
      <4> HIDE DEF D
      <4> QED
        BY <1>1, <3>1
    <3>3. <<>> \in D
      OBVIOUS
    <3> HIDE DEF D, next, n
    <3> QED
      BY <1>1, <3>2, <3>3, SomeFollows, Zenon
  <2>2. PICK g : Follows(g, n, D, <<>>, next)
    BY <2>1
  <2>3. \A k \in 1 .. n : g[k] = g[k - 1] \o ss[k] /\ g[k - 1] \in D /\ g[0] = <<>>
    <3>1. \A k \in 1 .. n : k - 1 \in 0 .. n
      BY <1>1
    <3> HIDE DEF D
    <3> QED
      BY <1>1, <2>2, <3>1 DEF Follows
  <2>4. \A k \in 1 .. n : g[k] = IF k = 1 THEN ss[k] ELSE g[k - 1] \o ss[k]
    <3>1. <<>> \o ss[1] = ss[1]
      BY <1>1, <1>3
    <3> HIDE DEF D, n
    <3>2. 1 - 1 = 0
      OBVIOUS
    <3> QED
      BY <2>3, <3>1, <3>2
  <2> DEFINE h == [k \in 1 .. n |-> g[k]]
  <2>5. JoinsTo(ss, n, h)
    <3>1. \A k \in 1 .. n : k # 1 => h[k - 1] = g[k - 1]
      BY <1>1
    <3> HIDE DEF n
    <3>2. \A k \in 1 .. n : h[k] = IF k = 1 THEN ss[k] ELSE h[k - 1] \o ss[k]
      BY <2>4, <3>1
    <3> QED
      BY <3>2 DEF JoinsTo
  <2>6. JoinsTo(ss, n, f)
    BY <2>5
  <2>7. FlattenSeq(ss) = f[n]
    BY <1>3 DEF FlattenSeq, JoinsTo
  <2> HIDE DEF f
  <2>8. \A k \in 1 .. n : f[k] = IF k = 1 THEN ss[k] ELSE f[k - 1] \o ss[k]
    BY <2>6 DEF JoinsTo
  <2> DEFINE Bad == {k \in 0 .. n : k # 0 /\ f[k] \notin D}
  <2>9. \A k \in 0 .. n : k # n /\ k \notin Bad => k + 1 \notin Bad
    <3>1. SUFFICES ASSUME NEW k \in 0 .. n, k # n, k \notin Bad PROVE f[k + 1] \in D
      OBVIOUS
    <3>2. k + 1 \in 1 .. n /\ k + 1 - 1 = k
      BY <1>1, <3>1
    <3>3. CASE k = 0
      BY <1>1, <2>8, <3>2, <3>3
    <3>4. CASE k # 0
      <4>1. f[k] \in D /\ ss[k + 1] \in D
        BY <1>1, <3>1, <3>2, <3>4
      <4>2. PICK j \in 1 .. n : j = k + 1 /\ j - 1 = k /\ j # 1
        BY <3>2, <3>4
      <4>3. f[j] = f[j - 1] \o ss[j]
        BY <2>8, <4>2, Zenon
      <4>4. f[j] = f[k] \o ss[j]
        BY <4>2, <4>3
      <4> QED
        BY <4>1, <4>2, <4>4
    <3> QED
      BY <3>3, <3>4
  <2>10. Bad = {}
    <3>1. Bad \subseteq 0 .. n /\ 0 \notin Bad
      OBVIOUS
    <3> HIDE DEF Bad, n
    <3> QED
      BY <1>1, <2>9, <3>1, Upward, Zenon
  <2>11. f[n] \in D
    BY <1>1, <1>3, <2>10
  <2> QED
    BY <2>7, <2>11
<1> QED
  BY <1>2, <1>3

\* Least is what it says.
LEMMA LeastIs ==
  ASSUME NEW M \in SUBSET Nat, NEW r \in M, \A m \in M : r <= m
  PROVE  Least(M) = r
<1>1. Least(M) \in M /\ \A m \in M : Least(M) <= m
  BY DEF Least
<1>2. Least(M) <= r /\ r <= Least(M) /\ Least(M) \in Nat /\ r \in Nat
  BY <1>1
<1> QED
  BY <1>2

LEMMA LeastIn ==
  ASSUME NEW M \in SUBSET Nat, M # {}
  PROVE  Least(M) \in M /\ \A m \in M : Least(M) <= m
<1>1. \E r \in M : \A m \in M : r <= m
  BY LeastNat, Zenon
<1> QED
  BY <1>1 DEF Least

\* The text of a file is a sequence of atoms.
Atoms == STRING \cup {LineEnd}

LEMMA UncommentedIsSeq ==
  ASSUME NEW ls \in Seq(Seq(STRING))
  PROVE  Uncommented(ls) \in Seq(Atoms)
<1> DEFINE ss == [k \in DOMAIN ls |-> Append(Code(ls[k]), LineEnd)]
<1>1. ASSUME NEW l \in Seq(STRING) PROVE Append(Code(l), LineEnd) \in Seq(Atoms)
  <2>1. l \in Seq(Atoms) /\ LineEnd \in Atoms
    <3>1. STRING \subseteq Atoms /\ LineEnd \in Atoms
      BY DEF Atoms
    <3>2. Seq(STRING) \subseteq Seq(Atoms)
      BY <3>1, SeqMonotonic, Zenon
    <3> QED
      BY <3>1, <3>2
  <2>2. Code(l) \in Seq(Atoms)
    <3> DEFINE M == Where(l, {"#"})
    <3>1. CASE HasComment(l)
      <4>1. M \in SUBSET Nat /\ M # {} /\ M \subseteq 1 .. Len(l)
        BY <3>1 DEF Where, HasComment
      <4>2. Least(M) \in 1 .. Len(l)
        <5> HIDE DEF M
        <5> QED
          BY <4>1, LeastIn
      <4>3. Code(l) = SubSeq(l, 1, Least(M) - 1)
        BY <3>1 DEF Code
      <4> HIDE DEF M
      <4>4. Least(M) - 1 \in Int /\ Least(M) - 1 <= Len(l)
        BY <4>2
      <4> QED
        BY <2>1, <4>3, <4>4
    <3>2. CASE ~HasComment(l)
      BY <2>1, <3>2 DEF Code
    <3> QED
      BY <3>1, <3>2
  <2> QED
    BY <2>1, <2>2
<1>2. DOMAIN ls = 1 .. Len(ls) /\ Len(ls) \in Nat /\ \A k \in DOMAIN ls : ls[k] \in Seq(STRING)
  OBVIOUS
<1>3. ss \in Seq(Seq(Atoms))
  <2>1. \A k \in 1 .. Len(ls) : Append(Code(ls[k]), LineEnd) \in Seq(Atoms)
    BY <1>1, <1>2, Zenon
  <2> QED
    BY <1>2, <2>1
<1> HIDE DEF ss
<1>4. FlattenSeq(ss) \in Seq(Atoms)
  BY <1>3, JoinedIsSeq, Zenon
<1> QED
  BY <1>4 DEF Uncommented, ss

\* Where a search from p ends.
LEMMA SkipToIs ==
  ASSUME text \in Seq(Atoms), NEW p \in Nat, NEW r \in p .. End, NEW atoms,
         r = End \/ text[r] \in atoms, \A q \in p .. r - 1 : text[q] \notin atoms
  PROVE  SkipTo(p, atoms) = r
<1> DEFINE M == {q \in p .. End : q = End \/ text[q] \in atoms}
<1>1. End \in Nat /\ M \in SUBSET Nat /\ r \in M
  BY DEF End
<1>2. \A m \in M : r <= m
  BY <1>1 DEF End
<1>3. SkipTo(p, atoms) = Least(M)
  BY DEF SkipTo
<1> HIDE DEF M
<1> QED
  BY <1>1, <1>2, <1>3, LeastIs

LEMMA SkipIs ==
  ASSUME text \in Seq(Atoms), NEW p \in Nat, NEW r \in p .. End,
         r = End \/ text[r] \notin Space, \A q \in p .. r - 1 : text[q] \in Space
  PROVE  Skip(p) = r
<1> DEFINE M == {q \in p .. End : q = End \/ text[q] \notin Space}
<1>1. End \in Nat /\ M \in SUBSET Nat /\ r \in M
  BY DEF End
<1>2. \A m \in M : r <= m
  BY <1>1 DEF End
<1>3. Skip(p) = Least(M)
  BY DEF Skip, SkipOver
<1> HIDE DEF M
<1> QED
  BY <1>1, <1>2, <1>3, LeastIs

LEMMA SkipEnds ==
  ASSUME text \in Seq(Atoms), NEW p \in 1 .. End
  PROVE  /\ Skip(p) \in p .. End /\ \A q \in p .. Skip(p) - 1 : text[q] \in Space
         /\ Skip(p) = End \/ text[Skip(p)] \notin Space
<1> DEFINE M == {q \in p .. End : q = End \/ text[q] \notin Space}
           r == Least(M)
<1>1. End \in Nat /\ M \in SUBSET Nat /\ End \in M
  BY DEF End
<1>2. r \in M /\ \A m \in M : r <= m
  <2> HIDE DEF M
  <2> QED
    BY <1>1, LeastIn
<1>3. Skip(p) = r
  BY DEF Skip, SkipOver
<1> HIDE DEF r
<1>4. \A q \in p .. r - 1 : q \in p .. End /\ q \notin M /\ q # End
  BY <1>1, <1>2
<1> QED
  BY <1>2, <1>3, <1>4

LEMMA SkipToEnds ==
  ASSUME text \in Seq(Atoms), NEW p \in 1 .. End, NEW atoms
  PROVE  /\ SkipTo(p, atoms) \in p .. End /\ \A q \in p .. SkipTo(p, atoms) - 1 : text[q] \notin atoms
         /\ SkipTo(p, atoms) = End \/ text[SkipTo(p, atoms)] \in atoms
<1> DEFINE M == {q \in p .. End : q = End \/ text[q] \in atoms}
           r == Least(M)
<1>1. End \in Nat /\ M \in SUBSET Nat /\ End \in M
  BY DEF End
<1>2. r \in M /\ \A m \in M : r <= m
  <2> HIDE DEF M
  <2> QED
    BY <1>1, LeastIn
<1>3. SkipTo(p, atoms) = r
  BY DEF SkipTo
<1> HIDE DEF r
<1>4. \A q \in p .. r - 1 : q \in p .. End /\ q \notin M /\ q # End
  BY <1>1, <1>2
<1> QED
  BY <1>2, <1>3, <1>4

\* What it is to stand in the text.
LEMMA StandsAt ==
  ASSUME text \in Seq(Atoms), NEW T, NEW a, Stands(text, T, a), Len(T) \in Nat
  PROVE  /\ a \in Seq(DOMAIN text) /\ Len(a) \in Nat /\ DOMAIN a = 1 .. Len(a) /\ Len(a) <= Len(T)
         /\ DOMAIN text = 1 .. Len(text) /\ Len(text) \in Nat /\ End = Len(text) + 1
         /\ 1 \in DOMAIN a
         /\ \A j \in DOMAIN a : a[j] \in 1 .. Len(text) /\ text[a[j]] = T[j]
<1>1. a \in Seq(DOMAIN text) /\ Len(a) \in 1 .. Len(T) /\ \A j \in DOMAIN a : text[a[j]] = T[j]
  BY DEF Stands
<1>2. DOMAIN text = 1 .. Len(text) /\ Len(text) \in Nat /\ End = Len(text) + 1
  BY DEF End
<1> QED
  BY <1>1, <1>2

\* Behind a token the next one comes, if the text has it.
LEMMA ClearNext ==
  ASSUME text \in Seq(Atoms), NEW T, NEW a, Stands(text, T, a), Len(T) \in Nat,
         NEW j \in DOMAIN a, j < Len(T)
  PROVE  Clear(a, a[j] + 1, j + 1)
<1>1. /\ Len(a) \in Nat /\ DOMAIN a = 1 .. Len(a) /\ Len(text) \in Nat /\ End = Len(text) + 1
      /\ \A i \in DOMAIN a : a[i] \in 1 .. Len(text)
  BY StandsAt, Zenon
<1>2. CASE j < Len(a)
  <2>1. PICK i \in 2 .. Len(a) : i = j + 1 /\ i - 1 = j /\ i \in DOMAIN a
    BY <1>1, <1>2
  <2>2. a[i - 1] < a[i] /\ \A q \in a[i - 1] + 1 .. a[i] - 1 : text[q] \in Space
    BY <2>1, Zenon DEF Stands
  <2>3. a[i] \in 1 .. Len(text) /\ a[j] \in 1 .. Len(text)
    BY <1>1, <2>1
  <2>4. Place(a, i) = a[i] /\ i \in 1 .. Len(a) + 1
    BY <1>1, <2>1 DEF Place
  <2>5. a[j] + 1 \in 1 .. a[i] /\ \A q \in a[j] + 1 .. a[i] - 1 : text[q] \in Space
    BY <2>1, <2>2, <2>3
  <2>6. Clear(a, a[j] + 1, i)
    BY <2>4, <2>5 DEF Clear
  <2> QED
    BY <2>1, <2>6
<1>3. CASE j = Len(a)
  <2>1. \A q \in a[Len(a)] + 1 .. Len(text) : text[q] \in Space
    BY <1>3 DEF Stands
  <2>2. j + 1 \notin DOMAIN a /\ Place(a, j + 1) = Len(text) + 1
    BY <1>1, <1>3 DEF Place, End
  <2> QED
    BY <1>1, <1>3, <2>1, <2>2 DEF Clear
<1> QED
  BY <1>1, <1>2, <1>3

\* Where blanks are skipped to.
LEMMA ClearSkip ==
  ASSUME text \in Seq(Atoms), NEW T, NEW a, Stands(text, T, a), Len(T) \in Nat,
         NEW p, NEW j, Clear(a, p, j), j \in DOMAIN a => T[j] \notin Space
  PROVE  /\ p \in 1 .. End /\ Place(a, j) \in 1 .. End /\ Skip(p) = Place(a, j)
         /\ (Place(a, j) = End <=> j \notin DOMAIN a)
         /\ j \in DOMAIN a => Place(a, j) = a[j] /\ text[a[j]] = T[j]
<1>1. /\ Len(a) \in Nat /\ DOMAIN a = 1 .. Len(a) /\ Len(text) \in Nat /\ End = Len(text) + 1
  BY StandsAt, Zenon
<1>2. \A i \in DOMAIN a : a[i] \in 1 .. Len(text) /\ text[a[i]] = T[i]
  <2> SUFFICES ASSUME NEW i \in DOMAIN a PROVE a[i] \in 1 .. Len(text) /\ text[a[i]] = T[i]
    OBVIOUS
  <2> QED
    BY StandsAt, SMT
<1>3. /\ p \in 1 .. Place(a, j) /\ Place(a, j) \in 1 .. End /\ (Place(a, j) = End <=> j \notin DOMAIN a)
      /\ (j \in DOMAIN a => Place(a, j) = a[j])
  BY <1>1, <1>2 DEF Clear, Place
<1>4. \A q \in p .. Place(a, j) - 1 : text[q] \in Space
  BY DEF Clear
<1>5. Place(a, j) = End \/ text[Place(a, j)] \notin Space
  BY <1>2, <1>3
<1>6. p \in Nat /\ Place(a, j) \in p .. End
  BY <1>1, <1>3
<1>7. Skip(p) = Place(a, j)
  BY <1>4, <1>5, <1>6, SkipIs, Zenon
<1> QED
  BY <1>1, <1>2, <1>3, <1>7

\* A word is one atom.
LEMMA WordEnds ==
  ASSUME text \in Seq(Atoms), NEW T, NEW a, Stands(text, T, a), Len(T) \in Nat,
         NEW j \in DOMAIN a, j < Len(T), NEW D, Space \subseteq D, T[j] \notin D,
         Together(T[j], T[j + 1]) => T[j + 1] \in D
  PROVE  SkipTo(a[j], D) = a[j] + 1
<1>1. /\ Len(a) \in Nat /\ DOMAIN a = 1 .. Len(a) /\ Len(text) \in Nat /\ End = Len(text) + 1
      /\ \A i \in DOMAIN a : a[i] \in 1 .. Len(text) /\ text[a[i]] = T[i]
  BY StandsAt, Zenon
<1>2. text[a[j]] \notin D
  BY <1>1
<1>3. a[j] + 1 = End \/ text[a[j] + 1] \in D
  <2>1. CASE j < Len(a)
    <3>1. PICK i \in 2 .. Len(a) : i = j + 1 /\ i - 1 = j /\ i \in DOMAIN a
      BY <1>1, <2>1
    <3>2. /\ a[i - 1] < a[i] /\ \A q \in a[i - 1] + 1 .. a[i] - 1 : text[q] \in Space
          /\ a[i] = a[i - 1] + 1 => Together(T[i - 1], T[i])
          /\ text[a[i]] = T[i]
      BY <3>1, Zenon DEF Stands
    <3>3. CASE a[i] = a[j] + 1
      BY <3>1, <3>2, <3>3
    <3>4. CASE a[i] # a[j] + 1
      <4>1. a[i] \in 1 .. Len(text)
        BY <1>1, <3>1
      <4>2. a[j] + 1 \in a[j] + 1 .. a[i] - 1
        BY <1>1, <3>1, <3>2, <3>4, <4>1
      <4> QED
        BY <3>1, <3>2, <4>2
    <3> QED
      BY <3>3, <3>4
  <2>2. CASE j = Len(a)
    <3>1. \A q \in a[Len(a)] + 1 .. Len(text) : text[q] \in Space
      BY <2>2 DEF Stands
    <3> QED
      BY <1>1, <2>2, <3>1
  <2> QED
    BY <1>1, <2>1, <2>2
<1>4. a[j] \in Nat /\ a[j] + 1 \in a[j] .. End /\ \A q \in a[j] .. a[j] + 1 - 1 : q = a[j]
  BY <1>1
<1>5. \A q \in a[j] .. a[j] + 1 - 1 : text[q] \notin D
  BY <1>2, <1>4
<1> QED
  BY <1>3, <1>4, <1>5, SkipToIs
\* A list that begins with token b.
ListFrom(T, b, list) == \A i \in 0 .. Len(list) - 1 : T[b + i] = list[i + 1]
TildeFrom(T, b, comp) == comp => T[b] = "~"

\* A turn of a loop over a list: the text is at its end, or the next token of the
\* list is read, after the tilde if there is one.
Turning(T, a, p, b, comp, list, i, tilde) ==
  \/ p = End /\ Len(a) < Len(T) /\ (tilde => comp)
  \/ \E j \in DOMAIN a :
       /\ p = a[j] /\ p # End /\ text[p] = T[j] /\ j < Len(T) /\ (tilde <=> (comp /\ i = 0))
       /\ j = b + Len(Tilde(comp)) + i /\ T[j] = list[i + 1]

LEMMA TildeLength ==
  ASSUME NEW comp \in BOOLEAN
  PROVE  /\ comp => Len(Tilde(comp)) = 1
         /\ ~comp => Len(Tilde(comp)) = 0
         /\ Len(Tilde(comp)) \in Nat
<1>1. CASE comp
  BY <1>1 DEF Tilde
<1>2. CASE ~comp
  BY <1>2 DEF Tilde
<1> QED
  BY <1>1, <1>2

\* ... where a token is read without a tilde before it
LEMMA PlainTurn ==
  ASSUME text \in Seq(Atoms), NEW T, NEW a, Stands(text, T, a), Len(T) \in Nat,
         NEW b, NEW comp \in BOOLEAN, NEW list, NEW i, i # 0 \/ ~comp,
         NEW j \in Nat, j = b + Len(Tilde(comp)) + i, j < Len(T),
         T[j] = list[i + 1], T[j] \notin Space, T[j] # "~",
         NEW p, Clear(a, p, j), NEW first, first = Skip(p), NEW tilde \in BOOLEAN,
         tilde <=> (first < End /\ text[first] = "~")
  PROVE  ~tilde /\ Turning(T, a, first, b, comp, list, i, tilde)
<1>1. /\ Len(a) \in Nat /\ DOMAIN a = 1 .. Len(a) /\ Len(a) <= Len(T) /\ Len(text) \in Nat
      /\ End = Len(text) + 1 /\ \A k \in DOMAIN a : a[k] \in 1 .. Len(text)
  BY StandsAt, Zenon
<1>2. /\ first = Place(a, j) /\ (Place(a, j) = End <=> j \notin DOMAIN a)
      /\ j \in DOMAIN a => Place(a, j) = a[j] /\ text[a[j]] = T[j]
  BY ClearSkip, Zenon
<1>3. CASE j \notin DOMAIN a
  <2>1. ~tilde /\ first = End
    BY <1>1, <1>2, <1>3
  <2>2. j \in 1 .. Len(a) + 1
    BY DEF Clear
  <2>3. Len(a) < Len(T)
    BY <1>1, <1>3, <2>2
  <2> QED
    BY <2>1, <2>3 DEF Turning
<1>4. CASE j \in DOMAIN a
  <2>1. ~tilde /\ first = a[j] /\ first # End /\ text[first] = T[j]
    BY <1>1, <1>2, <1>4
  <2> QED
    BY <1>4, <2>1, Zenon DEF Turning
<1> QED
  BY <1>3, <1>4

LEMMA ListTurn ==
  ASSUME text \in Seq(Atoms), NEW T, NEW a, Stands(text, T, a), Len(T) \in Nat,
         NEW b \in Nat \ {0}, NEW comp \in BOOLEAN, NEW list, Len(list) \in Nat,
         \A x \in 1 .. Len(list) : list[x] \notin Space \cup {"~"},
         TildeFrom(T, b, comp), ListFrom(T, b + Len(Tilde(comp)), list),
         b + Len(Tilde(comp)) + Len(list) <= Len(T),
         NEW p, NEW open, NEW i, InList(a, p, open, b, comp, list, i),
         NEW first, first = Skip(p), NEW tilde \in BOOLEAN,
         tilde <=> (first < End /\ text[first] = "~")
  PROVE  Turning(T, a, IF tilde THEN Skip(first + 1) ELSE first, b, comp, list, i, tilde)
<1> DEFINE r == IF tilde THEN Skip(first + 1) ELSE first
<1>1. /\ Len(a) \in Nat /\ DOMAIN a = 1 .. Len(a) /\ Len(a) <= Len(T) /\ Len(text) \in Nat
      /\ End = Len(text) + 1 /\ \A k \in DOMAIN a : a[k] \in 1 .. Len(text) /\ text[a[k]] = T[k]
  BY StandsAt, Zenon
<1>2. PICK c : c = b + Len(Tilde(comp))
  OBVIOUS
<1>3. c \in Nat /\ (comp => c = b + 1) /\ (~comp => c = b)
  <2>1. PICK w : w = Len(Tilde(comp))
    OBVIOUS
  <2>2. w \in Nat /\ (comp => w = 1) /\ (~comp => w = 0)
    BY <2>1, TildeLength, Zenon
  <2>3. c = b + w
    BY <1>2, <2>1
  <2> QED
    BY <2>2, <2>3
<1>4. i \in 0 .. Len(list) - 1 /\ (i = 0 => Clear(a, p, b)) /\ (i # 0 => Clear(a, p, c + i))
  BY <1>2 DEF InList
<1>5. PICK j \in Nat : j = c + i /\ j < Len(T)
  BY <1>2, <1>3, <1>4
<1>6. T[j] = list[i + 1] /\ T[j] \notin Space /\ T[j] # "~"
  <2>1. i + 1 \in 1 .. Len(list)
    BY <1>4
  <2>2. T[j] = list[i + 1]
    BY <1>2, <1>4, <1>5 DEF ListFrom
  <2> QED
    BY <2>1, <2>2
<1>7. CASE i # 0 \/ ~comp
  <2>1. Clear(a, p, j)
    BY <1>3, <1>4, <1>5, <1>7
  <2>2. ~tilde /\ Turning(T, a, first, b, comp, list, i, tilde)
    BY <1>2, <1>5, <1>6, <1>7, <2>1, PlainTurn, Zenon
  <2> QED
    BY <2>2
<1>8. CASE i = 0 /\ comp
  <2>1. T[b] = "~" /\ T[b] \notin Space /\ j = b + 1 /\ b < Len(T) /\ Clear(a, p, b)
    <3>1. T[b] = "~" /\ Clear(a, p, b)
      BY <1>4, <1>8 DEF TildeFrom
    <3>2. T[b] \notin Space
      BY <3>1 DEF Space, LineEnd
    <3>3. j = b + 1 /\ b < Len(T)
      BY <1>3, <1>5, <1>8
    <3> QED
      BY <3>1, <3>2, <3>3
  <2>2. /\ first = Place(a, b) /\ (Place(a, b) = End <=> b \notin DOMAIN a)
        /\ b \in DOMAIN a => Place(a, b) = a[b] /\ text[a[b]] = T[b]
    BY <2>1, ClearSkip, Zenon
  <2>3. CASE b \notin DOMAIN a
    <3>1. ~tilde /\ r = End
      BY <1>1, <2>2, <2>3
    <3>2. b \in 1 .. Len(a) + 1
      BY <2>1 DEF Clear
    <3>3. Len(a) < Len(T)
      BY <1>1, <2>1, <2>3, <3>2
    <3> QED
      BY <3>1, <3>3 DEF Turning
  <2>4. CASE b \in DOMAIN a
    <3>1. tilde /\ r = Skip(a[b] + 1)
      BY <1>1, <2>1, <2>2, <2>4
    <3>2. Clear(a, a[b] + 1, j)
      BY <2>1, <2>4, ClearNext
    <3>3. /\ r = Place(a, j) /\ (Place(a, j) = End <=> j \notin DOMAIN a)
          /\ j \in DOMAIN a => Place(a, j) = a[j] /\ text[a[j]] = T[j]
      BY <1>6, <3>1, <3>2, ClearSkip, Zenon
    <3> HIDE DEF r
    <3>4. CASE j \notin DOMAIN a
      <4>1. j \in 1 .. Len(a) + 1
        BY <3>2 DEF Clear
      <4>2. r = End /\ Len(a) < Len(T)
        BY <1>1, <1>5, <3>3, <3>4, <4>1
      <4> QED
        BY <1>8, <4>2 DEF Turning, r
    <3>5. CASE j \in DOMAIN a
      <4>1. /\ r = a[j] /\ r # End /\ text[r] = T[j] /\ j < Len(T) /\ (tilde <=> (comp /\ i = 0))
            /\ j = b + Len(Tilde(comp)) + i /\ T[j] = list[i + 1]
        BY <1>2, <1>5, <1>6, <1>8, <3>1, <3>3, <3>5
      <4> QED
        BY <3>5, <4>1, Zenon DEF Turning, r
    <3> QED
      BY <3>4, <3>5
  <2> QED
    BY <2>3, <2>4
<1> QED
  BY <1>7, <1>8
-----------------------------------------------------------------------------
(***************************************************************************)
(* How statements are written.                                             *)
(***************************************************************************)
LEMMA Joined ==
  ASSUME NEW X, NEW u \in Seq(X), NEW v \in Seq(X)
  PROVE  /\ u \o v \in Seq(X) /\ Len(u \o v) = Len(u) + Len(v)
         /\ Len(u) \in Nat /\ Len(v) \in Nat
         /\ \A i \in 1 .. Len(u) : (u \o v)[i] = u[i]
         /\ \A i \in 1 .. Len(v) : (u \o v)[Len(u) + i] = v[i]
OBVIOUS

\* What a list has, and how deep it is behind each token.
LEMMA ListIs ==
  ASSUME NEW list, NEW others, IsList(list, others)
  PROVE  /\ list \in Seq(Range(list)) /\ Len(list) \in Nat \ {0} /\ DOMAIN list = 1 .. Len(list)
         /\ \A x \in 1 .. Len(list) : IsWord(list[x]) \/ list[x] \in Brackets \cup others
<1>1. /\ list \in Seq(Range(list)) /\ list # <<>>
      /\ \A x \in Range(list) : IsWord(x) \/ x \in Brackets \cup others
  BY DEF IsList
<1>2. Len(list) \in Nat \ {0} /\ DOMAIN list = 1 .. Len(list)
  BY <1>1
<1>3. \A x \in 1 .. Len(list) : list[x] \in Range(list)
  BY <1>1
<1> QED
  BY <1>1, <1>2, <1>3

Change(x) == CASE x = "{" -> 1 [] x = "}" -> -1 [] OTHER -> 0
DepthsOf(list, f) ==
  f = [i \in 0 .. Len(list) |-> IF i = 0 THEN 0 ELSE f[i - 1] + Change(list[i])]

LEMMA DepthIs ==
  ASSUME NEW list, Len(list) \in Nat
  PROVE  Depth(list)[0] = 0 /\ \A i \in 1 .. Len(list) : Depth(list)[i] = Depth(list)[i - 1] + Change(list[i])
<1> DEFINE n == Len(list)
           next == [k \in 1 .. n |-> [x \in Int |-> x + Change(list[k])]]
           f == CHOOSE f : DepthsOf(list, f)
<1>1. \A x : Change(x) \in Int
  BY DEF Change
<1>2. \E g : Follows(g, n, Int, 0, next)
  <2>1. \A k \in 1 .. n : next[k] \in [Int -> Int]
    BY <1>1
  <2>2. n \in Nat /\ 0 \in Int
    OBVIOUS
  <2> HIDE DEF next, n
  <2> QED
    BY <2>1, <2>2, SomeFollows, Zenon
<1>3. PICK g : Follows(g, n, Int, 0, next)
  BY <1>2
<1>4. DepthsOf(list, g)
  <2>1. g \in [0 .. n -> Int] /\ g[0] = 0 /\ \A k \in 1 .. n : g[k] = next[k][g[k - 1]]
    BY <1>3 DEF Follows
  <2>2. \A k \in 1 .. n : g[k] = g[k - 1] + Change(list[k])
    <3>1. \A k \in 1 .. n : k - 1 \in 0 .. n
      OBVIOUS
    <3> QED
      BY <2>1, <3>1
  <2>3. g = [i \in 0 .. n |-> g[i]]
    BY <2>1
  <2>4. \A i \in 0 .. n : g[i] = IF i = 0 THEN 0 ELSE g[i - 1] + Change(list[i])
    BY <2>1, <2>2
  <2> HIDE DEF next
  <2> QED
    BY <2>3, <2>4 DEF DepthsOf
<1>5. DepthsOf(list, f)
  BY <1>4
<1>6. Depth(list) = f
  BY DEF Depth, DepthsOf, Change
<1> HIDE DEF f
<1>7. f = [i \in 0 .. n |-> IF i = 0 THEN 0 ELSE f[i - 1] + Change(list[i])]
  BY <1>5 DEF DepthsOf
<1>8. \A i \in 0 .. n : f[i] = IF i = 0 THEN 0 ELSE f[i - 1] + Change(list[i])
  BY <1>7
<1> QED
  BY <1>6, <1>8

\* The braces of a list are closed behind its last token, and not before.
Braced(list) ==
  /\ Len(list) \in Nat \ {0} /\ Depth(list)[0] = 0 /\ Depth(list)[Len(list)] = 0
  /\ \A i \in 1 .. Len(list) - 1 : Depth(list)[i] \in Nat \ {0}
  /\ \A i \in 1 .. Len(list) : Depth(list)[i] = Depth(list)[i - 1] + Change(list[i])

LEMMA ListBraced ==
  ASSUME NEW list, NEW others, IsList(list, others)
  PROVE  Braced(list)
<1> DEFINE S == {i \in 0 .. Len(list) : Depth(list)[i] \notin Int}
<1>1. Len(list) \in Nat \ {0}
  BY ListIs
<1>2. Depth(list)[0] = 0 /\ \A i \in 1 .. Len(list) : Depth(list)[i] = Depth(list)[i - 1] + Change(list[i])
  BY <1>1, DepthIs
<1>3. Depth(list)[Len(list)] = 0 /\ \A i \in 1 .. Len(list) - 1 : Depth(list)[i] > 0
  BY DEF IsList
<1>4. S = {}
  <2>1. S \subseteq 0 .. Len(list) /\ 0 \notin S
    BY <1>2
  <2>2. ASSUME NEW k \in 0 .. Len(list), k # Len(list), k \notin S PROVE k + 1 \notin S
    <3>1. k + 1 \in 1 .. Len(list) /\ k + 1 - 1 = k
      BY <1>1, <2>2
    <3>2. Depth(list)[k + 1] = Depth(list)[k] + Change(list[k + 1])
      BY <1>2, <3>1
    <3>3. Depth(list)[k] \in Int /\ Change(list[k + 1]) \in Int
      BY <2>2 DEF Change
    <3> QED
      BY <3>2, <3>3
  <2> HIDE DEF S
  <2> QED
    BY <1>1, <2>1, <2>2, Upward
<1>5. \A i \in 1 .. Len(list) - 1 : Depth(list)[i] \in Int
  BY <1>1, <1>4
<1>6. \A i \in 1 .. Len(list) - 1 : Depth(list)[i] \in Nat \ {0}
  BY <1>3, <1>5
<1> QED
  BY <1>1, <1>2, <1>3, <1>6 DEF Braced

LEMMA NamedMore ==
  ASSUME NEW ids, NEW x
  PROVE  /\ Named(ids \cup {x}) = Named(ids) \cup (IF IsName(x) THEN TypesOf(x) ELSE {})
         /\ Named({}) = {}
<1> DEFINE One0(id) == IF id \in Types THEN {id} ELSE IF id \in DOMAIN Members THEN Members[id] ELSE {}
<1>1. \A S : Named(S) = UNION {One0(id) : id \in S}
  BY DEF Named
<1>2. One0(x) = IF IsName(x) THEN TypesOf(x) ELSE {}
  BY DEF IsName, TypesOf
<1> HIDE DEF One0
<1>3. UNION {One0(id) : id \in ids \cup {x}} = (UNION {One0(id) : id \in ids}) \cup One0(x)
  <2>1. {One0(id) : id \in ids \cup {x}} = {One0(id) : id \in ids} \cup {One0(x)}
    OBVIOUS
  <2>2. ASSUME NEW S, NEW B PROVE UNION (S \cup {B}) = (UNION S) \cup B
    OBVIOUS
  <2> QED
    BY <2>1, <2>2
<1>4. UNION {One0(id) : id \in {}} = {}
  OBVIOUS
<1> QED
  BY <1>1, <1>2, <1>3, <1>4

\* Which tokens of a type set are taken out, and which are words.
LEMMA SetIs ==
  ASSUME NEW e, IsSet(e)
  PROVE  /\ e.list \in Seq(Range(e.list)) /\ Len(e.list) \in Nat \ {0} /\ DOMAIN e.list = 1 .. Len(e.list)
         /\ e.comp \in BOOLEAN
         /\ \A x \in 1 .. Len(e.list) : IsWord(e.list[x]) \/ e.list[x] \in TypeMarks \cup {"self"}
         /\ \A x \in 1 .. Len(e.list) : e.list[x] = "-" => x < Len(e.list) /\ IsWord(e.list[x + 1])
<1>1. e.comp \in BOOLEAN /\ IsList(e.list, {"*", "-", "self"})
  BY DEF IsSet
<1>2. /\ e.list \in Seq(Range(e.list)) /\ Len(e.list) \in Nat \ {0} /\ DOMAIN e.list = 1 .. Len(e.list)
      /\ \A x \in 1 .. Len(e.list) : IsWord(e.list[x]) \/ e.list[x] \in Brackets \cup {"*", "-", "self"}
  BY <1>1, ListIs
<1> QED
  BY <1>1, <1>2 DEF IsSet, TypeMarks

\* Before the first token.
LEMMA SetBegins ==
  ASSUME NEW e, IsSet(e)
  PROVE  /\ SetTo(e, 0) = [EmptySet EXCEPT !.flag = IF e.comp THEN "comp" ELSE "none"]
         /\ ~NegateAt(e, 0) /\ ~SelfTo(e, 0)
<1>1. PutTo(e.list, 0) = {} /\ TakenTo(e.list, 0) = {} /\ ~StarTo(e.list, 0)
  BY DEF PutTo, TakenTo, StarTo
<1>2. Named({}) = {}
  BY NamedMore
<1>3. ~NegateAt(e, 0) /\ ~SelfTo(e, 0)
  BY DEF NegateAt, SelfTo
<1> QED
  BY <1>1, <1>2, <1>3 DEF SetTo, EmptySet

\* One token more is put to the set, or taken out of it.
LEMMA PutMore ==
  ASSUME NEW list, NEW i \in Nat
  PROVE  PutTo(list, i + 1) =
           IF IsTaken(list, i + 1) \/ list[i + 1] \in TypeMarks \cup {"self"} THEN PutTo(list, i)
           ELSE PutTo(list, i) \cup {list[i + 1]}
<1>1. 1 .. i + 1 = (1 .. i) \cup {i + 1}
  OBVIOUS
<1>2. CASE IsTaken(list, i + 1)
  <2>1. {y \in 1 .. i + 1 : ~IsTaken(list, y)} = {y \in 1 .. i : ~IsTaken(list, y)}
    BY <1>1, <1>2
  <2> QED
    BY <1>2, <2>1 DEF PutTo
<1>3. CASE ~IsTaken(list, i + 1)
  <2>1. {y \in 1 .. i + 1 : ~IsTaken(list, y)} = {y \in 1 .. i : ~IsTaken(list, y)} \cup {i + 1}
    BY <1>1, <1>3
  <2> DEFINE A == {list[x] : x \in {y \in 1 .. i : ~IsTaken(list, y)}}
  <2>2. {list[x] : x \in {y \in 1 .. i + 1 : ~IsTaken(list, y)}} = A \cup {list[i + 1]}
    BY <2>1
  <2>3. PutTo(list, i) = A \ (TypeMarks \cup {"self"})
    BY DEF PutTo
  <2>4. PutTo(list, i + 1) = (A \cup {list[i + 1]}) \ (TypeMarks \cup {"self"})
    BY <2>2 DEF PutTo
  <2> HIDE DEF A
  <2> QED
    BY <1>3, <2>3, <2>4
<1> QED
  BY <1>2, <1>3

LEMMA TakenMore ==
  ASSUME NEW list, NEW i \in Nat
  PROVE  TakenTo(list, i + 1) =
           IF IsTaken(list, i + 1) THEN TakenTo(list, i) \cup {list[i + 1]} ELSE TakenTo(list, i)
<1>1. 1 .. i + 1 = (1 .. i) \cup {i + 1}
  OBVIOUS
<1>2. CASE ~IsTaken(list, i + 1)
  <2>1. {y \in 1 .. i + 1 : IsTaken(list, y)} = {y \in 1 .. i : IsTaken(list, y)}
    BY <1>1, <1>2
  <2> QED
    BY <1>2, <2>1 DEF TakenTo
<1>3. CASE IsTaken(list, i + 1)
  <2>1. {y \in 1 .. i + 1 : IsTaken(list, y)} = {y \in 1 .. i : IsTaken(list, y)} \cup {i + 1}
    BY <1>1, <1>3
  <2> QED
    BY <1>3, <2>1 DEF TakenTo
<1> QED
  BY <1>2, <1>3

\* What a token says of negation and of "self".
LEMMA MarkMore ==
  ASSUME NEW e, IsSet(e), NEW i \in 0 .. Len(e.list) - 1, NEW x, x = e.list[i + 1]
  PROVE  /\ NegateAt(e, i) <=> IsTaken(e.list, i + 1)
         /\ NegateAt(e, i + 1) <=> x = "-"
         /\ SelfTo(e, i + 1) <=> SelfTo(e, i) \/ x = "self"
         /\ StarTo(e.list, i + 1) <=> StarTo(e.list, i) \/ x = "*"
         /\ x \in TypeMarks \cup {"self"} => ~NegateAt(e, i)
         /\ x = "*" => ~e.comp
         /\ i \in Nat /\ (IsWord(x) \/ x \in TypeMarks \cup {"self"})
<1>1. Len(e.list) \in Nat /\ i \in Nat /\ i + 1 \in 1 .. Len(e.list) /\ i + 1 - 1 = i
  BY SetIs
<1>2. 1 .. i + 1 = (1 .. i) \cup {i + 1}
  BY <1>1
<1>3. NegateAt(e, i) <=> IsTaken(e.list, i + 1)
  BY <1>1 DEF NegateAt, IsTaken
<1>4. NegateAt(e, i + 1) <=> x = "-"
  BY <1>1 DEF NegateAt
<1>5. (SelfTo(e, i + 1) <=> SelfTo(e, i) \/ x = "self") /\ (StarTo(e.list, i + 1) <=> StarTo(e.list, i) \/ x = "*")
  BY <1>2 DEF SelfTo, StarTo
<1>6. NegateAt(e, i) => IsWord(x)
  <2>1. SUFFICES ASSUME NegateAt(e, i) PROVE IsWord(x)
    OBVIOUS
  <2>2. i \in 1 .. Len(e.list) /\ e.list[i] = "-"
    BY <1>1, <2>1 DEF NegateAt
  <2> QED
    BY <2>2, SetIs
<1>7. IsWord(x) => x \notin TypeMarks \cup {"self"}
  BY DEF IsWord, Reserved
<1>8. x = "*" => ~e.comp
  <2>1. x \in Range(e.list)
    BY <1>1, SetIs
  <2> QED
    BY <2>1 DEF IsSet
<1>9. IsWord(x) \/ x \in TypeMarks \cup {"self"}
  BY <1>1, SetIs
<1> QED
  BY <1>1, <1>3, <1>4, <1>5, <1>6, <1>7, <1>8, <1>9

\* One token more is read.
LEMMA SetStep ==
  ASSUME NEW e, IsSet(e), NEW i \in 0 .. Len(e.list) - 1, NEW x, x = e.list[i + 1]
  PROVE  /\ x = "*" => SetTo(e, i + 1) = [SetTo(e, i) EXCEPT !.flag = "star"]
         /\ x \in Brackets \cup {"-", "self"} => SetTo(e, i + 1) = SetTo(e, i)
         /\ x \notin TypeMarks \cup {"self"} =>
              SetTo(e, i + 1) = IF ~IsName(x) THEN SetTo(e, i)
                                ELSE IF NegateAt(e, i)
                                     THEN WithNegset(SetTo(e, i), TypesOf(x))
                                     ELSE WithTypes(SetTo(e, i), TypesOf(x))
<1> DEFINE Flag(k) == IF e.comp THEN "comp" ELSE IF StarTo(e.list, k) THEN "star" ELSE "none"
<1>1. ASSUME NEW k PROVE SetTo(e, k) = [flag |-> Flag(k), types |-> Named(PutTo(e.list, k)),
                                        negset |-> Named(TakenTo(e.list, k))]
  BY DEF SetTo
<1>2. /\ NegateAt(e, i) <=> IsTaken(e.list, i + 1)
      /\ x \in TypeMarks \cup {"self"} => ~NegateAt(e, i)
      /\ i \in Nat
  BY MarkMore
<1>3. x = "*" => Flag(i + 1) = "star"
  BY MarkMore
<1>4. x # "*" => Flag(i + 1) = Flag(i)
  BY MarkMore
<1> HIDE DEF Flag
<1>5. CASE x \in TypeMarks \cup {"self"}
  <2>1. PutTo(e.list, i + 1) = PutTo(e.list, i)
    BY <1>2, <1>5, PutMore
  <2>2. TakenTo(e.list, i + 1) = TakenTo(e.list, i)
    BY <1>2, <1>5, TakenMore
  <2>3. x = "*" => SetTo(e, i + 1) = [SetTo(e, i) EXCEPT !.flag = "star"]
    BY <1>1, <1>3, <2>1, <2>2
  <2>4. x # "*" => SetTo(e, i + 1) = SetTo(e, i)
    BY <1>1, <1>4, <2>1, <2>2
  <2>5. x \in Brackets \cup {"-", "self"} => x # "*"
    BY DEF Brackets
  <2> QED
    BY <1>5, <2>3, <2>4, <2>5
<1>6. CASE x \notin TypeMarks \cup {"self"}
  <2>1. x # "*" /\ x \notin Brackets \cup {"-", "self"}
    BY <1>6 DEF TypeMarks
  <2>2. PICK r, f, u, v, w : /\ r = SetTo(e, i) /\ f = Flag(i) /\ u = Named(PutTo(e.list, i))
                             /\ v = Named(TakenTo(e.list, i)) /\ w = TypesOf(x)
    OBVIOUS
  <2>3. r = [flag |-> f, types |-> u, negset |-> v]
    BY <1>1, <2>2
  <2>4. Flag(i + 1) = f
    BY <1>4, <2>1, <2>2
  <2>5. CASE NegateAt(e, i)
    <3>1. PutTo(e.list, i + 1) = PutTo(e.list, i)
      BY <1>2, <2>5, PutMore
    <3>2. TakenTo(e.list, i + 1) = TakenTo(e.list, i) \cup {x}
      BY <1>2, <2>5, TakenMore
    <3>3. Named(TakenTo(e.list, i + 1)) = Named(TakenTo(e.list, i)) \cup (IF IsName(x) THEN TypesOf(x) ELSE {})
      BY <3>2, NamedMore
    <3>4. SetTo(e, i + 1) = [flag |-> f, types |-> u, negset |-> v \cup (IF IsName(x) THEN w ELSE {})]
      BY <1>1, <2>2, <2>4, <3>1, <3>3
    <3>5. [r EXCEPT !.negset = @ \cup w] = [flag |-> f, types |-> u, negset |-> v \cup w]
      <4>1. r.negset = v
        BY <2>3
      <4>2. ASSUME NEW q PROVE [r EXCEPT !.negset = q] = [flag |-> f, types |-> u, negset |-> q]
        BY <2>3
      <4>3. [r EXCEPT !.negset = v \cup w] = [flag |-> f, types |-> u, negset |-> v \cup w]
        BY <4>2, Zenon
      <4> QED
        BY <4>1, <4>3, Zenon
    <3>6. CASE IsName(x)
      <4>1. SetTo(e, i + 1) = [flag |-> f, types |-> u, negset |-> v \cup w]
        BY <3>4, <3>6, Zenon
      <4>2. WithNegset(SetTo(e, i), TypesOf(x)) = [flag |-> f, types |-> u, negset |-> v \cup w]
        BY <2>2, <3>5, Zenon DEF WithNegset
      <4> QED
        BY <2>1, <2>5, <3>6, <4>1, <4>2, Zenon
    <3>7. CASE ~IsName(x)
      <4>1. v \cup {} = v
        OBVIOUS
      <4>2. SetTo(e, i + 1) = [flag |-> f, types |-> u, negset |-> v \cup {}]
        BY <3>4, <3>7, Zenon
      <4>3. SetTo(e, i + 1) = SetTo(e, i)
        BY <2>2, <2>3, <4>1, <4>2, Zenon
      <4> QED
        BY <2>1, <3>7, <4>3, Zenon
    <3> QED
      BY <3>6, <3>7
  <2>6. CASE ~NegateAt(e, i)
    <3>1. TakenTo(e.list, i + 1) = TakenTo(e.list, i)
      BY <1>2, <2>6, TakenMore
    <3>2. PutTo(e.list, i + 1) = PutTo(e.list, i) \cup {x}
      BY <1>2, <1>6, <2>6, PutMore
    <3>3. Named(PutTo(e.list, i + 1)) = Named(PutTo(e.list, i)) \cup (IF IsName(x) THEN TypesOf(x) ELSE {})
      BY <3>2, NamedMore
    <3>4. SetTo(e, i + 1) = [flag |-> f, types |-> u \cup (IF IsName(x) THEN w ELSE {}), negset |-> v]
      BY <1>1, <2>2, <2>4, <3>1, <3>3
    <3>5. [r EXCEPT !.types = @ \cup w] = [flag |-> f, types |-> u \cup w, negset |-> v]
      <4>1. r.types = u
        BY <2>3
      <4>2. ASSUME NEW q PROVE [r EXCEPT !.types = q] = [flag |-> f, types |-> q, negset |-> v]
        BY <2>3
      <4>3. [r EXCEPT !.types = u \cup w] = [flag |-> f, types |-> u \cup w, negset |-> v]
        BY <4>2, Zenon
      <4> QED
        BY <4>1, <4>3, Zenon
    <3>6. CASE IsName(x)
      <4>1. SetTo(e, i + 1) = [flag |-> f, types |-> u \cup w, negset |-> v]
        BY <3>4, <3>6, Zenon
      <4>2. WithTypes(SetTo(e, i), TypesOf(x)) = [flag |-> f, types |-> u \cup w, negset |-> v]
        BY <2>2, <3>5, Zenon DEF WithTypes
      <4> QED
        BY <2>1, <2>6, <3>6, <4>1, <4>2, Zenon
    <3>7. CASE ~IsName(x)
      <4>1. u \cup {} = u
        OBVIOUS
      <4>2. SetTo(e, i + 1) = [flag |-> f, types |-> u \cup {}, negset |-> v]
        BY <3>4, <3>7, Zenon
      <4>3. SetTo(e, i + 1) = SetTo(e, i)
        BY <2>2, <2>3, <4>1, <4>2, Zenon
      <4> QED
        BY <2>1, <3>7, <4>3, Zenon
    <3> QED
      BY <3>6, <3>7
  <2> QED
    BY <2>5, <2>6
<1> QED
  BY <1>5, <1>6

\* Behind the last token it is the set that is meant.
LEMMA SetEnds ==
  ASSUME NEW e, IsSet(e)
  PROVE  /\ Resolved(SetTo(e, Len(e.list))) = Denoted(e)
         /\ SelfTo(e, Len(e.list)) <=> "self" \in Range(e.list)
<1> DEFINE n == Len(e.list)
           P == Named(Put(e.list))
           M == Named(Taken(e.list))
           star == "*" \in Range(e.list)
           f == IF e.comp THEN "comp" ELSE IF star THEN "star" ELSE "none"
<1>1. n \in Nat /\ DOMAIN e.list = 1 .. n
  BY SetIs
<1>2. \A v : v \in Range(e.list) <=> \E x \in 1 .. n : e.list[x] = v
  BY <1>1 DEF Range
<1>3. PutTo(e.list, n) = Put(e.list) /\ TakenTo(e.list, n) = Taken(e.list)
  BY <1>1 DEF PutTo, Put, TakenTo, Taken
<1>4. (StarTo(e.list, n) <=> star) /\ (SelfTo(e, n) <=> "self" \in Range(e.list))
  BY <1>2 DEF StarTo, SelfTo
<1>5. P \subseteq Types
  BY NamesAreWords DEF Named
<1>6. SetTo(e, n) = [flag |-> f, types |-> P, negset |-> M]
  BY <1>3, <1>4 DEF SetTo
<1>7. (f = "star" <=> star) /\ (f = "comp" <=> e.comp)
  BY DEF IsSet
<1>8. Denoted(e) = LET all == (IF star THEN Types ELSE P) \ M
                   IN  IF e.comp THEN Types \ all ELSE all
  BY DEF Denoted
<1> HIDE DEF P, M, f, star
<1>9. Resolved(SetTo(e, n)) = LET all == (P \cup (IF f = "star" THEN Types ELSE {})) \ M
                              IN  IF f = "comp" THEN Types \ all ELSE all
  BY <1>6 DEF Resolved
<1>10. (P \cup (IF f = "star" THEN Types ELSE {})) = IF star THEN Types ELSE P
  BY <1>5, <1>7
<1>11. Resolved(SetTo(e, n)) = Denoted(e)
  BY <1>7, <1>8, <1>9, <1>10
<1> QED
  BY <1>4, <1>11 DEF n

\* A sequence begins with another one; it has another one behind place o.
BeginsWith(u, T)   == Len(u) <= Len(T) /\ \A i \in 1 .. Len(u) : T[i] = u[i]
Holds(T, o, v) == \A i \in 1 .. Len(v) : T[o + i] = v[i]

LEMMA PartOf ==
  ASSUME NEW X, NEW u \in Seq(X), NEW v \in Seq(X), NEW T, Len(T) \in Nat, BeginsWith(u \o v, T)
  PROVE  BeginsWith(u, T) /\ Holds(T, Len(u), v)
<1> DEFINE w == u \o v
<1>1. /\ Len(w) = Len(u) + Len(v) /\ Len(u) \in Nat /\ Len(v) \in Nat
      /\ \A i \in 1 .. Len(u) : w[i] = u[i]
      /\ \A i \in 1 .. Len(v) : w[Len(u) + i] = v[i]
  BY Joined
<1>2. Len(w) <= Len(T) /\ \A i \in 1 .. Len(w) : T[i] = w[i]
  BY DEF BeginsWith
<1> HIDE DEF w
<1>3. \A i \in 1 .. Len(u) : i \in 1 .. Len(w)
  BY <1>1
<1>4. \A i \in 1 .. Len(v) : Len(u) + i \in 1 .. Len(w)
  BY <1>1
<1>5. BeginsWith(u, T)
  BY <1>1, <1>2, <1>3 DEF BeginsWith
<1>6. Holds(T, Len(u), v)
  BY <1>1, <1>2, <1>4 DEF Holds
<1> QED
  BY <1>5, <1>6

LEMMA TildeHolds ==
  ASSUME NEW comp \in BOOLEAN, NEW X, "~" \in X
  PROVE  /\ Tilde(comp) \in Seq(X) /\ Len(Tilde(comp)) \in 0 .. 1
         /\ \A T, o : Holds(T, o, Tilde(comp)) => TildeFrom(T, o + 1, comp)
<1>1. CASE comp
  <2>1. Tilde(comp) = <<"~">>
    BY <1>1 DEF Tilde
  <2>2. ASSUME NEW T, NEW o, Holds(T, o, Tilde(comp)) PROVE T[o + 1] = "~"
    <3>1. 1 \in 1 .. Len(<<"~">>) /\ <<"~">>[1] = "~"
      OBVIOUS
    <3> QED
      BY <2>1, <2>2, <3>1 DEF Holds
  <2> QED
    BY <2>1, <2>2 DEF TildeFrom
<1>2. CASE ~comp
  <2>1. Tilde(comp) = <<>>
    BY <1>2 DEF Tilde
  <2> QED
    BY <1>2, <2>1 DEF TildeFrom
<1> QED
  BY <1>1, <1>2

LEMMA ListHolds ==
  ASSUME NEW T, NEW o \in Nat, NEW list, Len(list) \in Nat, Holds(T, o, list)
  PROVE  ListFrom(T, o + 1, list)
<1> SUFFICES ASSUME NEW i \in 0 .. Len(list) - 1 PROVE T[o + 1 + i] = list[i + 1]
  BY DEF ListFrom
<1>1. i + 1 \in 1 .. Len(list) /\ o + (i + 1) = o + 1 + i
  OBVIOUS
<1>2. T[o + (i + 1)] = list[i + 1]
  BY <1>1 DEF Holds
<1> QED
  BY <1>1, <1>2

LEMMA TokensAre ==
  ASSUME NEW s, IsStatement(s), NEW T, T = Tokens(s)
  PROVE  /\ Len(T) = EndAt(s) /\ TargetAt(s) \in Nat /\ ColonAt(s) \in Nat /\ PermsAt(s) \in Nat /\ EndAt(s) \in Nat
         /\ 2 < TargetAt(s) /\ TargetAt(s) < ColonAt(s) /\ ColonAt(s) + 1 < PermsAt(s) /\ PermsAt(s) < EndAt(s)
         /\ T[1] = "neverallow"
         /\ TildeFrom(T, 2, s.source.comp)
         /\ ListFrom(T, 2 + Len(Tilde(s.source.comp)), s.source.list)
         /\ TildeFrom(T, TargetAt(s), s.target.comp)
         /\ ListFrom(T, TargetAt(s) + Len(Tilde(s.target.comp)), s.target.list)
         /\ T[ColonAt(s)] = ":" /\ ListFrom(T, ColonAt(s) + 1, s.classes)
         /\ TildeFrom(T, PermsAt(s), s.comp)
         /\ ListFrom(T, PermsAt(s) + Len(Tilde(s.comp)), s.perms)
         /\ T[EndAt(s)] = ";"
<1> DEFINE X == Range(s.source.list) \cup Range(s.target.list) \cup Range(s.classes) \cup Range(s.perms)
                \cup {"neverallow", "~", ":", ";"}
           l1 == s.source.list
           l2 == s.target.list
           l3 == s.classes
           l4 == s.perms
           t1 == Tilde(s.source.comp)
           t2 == Tilde(s.target.comp)
           t3 == Tilde(s.comp)
<1>1. /\ IsSet(s.source) /\ IsSet(s.target) /\ IsList(s.classes, {}) /\ IsList(s.perms, {"*"})
      /\ s.source.comp \in BOOLEAN /\ s.target.comp \in BOOLEAN /\ s.comp \in BOOLEAN
  BY DEF IsStatement, IsSet
<1>2. /\ l1 \in Seq(X) /\ Len(l1) \in Nat \ {0} /\ l2 \in Seq(X) /\ Len(l2) \in Nat \ {0}
      /\ l3 \in Seq(X) /\ Len(l3) \in Nat \ {0} /\ l4 \in Seq(X) /\ Len(l4) \in Nat \ {0}
  <2>1. l1 \in Seq(Range(l1)) /\ Len(l1) \in Nat \ {0} /\ l2 \in Seq(Range(l2)) /\ Len(l2) \in Nat \ {0}
    BY <1>1, SetIs
  <2>2. l3 \in Seq(Range(l3)) /\ Len(l3) \in Nat \ {0} /\ l4 \in Seq(Range(l4)) /\ Len(l4) \in Nat \ {0}
    BY <1>1, ListIs, Zenon
  <2>3. Range(l1) \subseteq X /\ Range(l2) \subseteq X /\ Range(l3) \subseteq X /\ Range(l4) \subseteq X
    OBVIOUS
  <2> HIDE DEF X, l1, l2, l3, l4
  <2>4. /\ Seq(Range(l1)) \subseteq Seq(X) /\ Seq(Range(l2)) \subseteq Seq(X)
        /\ Seq(Range(l3)) \subseteq Seq(X) /\ Seq(Range(l4)) \subseteq Seq(X)
    BY <2>3, SeqMonotonic, Zenon
  <2> QED
    BY <2>1, <2>2, <2>4
<1>3. "neverallow" \in X /\ "~" \in X /\ ":" \in X /\ ";" \in X
  OBVIOUS
<1> HIDE DEF X
<1>4. /\ t1 \in Seq(X) /\ Len(t1) \in 0 .. 1 /\ \A V, o : Holds(V, o, t1) => TildeFrom(V, o + 1, s.source.comp)
      /\ t2 \in Seq(X) /\ Len(t2) \in 0 .. 1 /\ \A V, o : Holds(V, o, t2) => TildeFrom(V, o + 1, s.target.comp)
      /\ t3 \in Seq(X) /\ Len(t3) \in 0 .. 1 /\ \A V, o : Holds(V, o, t3) => TildeFrom(V, o + 1, s.comp)
  BY <1>1, <1>3, TildeHolds, Zenon
<1>5. /\ \A V : \A o \in Nat : Holds(V, o, l1) => ListFrom(V, o + 1, l1)
      /\ \A V : \A o \in Nat : Holds(V, o, l2) => ListFrom(V, o + 1, l2)
      /\ \A V : \A o \in Nat : Holds(V, o, l3) => ListFrom(V, o + 1, l3)
      /\ \A V : \A o \in Nat : Holds(V, o, l4) => ListFrom(V, o + 1, l4)
  <2> HIDE DEF l1, l2, l3, l4
  <2> QED
    BY <1>2, ListHolds
<1>6. ASSUME NEW x \in X PROVE <<x>> \in Seq(X) /\ Len(<<x>>) = 1 /\ <<x>>[1] = x
  OBVIOUS
<1> DEFINE w0 == <<"neverallow">>
           w1 == w0 \o t1
           w2 == w1 \o l1
           w3 == w2 \o t2
           w4 == w3 \o l2
           w5 == w4 \o <<":">>
           w6 == w5 \o l3
           w7 == w6 \o t3
           w8 == w7 \o l4
           w9 == w8 \o <<";">>
           a1 == Len(t1)
           b1 == Len(l1)
           a2 == Len(t2)
           b2 == Len(l2)
           b3 == Len(l3)
           a3 == Len(t3)
           b4 == Len(l4)
<1>7. T = w9
  BY DEF Tokens
<1>8. /\ w0 \in Seq(X) /\ Len(w0) = 1 /\ w0[1] = "neverallow"
      /\ <<":">> \in Seq(X) /\ Len(<<":">>) = 1 /\ <<":">>[1] = ":"
      /\ <<";">> \in Seq(X) /\ Len(<<";">>) = 1 /\ <<";">>[1] = ";"
  BY <1>3, <1>6, Zenon
<1>9. ASSUME NEW u \in Seq(X), NEW v \in Seq(X)
      PROVE  u \o v \in Seq(X) /\ Len(u \o v) = Len(u) + Len(v)
  BY Joined
<1>10. ASSUME NEW u \in Seq(X), NEW x \in X
       PROVE  u \o <<x>> \in Seq(X) /\ Len(u \o <<x>>) = Len(u) + 1
  OBVIOUS
<1>a. a1 \in 0 .. 1 /\ a2 \in 0 .. 1 /\ a3 \in 0 .. 1 /\ b1 \in Nat \ {0} /\ b2 \in Nat \ {0} /\ b3 \in Nat \ {0} /\ b4 \in Nat \ {0}
  BY <1>2, <1>4
<1> HIDE DEF t1, t2, t3, l1, l2, l3, l4, w0
<1>11. w1 \in Seq(X) /\ Len(w1) = 1 + a1
  BY <1>4, <1>8, <1>9
<1> HIDE DEF w1
<1>12. w2 \in Seq(X) /\ Len(w2) = 1 + a1 + b1
  BY <1>2, <1>5, <1>9, <1>11
<1> HIDE DEF w2
<1>13. w3 \in Seq(X) /\ Len(w3) = 1 + a1 + b1 + a2
  BY <1>4, <1>9, <1>12
<1> HIDE DEF w3
<1>14. w4 \in Seq(X) /\ Len(w4) = 1 + a1 + b1 + a2 + b2
  BY <1>2, <1>5, <1>9, <1>13
<1> HIDE DEF w4
<1>15. w5 \in Seq(X) /\ Len(w5) = 1 + a1 + b1 + a2 + b2 + 1
  <2>1. w5 \in Seq(X) /\ Len(w5) = Len(w4) + 1
    BY <1>3, <1>10, <1>14, Zenon
  <2> QED
    BY <1>14, <2>1
<1> HIDE DEF w5
<1>16. w6 \in Seq(X) /\ Len(w6) = 1 + a1 + b1 + a2 + b2 + 1 + b3
  BY <1>2, <1>5, <1>9, <1>15
<1> HIDE DEF w6
<1>17. w7 \in Seq(X) /\ Len(w7) = 1 + a1 + b1 + a2 + b2 + 1 + b3 + a3
  BY <1>4, <1>9, <1>16
<1> HIDE DEF w7
<1>18. w8 \in Seq(X) /\ Len(w8) = 1 + a1 + b1 + a2 + b2 + 1 + b3 + a3 + b4
  BY <1>2, <1>5, <1>9, <1>17
<1> HIDE DEF w8
<1>19. w9 \in Seq(X) /\ Len(w9) = 1 + a1 + b1 + a2 + b2 + 1 + b3 + a3 + b4 + 1
  <2>1. w9 \in Seq(X) /\ Len(w9) = Len(w8) + 1
    BY <1>3, <1>10, <1>18, Zenon
  <2> QED
    BY <1>18, <2>1
<1> HIDE DEF w9, a1, a2, a3, b1, b2, b3, b4
<1>20. Len(T) \in Nat
  BY <1>7, <1>19
<1>21. ASSUME NEW u \in Seq(X), NEW v \in Seq(X), BeginsWith(u \o v, T) PROVE BeginsWith(u, T) /\ Holds(T, Len(u), v)
  BY <1>20, <1>21, PartOf, Zenon
<1>22. BeginsWith(w9, T)
  BY <1>7, <1>20 DEF BeginsWith
<1>23. BeginsWith(w8, T) /\ Holds(T, Len(w8), <<";">>)
  BY <1>8, <1>18, <1>21, <1>22, Zenon DEF w9
<1>24. BeginsWith(w7, T) /\ Holds(T, Len(w7), l4)
  BY <1>2, <1>5, <1>17, <1>21, <1>23, Zenon DEF w8
<1>25. BeginsWith(w6, T) /\ Holds(T, Len(w6), t3)
  BY <1>4, <1>16, <1>21, <1>24, Zenon DEF w7
<1>26. BeginsWith(w5, T) /\ Holds(T, Len(w5), l3)
  BY <1>2, <1>5, <1>15, <1>21, <1>25, Zenon DEF w6
<1>27. BeginsWith(w4, T) /\ Holds(T, Len(w4), <<":">>)
  BY <1>8, <1>14, <1>21, <1>26, Zenon DEF w5
<1>28. BeginsWith(w3, T) /\ Holds(T, Len(w3), l2)
  BY <1>2, <1>5, <1>13, <1>21, <1>27, Zenon DEF w4
<1>29. BeginsWith(w2, T) /\ Holds(T, Len(w2), t2)
  BY <1>4, <1>12, <1>21, <1>28, Zenon DEF w3
<1>30. BeginsWith(w1, T) /\ Holds(T, Len(w1), l1)
  BY <1>2, <1>5, <1>11, <1>21, <1>29, Zenon DEF w2
<1>31. BeginsWith(w0, T) /\ Holds(T, Len(w0), t1)
  BY <1>4, <1>8, <1>21, <1>30, Zenon DEF w1
<1>32. /\ TargetAt(s) = 2 + a1 + b1 /\ ColonAt(s) = 2 + a1 + b1 + a2 + b2
       /\ PermsAt(s) = 2 + a1 + b1 + a2 + b2 + 1 + b3
       /\ EndAt(s) = 2 + a1 + b1 + a2 + b2 + 1 + b3 + a3 + b4
  BY DEF TargetAt, ColonAt, PermsAt, EndAt, a1, b1, a2, b2, a3, b3, b4, t1, t2, t3, l1, l2, l3, l4
<1>33. /\ TargetAt(s) \in Nat /\ ColonAt(s) \in Nat /\ PermsAt(s) \in Nat /\ EndAt(s) \in Nat
       /\ 2 < TargetAt(s) /\ TargetAt(s) < ColonAt(s) /\ ColonAt(s) + 1 < PermsAt(s) /\ PermsAt(s) < EndAt(s)
  <2>1. ColonAt(s) = TargetAt(s) + a2 + b2 /\ PermsAt(s) = ColonAt(s) + 1 + b3 /\ EndAt(s) = PermsAt(s) + a3 + b4
    BY <1>a, <1>32
  <2> QED
    BY <1>a, <1>32, <2>1
<1>34. /\ Len(w0) = 1 /\ 2 + a1 = Len(w1) + 1 /\ TargetAt(s) = Len(w2) + 1 /\ TargetAt(s) + a2 = Len(w3) + 1
       /\ ColonAt(s) = Len(w4) + 1 /\ ColonAt(s) + 1 = Len(w5) + 1 /\ PermsAt(s) = Len(w6) + 1
       /\ PermsAt(s) + a3 = Len(w7) + 1 /\ EndAt(s) = Len(w8) + 1 /\ Len(T) = EndAt(s)
       /\ Len(w1) \in Nat /\ Len(w3) \in Nat /\ Len(w5) \in Nat /\ Len(w7) \in Nat
  <2>1. Len(w0) = 1
    BY <1>8
  <2>2. Len(T) = 1 + a1 + b1 + a2 + b2 + 1 + b3 + a3 + b4 + 1
    BY <1>7, <1>19
  <2> HIDE DEF X
  <2> QED
    BY <1>a, <1>11, <1>12, <1>13, <1>14, <1>15, <1>16, <1>17, <1>18, <1>32, <2>1, <2>2
<1>35. T[1] = "neverallow"
  <2>1. 1 \in 1 .. Len(w0)
    BY <1>34
  <2> QED
    BY <1>8, <1>31, <2>1 DEF BeginsWith
<1>36. TildeFrom(T, 2, s.source.comp) /\ TildeFrom(T, TargetAt(s), s.target.comp) /\ TildeFrom(T, PermsAt(s), s.comp)
  <2>1. 1 + 1 = 2
    OBVIOUS
  <2>2. Holds(T, 1, t1) /\ Holds(T, Len(w2), t2) /\ Holds(T, Len(w6), t3)
    BY <1>25, <1>29, <1>31, <1>34
  <2>3. TildeFrom(T, 1 + 1, s.source.comp) /\ TildeFrom(T, Len(w2) + 1, s.target.comp) /\ TildeFrom(T, Len(w6) + 1, s.comp)
    BY <1>4, <2>2, Zenon
  <2> QED
    BY <1>34, <2>1, <2>3
<1>37. /\ ListFrom(T, 2 + a1, l1) /\ ListFrom(T, TargetAt(s) + a2, l2)
       /\ ListFrom(T, ColonAt(s) + 1, l3) /\ ListFrom(T, PermsAt(s) + a3, l4)
  <2>1. /\ ListFrom(T, Len(w1) + 1, l1) /\ ListFrom(T, Len(w3) + 1, l2)
        /\ ListFrom(T, Len(w5) + 1, l3) /\ ListFrom(T, Len(w7) + 1, l4)
    <3>0. Len(w1) \in Nat /\ Len(w3) \in Nat /\ Len(w5) \in Nat /\ Len(w7) \in Nat
      BY <1>34
    <3>1. ListFrom(T, Len(w1) + 1, l1)
      BY <1>5, <1>30, <3>0
    <3>2. ListFrom(T, Len(w3) + 1, l2)
      BY <1>5, <1>28, <3>0
    <3>3. ListFrom(T, Len(w5) + 1, l3)
      BY <1>5, <1>26, <3>0
    <3>4. ListFrom(T, Len(w7) + 1, l4)
      BY <1>5, <1>24, <3>0
    <3> QED
      BY <3>1, <3>2, <3>3, <3>4
  <2> QED
    BY <1>34, <2>1
<1>38. T[ColonAt(s)] = ":" /\ T[EndAt(s)] = ";"
  <2>1. ASSUME NEW o, NEW x \in X, Holds(T, o, <<x>>) PROVE T[o + 1] = x
    <3>1. 1 \in 1 .. Len(<<x>>) /\ <<x>>[1] = x
      OBVIOUS
    <3> QED
      BY <2>1, <3>1 DEF Holds
  <2>2. T[Len(w4) + 1] = ":" /\ T[Len(w8) + 1] = ";"
    BY <1>3, <1>23, <1>27, <2>1, Zenon
  <2> QED
    BY <1>34, <2>2
<1> QED
  BY <1>33, <1>34, <1>35, <1>36, <1>37, <1>38 DEF a1, a2, a3, t1, t2, t3, l1, l2, l3, l4

\* A token of a list.
LEMMA ListTokens ==
  ASSUME NEW T, NEW b \in Nat, NEW list, Len(list) \in Nat, ListFrom(T, b, list),
         NEW j \in b .. b + Len(list) - 1
  PROVE  \E x \in 1 .. Len(list) : T[j] = list[x]
<1>1. PICK i \in 0 .. Len(list) - 1 : i = j - b /\ b + i = j
  OBVIOUS
<1>2. T[b + i] = list[i + 1] /\ i + 1 \in 1 .. Len(list)
  BY DEF ListFrom
<1> QED
  BY <1>1, <1>2

\* There is one colon in a statement.
LEMMA NoColon ==
  ASSUME NEW s, IsStatement(s), NEW j \in ColonAt(s) + 1 .. EndAt(s)
  PROVE  Tokens(s)[j] # ":"
<1> DEFINE T == Tokens(s)
<1>1. /\ ColonAt(s) \in Nat /\ PermsAt(s) \in Nat /\ EndAt(s) \in Nat
      /\ ListFrom(T, ColonAt(s) + 1, s.classes) /\ TildeFrom(T, PermsAt(s), s.comp)
      /\ ListFrom(T, PermsAt(s) + Len(Tilde(s.comp)), s.perms) /\ T[EndAt(s)] = ";"
  BY TokensAre, Zenon
<1>2. /\ PermsAt(s) = ColonAt(s) + 1 + Len(s.classes)
      /\ EndAt(s) = PermsAt(s) + Len(Tilde(s.comp)) + Len(s.perms)
  BY DEF PermsAt, EndAt
<1>3. s.comp \in BOOLEAN /\ IsList(s.classes, {}) /\ IsList(s.perms, {"*"})
  BY DEF IsStatement
<1>4. (s.comp => Len(Tilde(s.comp)) = 1) /\ (~s.comp => Len(Tilde(s.comp)) = 0)
  <2>1. CASE s.comp
    BY <2>1 DEF Tilde
  <2>2. CASE ~s.comp
    BY <2>2 DEF Tilde
  <2> QED
    BY <2>1, <2>2
<1>5. ~IsWord(":") /\ ":" \notin Brackets \cup {} /\ ":" \notin Brackets \cup {"*"}
  BY DEF Brackets, IsWord, Reserved
<1>6. Len(s.classes) \in Nat /\ \A x \in 1 .. Len(s.classes) : s.classes[x] # ":"
  BY <1>3, <1>5, ListIs
<1>7. Len(s.perms) \in Nat /\ \A x \in 1 .. Len(s.perms) : s.perms[x] # ":"
  BY <1>3, <1>5, ListIs
<1>a. Len(s.classes) \in Nat /\ Len(s.perms) \in Nat
  BY <1>6, <1>7
<1> DEFINE c == ColonAt(s)
           m == Len(s.classes)
           p == PermsAt(s)
           u == Len(Tilde(s.comp))
           k == Len(s.perms)
<1>b. c \in Nat /\ m \in Nat /\ p \in Nat /\ u \in Nat /\ k \in Nat /\ j \in c + 1 .. p + u + k
      /\ p = c + 1 + m /\ EndAt(s) = p + u + k
  <2>1. u \in Nat
    BY <1>3, <1>4
  <2> QED
    BY <1>1, <1>2, <1>a, <2>1
<1> HIDE DEF T, c, m, p, u, k
<1>8. CASE j < p
  <2>1. j \in c + 1 .. c + 1 + m - 1 /\ c + 1 \in Nat
    BY <1>b, <1>8
  <2>2. \E x \in 1 .. Len(s.classes) : T[j] = s.classes[x]
    <3>1. /\ j \in c + 1 .. c + 1 + Len(s.classes) - 1 /\ ListFrom(T, c + 1, s.classes)
          /\ Len(s.classes) \in Nat
      BY <1>1, <1>6, <2>1 DEF c, m
    <3>2. PICK o \in Nat : o = c + 1
      BY <2>1
    <3>3. j \in o .. o + Len(s.classes) - 1 /\ ListFrom(T, o, s.classes) /\ Len(s.classes) \in Nat
      BY <3>1, <3>2
    <3> QED
      BY <3>3, ListTokens
  <2> QED
    BY <1>6, <2>2 DEF T
<1>9. CASE j >= p + u /\ j # p + u + k
  <2>1. p + u \in Nat /\ j \in p + u .. p + u + k - 1
    BY <1>b, <1>9
  <2>2. \E x \in 1 .. Len(s.perms) : T[j] = s.perms[x]
    <3>1. /\ j \in p + u .. p + u + Len(s.perms) - 1 /\ ListFrom(T, p + u, s.perms)
          /\ Len(s.perms) \in Nat
      BY <1>1, <1>7, <2>1 DEF p, u, k
    <3> QED
      BY <2>1, <3>1, ListTokens
  <2> QED
    BY <1>7, <2>2 DEF T
<1>10. CASE j = p + u + k
  BY <1>1, <1>b, <1>10 DEF T
<1>11. CASE j >= p /\ j < p + u
  <2>1. u # 0
    BY <1>b, <1>11
  <2>2. s.comp
    BY <1>3, <1>4, <2>1 DEF u
  <2>3. u = 1
    BY <1>4, <2>2 DEF u
  <2>4. j = p
    BY <1>b, <1>11, <2>3
  <2> QED
    BY <1>1, <2>2, <2>4 DEF TildeFrom, T, p
<1>12. j < p \/ (j >= p + u /\ j # p + u + k) \/ j = p + u + k \/ (j >= p /\ j < p + u)
  BY <1>b
<1> QED
  BY <1>8, <1>9, <1>10, <1>11, <1>12

-----------------------------------------------------------------------------
(***************************************************************************)
(* The turns of a loop over a list.                                        *)
(***************************************************************************)
Over(b, comp, list) == b + Len(Tilde(comp)) + Len(list)

\* What a turn at p has read, and where it is then: a brace is open, or the list is
\* over.
TurnedTo(T, a, p, b, comp, list, i) ==
  /\ i \in 0 .. Len(list) - 1 /\ text[p] = list[i + 1]
  /\ IF i + 1 < Len(list) THEN Opened(p) > 0 /\ InList(a, p + 1, Opened(p), b, comp, list, i + 1)
     ELSE Opened(p) = 0 /\ Clear(a, p + 1, Over(b, comp, list))

LEMMA TurnWord ==
  ASSUME text \in Seq(Atoms), NEW T, NEW a, Stands(text, T, a), Len(T) \in Nat,
         NEW j \in DOMAIN a, j < Len(T), NEW marks, NEW D, Space \subseteq D,
         T[j] \notin marks => T[j] \notin D /\ (Together(T[j], T[j + 1]) => T[j + 1] \in D)
  PROVE  Behind(a[j], marks, D) = a[j] + 1
<1>1. text[a[j]] = T[j]
  BY StandsAt
<1>2. CASE T[j] \in marks
  BY <1>1, <1>2 DEF Behind
<1>3. CASE T[j] \notin marks
  <2>1. SkipTo(a[j], D) = a[j] + 1
    BY <1>3, WordEnds
  <2> QED
    BY <1>1, <1>3, <2>1 DEF Behind
<1> QED
  BY <1>2, <1>3

\* A loop reads such a list: its tokens are marks, or words that end at a delimiter.
Turns(T, a, b, comp, list, marks, D) ==
  /\ text \in Seq(Atoms) /\ Stands(text, T, a) /\ Len(T) \in Nat
  /\ b \in Nat \ {0} /\ comp \in BOOLEAN /\ Braced(list)
  /\ Brackets \subseteq marks /\ Space \subseteq D
  /\ \A j \in b .. Len(T) - 1 : \A x \in 1 .. Len(list) :
       T[j] = list[x] /\ T[j] \notin marks =>
         T[j] \notin D /\ (Together(T[j], T[j + 1]) => T[j + 1] \in D)

\* How deep the list is before and behind its next token.
LEMMA ChangeIs ==
  ASSUME NEW x
  PROVE  /\ x = "{" => Change(x) = 1
         /\ x = "}" => Change(x) = 0 - 1
         /\ x \notin {"{", "}"} => Change(x) = 0
<1>1. CASE x = "{"
  BY <1>1 DEF Change
<1>2. CASE x = "}"
  <2>1. -1 = 0 - 1
    OBVIOUS
  <2>2. x # "{"
    BY <1>2
  <2>3. Change(x) = -1
    BY <1>2, <2>2, Zenon DEF Change
  <2> QED
    BY <1>2, <2>1, <2>2, <2>3
<1>3. CASE x \notin {"{", "}"}
  BY <1>3 DEF Change
<1> QED
  BY <1>1, <1>2, <1>3

LEMMA DepthTo ==
  ASSUME NEW list, Braced(list), NEW i \in 0 .. Len(list) - 1
  PROVE  /\ Depth(list)[i] \in Nat /\ (Depth(list)[i] = 0 <=> i = 0)
         /\ Depth(list)[i + 1] = Depth(list)[i] + Change(list[i + 1])
         /\ i + 1 < Len(list) => Depth(list)[i + 1] \in Nat \ {0}
         /\ i + 1 >= Len(list) => i + 1 = Len(list) /\ Depth(list)[i + 1] = 0
         /\ ~(list[i + 1] = "}" /\ Depth(list)[i] = 0)
<1>1. /\ Len(list) \in Nat \ {0} /\ Depth(list)[0] = 0 /\ Depth(list)[Len(list)] = 0
      /\ \A k \in 1 .. Len(list) - 1 : Depth(list)[k] \in Nat \ {0}
      /\ \A k \in 1 .. Len(list) : Depth(list)[k] = Depth(list)[k - 1] + Change(list[k])
  BY DEF Braced
<1>2. Depth(list)[i] \in Nat /\ (Depth(list)[i] = 0 <=> i = 0)
  <2>1. CASE i = 0
    BY <1>1, <2>1
  <2>2. CASE i # 0
    <3>1. i \in 1 .. Len(list) - 1
      BY <1>1, <2>2
    <3> QED
      BY <1>1, <2>2, <3>1
  <2> QED
    BY <2>1, <2>2
<1>3. Depth(list)[i + 1] = Depth(list)[i] + Change(list[i + 1])
  <2>1. i + 1 \in 1 .. Len(list) /\ i + 1 - 1 = i
    BY <1>1
  <2> QED
    BY <1>1, <2>1
<1>4. i + 1 < Len(list) => Depth(list)[i + 1] \in Nat \ {0}
  <2>1. i + 1 < Len(list) => i + 1 \in 1 .. Len(list) - 1
    BY <1>1
  <2> QED
    BY <1>1, <2>1
<1>5. i + 1 >= Len(list) => i + 1 = Len(list) /\ Depth(list)[i + 1] = 0
  <2>1. i + 1 >= Len(list) => i + 1 = Len(list)
    BY <1>1
  <2> QED
    BY <1>1, <2>1
<1>6. ~(list[i + 1] = "}" /\ Depth(list)[i] = 0)
  <2>1. SUFFICES ASSUME list[i + 1] = "}", Depth(list)[i] = 0 PROVE FALSE
    OBVIOUS
  <2>2. Depth(list)[i + 1] = 0 - 1
    <3>1. Change(list[i + 1]) = 0 - 1
      BY <2>1, ChangeIs
    <3>2. Depth(list)[i + 1] = 0 + (0 - 1)
      BY <1>3, <2>1, <3>1, Zenon
    <3>3. 0 + (0 - 1) = 0 - 1
      OBVIOUS
    <3> QED
      BY <3>2, <3>3
  <2>3. i + 1 < Len(list) \/ i + 1 >= Len(list)
    BY <1>1
  <2> QED
    BY <1>4, <1>5, <2>2, <2>3
<1> QED
  BY <1>2, <1>3, <1>4, <1>5, <1>6

LEMMA TurnTo ==
  ASSUME NEW T, NEW a, NEW b, NEW comp, NEW list, NEW marks, NEW D, Turns(T, a, b, comp, list, marks, D),
         NEW i \in 0 .. Len(list) - 1, openparens = Depth(list)[i], NEW tilde, NEW p,
         Turning(T, a, p, b, comp, list, i, tilde), p # End
  PROVE  /\ p \in 1 .. Len(text) /\ ~Unfit(p, marks, D) /\ Behind(p, marks, D) = p + 1
         /\ (p + 1 = End => Len(a) < Len(T)) /\ (tilde <=> (comp /\ i = 0))
         /\ TurnedTo(T, a, p, b, comp, list, i)
<1>0. /\ text \in Seq(Atoms) /\ Stands(text, T, a) /\ Len(T) \in Nat
      /\ b \in Nat \ {0} /\ comp \in BOOLEAN /\ Braced(list)
      /\ Brackets \subseteq marks /\ Space \subseteq D
      /\ \A j \in b .. Len(T) - 1 : \A x \in 1 .. Len(list) :
           T[j] = list[x] /\ T[j] \notin marks =>
             T[j] \notin D /\ (Together(T[j], T[j + 1]) => T[j + 1] \in D)
  BY DEF Turns
<1> USE <1>0
<1>1. /\ Len(a) \in Nat /\ DOMAIN a = 1 .. Len(a) /\ Len(a) <= Len(T) /\ Len(text) \in Nat
      /\ End = Len(text) + 1 /\ \A j \in DOMAIN a : a[j] \in 1 .. Len(text) /\ text[a[j]] = T[j]
  BY StandsAt
<1>2. PICK c : c = b + Len(Tilde(comp))
  OBVIOUS
<1>3. c \in Nat /\ b <= c /\ Len(list) \in Nat \ {0}
  <2>1. PICK w : w = Len(Tilde(comp))
    OBVIOUS
  <2>2. w \in Nat
    BY <2>1, TildeLength, Zenon
  <2>3. c = b + w
    BY <1>2, <2>1
  <2>4. Len(list) \in Nat \ {0}
    BY DEF Braced
  <2> QED
    BY <2>2, <2>3, <2>4
<1>4. PICK j \in DOMAIN a :
        /\ p = a[j] /\ text[p] = T[j] /\ j < Len(T) /\ (tilde <=> (comp /\ i = 0))
        /\ j = c + i /\ T[j] = list[i + 1]
  BY <1>2 DEF Turning
<1>5. /\ Depth(list)[i] \in Nat /\ (Depth(list)[i] = 0 <=> i = 0)
      /\ Depth(list)[i + 1] = Depth(list)[i] + Change(list[i + 1])
      /\ i + 1 < Len(list) => Depth(list)[i + 1] \in Nat \ {0}
      /\ i + 1 >= Len(list) => i + 1 = Len(list) /\ Depth(list)[i + 1] = 0
      /\ ~(list[i + 1] = "}" /\ Depth(list)[i] = 0)
  BY DepthTo, Zenon
<1>6. Opened(p) = Depth(list)[i + 1]
  <2>1. text[p] = list[i + 1]
    BY <1>4
  <2>0. openparens \in Nat
    BY <1>5
  <2>2. PICK x, d : x = text[p] /\ d = Change(x)
    OBVIOUS
  <2>3. /\ x = "{" => d = 1
        /\ x = "}" => d = 0 - 1
        /\ x \notin {"{", "}"} => d = 0
    BY <2>2, ChangeIs
  <2>4. Opened(p) = CASE x = "{" -> openparens + 1 [] x = "}" -> openparens - 1 [] OTHER -> openparens
    BY <2>2 DEF Opened
  <2>5. Opened(p) = openparens + d
    <3>1. x = "{" => Opened(p) = openparens + 1
      BY <2>4
    <3>2. x = "}" => Opened(p) = openparens - 1
      BY <2>4
    <3>3. x \notin {"{", "}"} => Opened(p) = openparens
      BY <2>4
    <3>4. \A m \in Nat : m + 1 = m + 1 /\ m - 1 = m + (0 - 1) /\ m = m + 0
      OBVIOUS
    <3>5. CASE x = "{"
      BY <2>3, <3>1, <3>5, Zenon
    <3>6. CASE x = "}"
      <4>1. d = 0 - 1 /\ Opened(p) = openparens - 1
        BY <2>3, <3>2, <3>6
      <4>2. openparens - 1 = openparens + (0 - 1)
        BY <2>0, <3>4
      <4> QED
        BY <4>1, <4>2, Zenon
    <3>7. CASE x \notin {"{", "}"}
      <4>1. d = 0 /\ Opened(p) = openparens
        BY <2>3, <3>3, <3>7
      <4>2. openparens = openparens + 0
        BY <2>0, <3>4
      <4> QED
        BY <4>1, <4>2, Zenon
    <3> QED
      BY <3>5, <3>6, <3>7
  <2> QED
    BY <1>5, <2>1, <2>2, <2>5
<1>7. Behind(p, marks, D) = p + 1
  <2>1. j \in b .. Len(T) - 1 /\ i + 1 \in 1 .. Len(list)
    BY <1>1, <1>3, <1>4
  <2>2. T[j] \notin marks => T[j] \notin D /\ (Together(T[j], T[j + 1]) => T[j + 1] \in D)
    BY <1>4, <2>1
  <2>3. j < Len(T) /\ p = a[j]
    BY <1>4
  <2>4. Behind(a[j], marks, D) = a[j] + 1
    BY <2>2, <2>3, TurnWord, Zenon
  <2> QED
    BY <2>3, <2>4
<1>8. p \in 1 .. Len(text)
  BY <1>1, <1>4
<1>9. ~Unfit(p, marks, D)
  <2>1. ~(text[p] = "}" /\ openparens = 0)
    BY <1>4, <1>5
  <2>2. p + 1 # p
    BY <1>8
  <2> QED
    BY <1>7, <2>1, <2>2 DEF Unfit
<1>10. Clear(a, p + 1, j + 1)
  BY <1>4, ClearNext
<1>11. p + 1 = End => Len(a) < Len(T)
  <2>1. SUFFICES ASSUME p + 1 = End, ~(Len(a) < Len(T)) PROVE FALSE
    OBVIOUS
  <2>2. j + 1 \in DOMAIN a
    BY <1>1, <1>4, <2>1
  <2>3. Place(a, j + 1) = a[j + 1] /\ a[j + 1] \in 1 .. Len(text)
    BY <1>1, <2>2 DEF Place
  <2>4. p + 1 \in 1 .. a[j + 1]
    BY <1>10, <2>3 DEF Clear
  <2> QED
    BY <1>1, <2>1, <2>3, <2>4
<1>12. TurnedTo(T, a, p, b, comp, list, i)
  <2>a. PICK n, d : n = Len(list) /\ d = Depth(list)[i + 1]
    OBVIOUS
  <2>b. /\ n \in Nat \ {0} /\ i \in 0 .. n - 1 /\ Opened(p) = d
        /\ i + 1 < n => d \in Nat \ {0}
        /\ i + 1 >= n => i + 1 = n /\ d = 0
    BY <1>3, <1>5, <1>6, <2>a
  <2>1. CASE i + 1 < Len(list)
    <3>1. Opened(p) > 0
      BY <2>a, <2>b, <2>1
    <3>2. i + 1 # 0 /\ i + 1 \in 0 .. Len(list) - 1 /\ j + 1 = c + (i + 1)
      BY <1>3, <1>4, <2>1
    <3>3. Clear(a, p + 1, b + Len(Tilde(comp)) + (i + 1))
      BY <1>2, <1>10, <3>2
    <3>4. InList(a, p + 1, Opened(p), b, comp, list, i + 1)
      BY <1>6, <3>2, <3>3 DEF InList
    <3> QED
      BY <1>4, <2>1, <3>1, <3>4 DEF TurnedTo
  <2>2. CASE ~(i + 1 < Len(list))
    <3>1. i + 1 = Len(list) /\ Opened(p) = 0
      BY <2>a, <2>b, <2>2
    <3>2. j + 1 = c + Len(list)
      <4>1. j = c + i /\ c \in Nat /\ i \in Nat /\ i + 1 = Len(list)
        BY <1>3, <1>4, <3>1
      <4> QED
        BY <4>1
    <3>3. Clear(a, p + 1, Over(b, comp, list))
      BY <1>2, <1>10, <3>2 DEF Over
    <3> QED
      BY <1>4, <2>2, <3>1, <3>3 DEF TurnedTo
  <2> QED
    BY <2>1, <2>2
<1> QED
  BY <1>4, <1>7, <1>8, <1>9, <1>11, <1>12

\* What a word of a type set does.
LEMMA SelfTwice ==
  ASSUME NEW u, NEW v, NEW r, r = EmptyRule(u, v), NEW q
  PROVE  [WithSelf(r, q) EXCEPT !.self = TRUE] = [r EXCEPT !.self = TRUE]
<1>1. CASE q
  <2>1. WithSelf(r, q) = [r EXCEPT !.self = TRUE]
    BY <1>1 DEF WithSelf
  <2>2. \A f, g : [[stypes |-> u, ttypes |-> v, self |-> f, classes |-> {}, perms |-> {}] EXCEPT !.self = g]
                    = [stypes |-> u, ttypes |-> v, self |-> g, classes |-> {}, perms |-> {}]
    OBVIOUS
  <2>3. r = [stypes |-> u, ttypes |-> v, self |-> FALSE, classes |-> {}, perms |-> {}]
    BY DEF EmptyRule
  <2>4. [r EXCEPT !.self = TRUE] = [stypes |-> u, ttypes |-> v, self |-> TRUE, classes |-> {}, perms |-> {}]
    BY <2>2, <2>3, Zenon
  <2>5. PICK w : w = [r EXCEPT !.self = TRUE]
    OBVIOUS
  <2>6. [w EXCEPT !.self = TRUE] = w
    BY <2>2, <2>4, <2>5, Zenon
  <2> QED
    BY <2>1, <2>5, <2>6
<1>2. CASE ~q
  BY <1>2 DEF WithSelf
<1> QED
  BY <1>1, <1>2

TypesetWord(x, s) ==
  IF x \in TypeMarks
  THEN /\ set' = IF x = "*" THEN [s EXCEPT !.flag = "star"] ELSE s
       /\ negate' = (negate \/ x = "-")
       /\ UNCHANGED rule
  ELSE ReadType(x, s)

LEMMA TypesetData ==
  ASSUME NEW e, IsSet(e), NEW i \in 0 .. Len(e.list) - 1, NEW x, x = e.list[i + 1],
         NEW u, NEW v, NEW r, r = EmptyRule(u, v),
         negate <=> NegateAt(e, i), rule = WithSelf(r, SelfTo(e, i)), TypesetWord(x, SetTo(e, i))
  PROVE  set' = SetTo(e, i + 1) /\ (negate' <=> NegateAt(e, i + 1)) /\ rule' = WithSelf(r, SelfTo(e, i + 1))
<1>1. /\ NegateAt(e, i + 1) <=> x = "-"
      /\ SelfTo(e, i + 1) <=> SelfTo(e, i) \/ x = "self"
      /\ x \in TypeMarks \cup {"self"} => ~NegateAt(e, i)
  BY MarkMore
<1>2. CASE x \in TypeMarks
  <2>1. x # "self" /\ (x = "*" \/ x \in Brackets \cup {"-", "self"})
    BY <1>2 DEF TypeMarks, Brackets
  <2>2. /\ set' = IF x = "*" THEN [SetTo(e, i) EXCEPT !.flag = "star"] ELSE SetTo(e, i)
        /\ negate' = (negate \/ x = "-") /\ rule' = rule
    BY <1>2 DEF TypesetWord
  <2>3. negate' <=> NegateAt(e, i + 1)
    BY <1>1, <1>2, <2>2
  <2>4. rule' = WithSelf(r, SelfTo(e, i + 1))
    BY <1>1, <2>1, <2>2 DEF WithSelf
  <2>5. x = "*" => SetTo(e, i + 1) = [SetTo(e, i) EXCEPT !.flag = "star"]
    BY SetStep
  <2>6. x \in Brackets \cup {"-", "self"} => SetTo(e, i + 1) = SetTo(e, i)
    BY SetStep
  <2>7. x \in Brackets \cup {"-", "self"} => x # "*"
    BY DEF Brackets
  <2>8. set' = SetTo(e, i + 1)
    BY <2>1, <2>2, <2>5, <2>6, <2>7
  <2> QED
    BY <2>3, <2>4, <2>8
<1>3. CASE x = "self"
  <2>1. SetTo(e, i + 1) = SetTo(e, i)
    BY <1>3, SetStep
  <2>2. set' = SetTo(e, i) /\ negate' = negate /\ rule' = [rule EXCEPT !.self = TRUE]
    BY <1>3 DEF TypesetWord, TypeMarks, Brackets, ReadType
  <2>3. negate' <=> NegateAt(e, i + 1)
    BY <1>1, <1>3, <2>2
  <2>4. rule' = WithSelf(r, SelfTo(e, i + 1))
    <3>1. [WithSelf(r, SelfTo(e, i)) EXCEPT !.self = TRUE] = [r EXCEPT !.self = TRUE]
      BY SelfTwice, Zenon
    <3> QED
      BY <1>1, <1>3, <2>2, <3>1 DEF WithSelf
  <2> QED
    BY <2>1, <2>2, <2>3, <2>4
<1>4. CASE x \notin TypeMarks \cup {"self"}
  <2>1. x # "-" /\ x # "self"
    BY <1>4 DEF TypeMarks
  <2>2. SetTo(e, i + 1) = IF ~IsName(x) THEN SetTo(e, i)
                          ELSE IF NegateAt(e, i) THEN WithNegset(SetTo(e, i), TypesOf(x))
                               ELSE WithTypes(SetTo(e, i), TypesOf(x))
    BY <1>4, SetStep, Zenon
  <2>3. ReadType(x, SetTo(e, i))
    BY <1>4 DEF TypesetWord
  <2>4. negate' = FALSE /\ rule' = rule
    BY <2>1, <2>3 DEF ReadType
  <2>5. set' = IF ~IsName(x) THEN SetTo(e, i)
               ELSE IF negate THEN WithNegset(SetTo(e, i), TypesOf(x))
                    ELSE WithTypes(SetTo(e, i), TypesOf(x))
    BY <2>1, <2>3 DEF ReadType
  <2>6. set' = SetTo(e, i + 1)
    <3>1. CASE NegateAt(e, i)
      BY <2>2, <2>5, <3>1
    <3>2. CASE ~NegateAt(e, i)
      BY <2>2, <2>5, <3>2
    <3> QED
      BY <3>1, <3>2
  <2>7. rule' = WithSelf(r, SelfTo(e, i + 1))
    BY <1>1, <2>1, <2>4 DEF WithSelf
  <2> QED
    BY <1>1, <2>1, <2>4, <2>6, <2>7
<1> QED
  BY <1>2, <1>3, <1>4

\* A turn of read_typeset.
ReadsTypes(T, a, e, b) ==
  /\ text \in Seq(Atoms) /\ Stands(text, T, a) /\ Len(T) \in Nat
  /\ IsSet(e) /\ b \in Nat \ {0} /\ TildeFrom(T, b, e.comp)
  /\ ListFrom(T, b + Len(Tilde(e.comp)), e.list) /\ Over(b, e.comp, e.list) <= Len(T)

LEMMA TypeDelimited ==
  ASSUME NEW T, NEW e, IsSet(e), NEW j, NEW x \in 1 .. Len(e.list), T[j] = e.list[x]
  PROVE  /\ T[j] \notin Space \cup {"~"}
         /\ T[j] \notin TypeMarks =>
              T[j] \notin TypeDelimiters /\ (Together(T[j], T[j + 1]) => T[j + 1] \in TypeDelimiters)
<1>1. IsWord(T[j]) \/ T[j] \in TypeMarks \cup {"self"}
  BY SetIs
<1>2. T[j] \notin Space \cup {"~", ":", ";", "#"}
  BY <1>1 DEF IsWord, Reserved, TypeMarks, Brackets, Space, LineEnd
<1>3. ASSUME T[j] \notin TypeMarks
      PROVE  T[j] \notin TypeDelimiters /\ (Together(T[j], T[j + 1]) => T[j + 1] \in TypeDelimiters)
  <2>1. T[j] \notin TypeDelimiters
    BY <1>2, <1>3 DEF TypeDelimiters, TypeMarks
  <2>2. T[j] \notin Brackets \cup {":", "-", "~"}
    BY <1>2, <1>3 DEF TypeMarks
  <2>3. Together(T[j], T[j + 1]) => T[j + 1] \in Brackets \cup {":", ";"}
    BY <2>2 DEF Together
  <2>4. Brackets \cup {":", ";"} \subseteq TypeDelimiters
    BY DEF TypeDelimiters
  <2> QED
    BY <2>1, <2>3, <2>4
<1> QED
  BY <1>2, <1>3

\* What it has of the set before, and where it is.
LEMMA TypesetAt ==
  ASSUME NEW T, NEW a, NEW e, NEW b, ReadsTypes(T, a, e, b), NEW u, NEW v, NEW r, r = EmptyRule(u, v),
         InTypes(a, e, b, r), NEW first, first = Skip(pos),
         NEW tilde \in BOOLEAN, tilde <=> (first < End /\ text[first] = "~")
  PROVE  \E i \in 0 .. Len(e.list) - 1 :
           /\ Turning(T, a, IF tilde THEN Skip(first + 1) ELSE first, b, e.comp, e.list, i, tilde)
           /\ openparens = Depth(e.list)[i]
           /\ i = 0 => set = EmptySet
           /\ i # 0 => set = SetTo(e, i)
           /\ (negate <=> NegateAt(e, i)) /\ rule = WithSelf(r, SelfTo(e, i))
<1> DEFINE list == e.list
           p == IF tilde THEN Skip(first + 1) ELSE first
<1>1. PICK i \in 0 .. Len(list) - 1 :
        /\ InList(a, pos, openparens, b, e.comp, list, i)
        /\ IF i = 0 THEN NoSet /\ rule = r
           ELSE set = SetTo(e, i) /\ (negate <=> NegateAt(e, i)) /\ rule = WithSelf(r, SelfTo(e, i))
  BY DEF InTypes
<1>2. e.comp \in BOOLEAN /\ Len(list) \in Nat
  BY SetIs DEF ReadsTypes
<1>3. \A x \in 1 .. Len(list) : list[x] \notin Space \cup {"~"}
  <2>1. \A x \in 1 .. Len(list) : list[x] \notin Space \cup {"~"}
    <3>1. SUFFICES ASSUME NEW x \in 1 .. Len(list) PROVE list[x] \notin Space \cup {"~"}
      OBVIOUS
    <3>2. list[x] = e.list[x] /\ IsSet(e)
      BY DEF ReadsTypes
    <3> QED
      BY <3>2, TypeDelimited
  <2> QED
    BY <2>1
<1> HIDE DEF list
<1>4. Turning(T, a, p, b, e.comp, list, i, tilde)
  <2>1. /\ text \in Seq(Atoms) /\ Stands(text, T, a) /\ Len(T) \in Nat
        /\ b \in Nat \ {0} /\ TildeFrom(T, b, e.comp)
        /\ ListFrom(T, b + Len(Tilde(e.comp)), list) /\ b + Len(Tilde(e.comp)) + Len(list) <= Len(T)
    BY DEF ReadsTypes, Over, list
  <2> QED
    BY <1>1, <1>2, <1>3, <2>1, ListTurn, Zenon
<1>5. openparens = Depth(list)[i]
  BY <1>1 DEF InList
<1>6. CASE i = 0
  <2>1. ~negate /\ set = EmptySet /\ rule = r
    BY <1>1, <1>6 DEF NoSet
  <2>2. ~NegateAt(e, 0) /\ ~SelfTo(e, 0)
    BY SetBegins DEF ReadsTypes
  <2>3. rule = WithSelf(r, SelfTo(e, i))
    BY <1>6, <2>1, <2>2 DEF WithSelf
  <2> QED
    BY <1>1, <1>4, <1>5, <1>6, <2>1, <2>2, <2>3 DEF list
<1>7. CASE i # 0
  BY <1>1, <1>4, <1>5, <1>7 DEF list
<1> QED
  BY <1>6, <1>7

LEMMA TypesetTurn ==
  ASSUME NEW T, NEW a, NEW e, NEW b, ReadsTypes(T, a, e, b), NEW u, NEW v, NEW r, r = EmptyRule(u, v),
         InTypes(a, e, b, r), ReadTypeset, NEW done, done = IF loop = "stypes" THEN "send" ELSE "tend"
  PROVE  \/ Err /\ Len(a) < Len(T)
         \/ \E p, i :
              /\ pos' = p + 1 /\ p \in 1 .. Len(text) /\ openparens' = Opened(p)
              /\ loop' = IF pos' < End /\ openparens' > 0 THEN loop ELSE done
              /\ p + 1 = End => Len(a) < Len(T)
              /\ TurnedTo(T, a, p, b, e.comp, e.list, i)
              /\ (negate <=> NegateAt(e, i)) /\ rule = WithSelf(r, SelfTo(e, i))
              /\ TypesetWord(text[p], SetTo(e, i))
              /\ UNCHANGED <<complement, rules, ok>>
<1> DEFINE first == Skip(pos)
           comp == first < End /\ text[first] = "~"
<1>1. PICK tilde \in BOOLEAN : tilde <=> comp
  BY Zenon
<1> DEFINE p == IF tilde THEN Skip(first + 1) ELSE first
           s == IF tilde THEN [set EXCEPT !.flag = "comp"] ELSE set
<1>2. IF Unfit(p, TypeMarks, TypeDelimiters) THEN Err
      ELSE /\ Turned(p, TypeMarks, TypeDelimiters, done)
           /\ IF text[p] \in TypeMarks
              THEN /\ set' = IF text[p] = "*" THEN [s EXCEPT !.flag = "star"] ELSE s
                   /\ negate' = (negate \/ text[p] = "-")
                   /\ UNCHANGED rule
              ELSE ReadType(Word(p, pos'), s)
           /\ UNCHANGED <<complement, rules, ok>>
  <2>1. CASE tilde
    BY <1>1, <2>1 DEF ReadTypeset
  <2>2. CASE ~tilde
    BY <1>1, <2>2 DEF ReadTypeset
  <2> QED
    BY <2>1, <2>2
<1>3. PICK i \in 0 .. Len(e.list) - 1 :
        /\ Turning(T, a, p, b, e.comp, e.list, i, tilde)
        /\ openparens = Depth(e.list)[i]
        /\ i = 0 => set = EmptySet
        /\ i # 0 => set = SetTo(e, i)
        /\ (negate <=> NegateAt(e, i)) /\ rule = WithSelf(r, SelfTo(e, i))
  BY <1>1, TypesetAt
<1> HIDE DEF p
<1>4. CASE p = End
  <2>1. Err
    BY <1>2, <1>4 DEF Unfit
  <2>2. Len(a) < Len(T)
    BY <1>3, <1>4 DEF Turning
  <2> QED
    BY <2>1, <2>2
<1>5. CASE p # End
  <2>1. /\ p \in 1 .. Len(text) /\ ~Unfit(p, TypeMarks, TypeDelimiters)
        /\ Behind(p, TypeMarks, TypeDelimiters) = p + 1
        /\ (p + 1 = End => Len(a) < Len(T)) /\ (tilde <=> (e.comp /\ i = 0))
        /\ TurnedTo(T, a, p, b, e.comp, e.list, i)
    <3>1. /\ text \in Seq(Atoms) /\ Stands(text, T, a) /\ Len(T) \in Nat /\ b \in Nat \ {0}
          /\ IsSet(e) /\ IsList(e.list, {"*", "-", "self"}) /\ e.comp \in BOOLEAN
      BY DEF ReadsTypes, IsSet
    <3>2. Braced(e.list)
      BY <3>1, ListBraced, Zenon
    <3>3. Brackets \subseteq TypeMarks /\ Space \subseteq TypeDelimiters
      BY DEF TypeMarks, TypeDelimiters
    <3>4. \A j \in b .. Len(T) - 1 : \A x \in 1 .. Len(e.list) :
            T[j] = e.list[x] /\ T[j] \notin TypeMarks =>
              T[j] \notin TypeDelimiters /\ (Together(T[j], T[j + 1]) => T[j + 1] \in TypeDelimiters)
      BY <3>1, TypeDelimited
    <3>5. Turning(T, a, p, b, e.comp, e.list, i, tilde) /\ openparens = Depth(e.list)[i]
      BY <1>3
    <3>6. Turns(T, a, b, e.comp, e.list, TypeMarks, TypeDelimiters)
      BY <3>1, <3>2, <3>3, <3>4 DEF Turns
    <3> HIDE DEF first, comp
    <3> QED
      BY <1>5, <3>5, <3>6, TurnTo
  <2>2. /\ Turned(p, TypeMarks, TypeDelimiters, done) /\ UNCHANGED <<complement, rules, ok>>
        /\ IF text[p] \in TypeMarks
           THEN /\ set' = IF text[p] = "*" THEN [s EXCEPT !.flag = "star"] ELSE s
                /\ negate' = (negate \/ text[p] = "-")
                /\ UNCHANGED rule
           ELSE ReadType(Word(p, pos'), s)
    BY <1>2, <2>1
  <2>3. pos' = p + 1 /\ openparens' = Opened(p) /\ loop' = IF pos' < End /\ openparens' > 0 THEN loop ELSE done
    BY <2>1, <2>2 DEF Turned
  <2>4. Word(p, pos') = text[p]
    BY <2>3 DEF Word
  <2>5. s = SetTo(e, i)
    <3>1. CASE i = 0
      <4>1. SetTo(e, 0) = [EmptySet EXCEPT !.flag = IF e.comp THEN "comp" ELSE "none"]
        BY SetBegins DEF ReadsTypes
      <4>2. EmptySet = [EmptySet EXCEPT !.flag = "none"]
        BY DEF EmptySet
      <4>3. set = EmptySet /\ (tilde <=> e.comp)
        BY <1>3, <2>1, <3>1
      <4> QED
        BY <3>1, <4>1, <4>2, <4>3
    <3>2. CASE i # 0
      BY <1>3, <2>1, <3>2
    <3> QED
      BY <3>1, <3>2
  <2>6. TypesetWord(text[p], SetTo(e, i))
    <3> HIDE DEF s
    <3>1. TypesetWord(text[p], s)
      BY <2>2, <2>4 DEF TypesetWord
    <3> QED
      BY <2>5, <3>1
  <2> QED
    BY <1>3, <2>1, <2>2, <2>3, <2>6
<1> QED
  BY <1>4, <1>5

\* The same with the primes outside.
LEMMA ListLater ==
  ASSUME text' = text, NEW q, pos' = q, NEW a, NEW j, NEW open, openparens' = open,
         NEW b, NEW comp, NEW list, NEW i
  PROVE  /\ Clear(a, q, j) => Clear(a, pos, j)'
         /\ InList(a, q, open, b, comp, list, i) => InList(a, pos, openparens, b, comp, list, i)'
<1>1. ASSUME NEW k PROVE Clear(a, q, k) => Clear(a, pos, k)'
  BY DEF Clear, Place, End
<1>2. InList(a, q, open, b, comp, list, i) => InList(a, pos, openparens, b, comp, list, i)'
  <2>1. ASSUME Clear(a, q, b) PROVE Clear(a, pos, b)'
    BY <1>1, <2>1
  <2>2. ASSUME Clear(a, q, b + Len(Tilde(comp)) + i) PROVE Clear(a, pos, b + Len(Tilde(comp)) + i)'
    BY <1>1, <2>2
  <2> QED
    BY <2>1, <2>2 DEF InList
<1> QED
  BY <1>1, <1>2

LEMMA TypesetStep ==
  ASSUME NEW s, NEW a, NEW e, NEW b, ReadsTypes(Tokens(s), a, e, b),
         NEW u, NEW v, NEW r, r = EmptyRule(u, v),
         InTypes(a, e, b, r), ReadTypeset, NEW done, done = IF loop = "stypes" THEN "send" ELSE "tend"
  PROVE  \/ Err /\ Len(a) < Len(Tokens(s))
         \/ /\ \/ loop' = loop /\ InTypes(a, e, b, r)'
               \/ loop' = done /\ ListRead(s, a, Over(b, e.comp, e.list))' /\ TypesAre(e, r)'
            /\ UNCHANGED <<complement, rules, ok>>
<1> DEFINE T == Tokens(s)
           list == e.list
           o == Over(b, e.comp, list)
<1>1. SUFFICES
        ASSUME \E p, i :
                 /\ pos' = p + 1 /\ p \in 1 .. Len(text) /\ openparens' = Opened(p)
                 /\ loop' = IF pos' < End /\ openparens' > 0 THEN loop ELSE done
                 /\ p + 1 = End => Len(a) < Len(T)
                 /\ TurnedTo(T, a, p, b, e.comp, list, i)
                 /\ (negate <=> NegateAt(e, i)) /\ rule = WithSelf(r, SelfTo(e, i))
                 /\ TypesetWord(text[p], SetTo(e, i))
                 /\ UNCHANGED <<complement, rules, ok>>
        PROVE  \/ loop' = loop /\ InTypes(a, e, b, r)'
               \/ loop' = done /\ ListRead(s, a, o)' /\ TypesAre(e, r)'
  BY TypesetTurn
<1>2. PICK p, i :
        /\ pos' = p + 1 /\ p \in 1 .. Len(text) /\ openparens' = Opened(p)
        /\ loop' = IF pos' < End /\ openparens' > 0 THEN loop ELSE done
        /\ p + 1 = End => Len(a) < Len(T)
        /\ TurnedTo(T, a, p, b, e.comp, list, i)
        /\ (negate <=> NegateAt(e, i)) /\ rule = WithSelf(r, SelfTo(e, i))
        /\ TypesetWord(text[p], SetTo(e, i))
  BY <1>1
<1>3. text' = text /\ End' = End /\ Len(text) \in Nat /\ End = Len(text) + 1
  BY DEF ReadTypeset, Unread, End, ReadsTypes
<1>4. CASE p + 1 = End
  <2>1. loop' = done
    BY <1>2, <1>3, <1>4
  <2>2. ListRead(s, a, o)' /\ TypesAre(e, r)'
    BY <1>2, <1>3, <1>4 DEF ListRead, TypesAre
  <2> QED
    BY <2>1, <2>2
<1>5. CASE p + 1 # End
  <2>1. pos' < End /\ pos' # End'
    BY <1>2, <1>3, <1>5
  <2>2. IsSet(e) /\ Len(list) \in Nat
    BY SetIs DEF ReadsTypes
  <2>3. i \in 0 .. Len(list) - 1 /\ text[p] = list[i + 1]
    BY <1>2 DEF TurnedTo
  <2>4. set' = SetTo(e, i + 1) /\ (negate' <=> NegateAt(e, i + 1)) /\ rule' = WithSelf(r, SelfTo(e, i + 1))
    <3>1. PICK x : x = text[p]
      OBVIOUS
    <3>2. TypesetWord(x, SetTo(e, i)) /\ x = e.list[i + 1]
      BY <1>2, <2>3, <3>1
    <3> QED
      BY <1>2, <2>2, <2>3, <3>2, TypesetData
  <2>5. CASE i + 1 < Len(list)
    <3>1. Opened(p) > 0 /\ InList(a, p + 1, Opened(p), b, e.comp, list, i + 1)
      BY <1>2, <2>5 DEF TurnedTo
    <3>2. loop' = loop
      BY <1>2, <2>1, <3>1
    <3>3. InList(a, pos, openparens, b, e.comp, list, i + 1)'
      <4>1. PICK q, z, c, k, open : q = p + 1 /\ z = list /\ c = e.comp /\ k = i + 1 /\ open = Opened(p)
        OBVIOUS
      <4> HIDE DEF list
      <4>2. InList(a, q, open, b, c, z, k)
        BY <3>1, <4>1
      <4>3. pos' = q /\ openparens' = open
        BY <1>2, <4>1
      <4>4. InList(a, pos, openparens, b, c, z, k)'
        BY <1>3, <4>2, <4>3, ListLater
      <4> QED
        BY <4>1, <4>4
    <3>4. i + 1 \in 0 .. Len(list) - 1 /\ i + 1 # 0
      BY <2>2, <2>3, <2>5
    <3>5. InTypes(a, e, b, r)'
      <4>1. PICK k : k = i + 1
        OBVIOUS
      <4>2. /\ k \in 0 .. Len(e.list) - 1 /\ k # 0 /\ InList(a, pos, openparens, b, e.comp, e.list, k)'
            /\ set' = SetTo(e, k) /\ (negate' <=> NegateAt(e, k)) /\ rule' = WithSelf(r, SelfTo(e, k))
        BY <2>4, <3>3, <3>4, <4>1
      <4> QED
        BY <4>2 DEF InTypes
    <3> QED
      BY <3>2, <3>5
  <2>6. CASE ~(i + 1 < Len(list))
    <3>1. Opened(p) = 0 /\ Clear(a, p + 1, o)
      BY <1>2, <2>6 DEF TurnedTo
    <3>2. i + 1 = Len(list)
      BY <2>2, <2>3, <2>6
    <3>3. loop' = done /\ openparens' = 0
      BY <1>2, <3>1
    <3>4. Clear(a, pos, o)'
      <4>1. PICK q, z : q = p + 1 /\ z = o
        OBVIOUS
      <4> HIDE DEF o
      <4>2. Clear(a, q, z)
        BY <3>1, <4>1
      <4>3. Clear(a, pos, z)'
        BY <1>2, <1>3, <4>1, <4>2 DEF Clear, Place, End
      <4> QED
        BY <4>1, <4>3
    <3>5. SelfTo(e, Len(list)) <=> "self" \in Range(e.list)
      BY <2>2, SetEnds
    <3>6. set' = SetTo(e, Len(e.list)) /\ rule' = WithSelf(r, "self" \in Range(e.list))
      BY <2>4, <3>2, <3>5 DEF WithSelf
    <3> QED
      BY <2>1, <3>3, <3>4, <3>6 DEF ListRead, TypesAre
  <2> QED
    BY <2>5, <2>6
<1> QED
  BY <1>4, <1>5

-----------------------------------------------------------------------------
\* A statement is read.
ReadsRule(s, a) == text \in Seq(Atoms) /\ IsStatement(s) /\ Stands(text, Tokens(s), a)

\* The lists of classes and permissions.
ReadsPerms(s, b, comp, list) ==
  /\ b \in Nat /\ b > ColonAt(s) /\ comp \in BOOLEAN /\ IsList(list, {"*"})
  /\ TildeFrom(Tokens(s), b, comp) /\ ListFrom(Tokens(s), b + Len(Tilde(comp)), list)
  /\ Over(b, comp, list) <= Len(Tokens(s))

LEMMA PermTokens ==
  ASSUME NEW list, IsList(list, {"*"})
  PROVE  \A x \in 1 .. Len(list) : /\ list[x] \notin Space /\ list[x] \notin {"~", "-", ":", ";", "#"}
<1> SUFFICES ASSUME NEW x \in 1 .. Len(list)
             PROVE  list[x] \notin Space /\ list[x] \notin {"~", "-", ":", ";", "#"}
  OBVIOUS
<1>1. IsWord(list[x]) \/ list[x] \in Brackets \cup {"*"}
  BY ListIs
<1> QED
  BY <1>1 DEF IsWord, Reserved, TypeMarks, Brackets, Space, LineEnd

LEMMA PermWords ==
  ASSUME NEW s, NEW a, ReadsRule(s, a), NEW b, NEW comp, NEW list, ReadsPerms(s, b, comp, list)
  PROVE  Turns(Tokens(s), a, b, comp, list, Brackets, PermDelimiters)
<1> DEFINE T == Tokens(s)
<1>0. /\ b \in Nat /\ b > ColonAt(s) /\ comp \in BOOLEAN /\ Braced(list)
      /\ \A x \in 1 .. Len(list) : /\ list[x] \notin Space /\ list[x] \notin {"~", "-", ":", ";", "#"}
  BY ListBraced, PermTokens DEF ReadsPerms
<1>1. Len(T) = EndAt(s) /\ ColonAt(s) \in Nat /\ EndAt(s) \in Nat
  BY TokensAre DEF ReadsRule
<1>2. ASSUME NEW j \in b .. Len(T) - 1, NEW x \in 1 .. Len(list), T[j] = list[x], T[j] \notin Brackets
      PROVE  T[j] \notin PermDelimiters /\ (Together(T[j], T[j + 1]) => T[j + 1] \in PermDelimiters)
  <2>1. T[j] \notin Space \cup Brackets /\ T[j] \notin {"~", "-", ":", ";", "#"}
    BY <1>0, <1>2
  <2>2. T[j] \notin PermDelimiters
    BY <2>1 DEF PermDelimiters
  <2>3. T[j] \notin Brackets \cup {":", "-", "~"}
    BY <2>1
  <2>4. Together(T[j], T[j + 1]) => T[j + 1] \in Brackets \cup {":", ";"}
    BY <2>3 DEF Together
  <2>5. T[j + 1] # ":"
    <3>0. ColonAt(s) \in Nat /\ EndAt(s) \in Nat /\ Len(T) = EndAt(s) /\ b \in Nat /\ b > ColonAt(s)
      BY <1>0, <1>1
    <3> HIDE DEF T
    <3>1. j + 1 \in ColonAt(s) + 1 .. EndAt(s)
      BY <3>0
    <3>2. IsStatement(s)
      BY DEF ReadsRule
    <3> QED
      BY <3>1, <3>2, NoColon DEF T
  <2>6. Brackets \cup {";"} \subseteq PermDelimiters
    BY DEF PermDelimiters
  <2> QED
    BY <2>2, <2>4, <2>5, <2>6
<1>3. Space \subseteq PermDelimiters
  BY DEF PermDelimiters
<1>a. ColonAt(s) \in Nat /\ b \in Nat /\ b > ColonAt(s)
  BY <1>0, <1>1
<1>4. b \in Nat \ {0}
  BY <1>a
<1>5. /\ text \in Seq(Atoms) /\ Stands(text, T, a)
  BY DEF ReadsRule
<1>7. Len(T) \in Nat
  BY <1>1
<1> HIDE DEF T
<1>8. Turns(T, a, b, comp, list, Brackets, PermDelimiters)
  BY <1>0, <1>2, <1>3, <1>4, <1>5, <1>7 DEF Turns
<1> QED
  BY <1>8 DEF T

\* A turn of a loop of read_classperms.
LEMMA PermTurn ==
  ASSUME NEW s, NEW a, ReadsRule(s, a), NEW b, NEW comp, NEW list, ReadsPerms(s, b, comp, list),
         NEW i, InList(a, pos, openparens, b, comp, list, i),
         NEW tilde \in BOOLEAN, tilde <=> (Skip(pos) < End /\ text[Skip(pos)] = "~"),
         NEW p, p = IF tilde THEN Skip(Skip(pos) + 1) ELSE Skip(pos)
  PROVE  /\ tilde => comp
         /\ p = End => Len(a) < Len(Tokens(s)) /\ Unfit(p, Brackets, PermDelimiters)
         /\ p # End =>
              /\ p \in 1 .. Len(text) /\ ~Unfit(p, Brackets, PermDelimiters)
              /\ Behind(p, Brackets, PermDelimiters) = p + 1
              /\ (p + 1 = End => Len(a) < Len(Tokens(s))) /\ (tilde <=> (comp /\ i = 0))
              /\ TurnedTo(Tokens(s), a, p, b, comp, list, i)
<1> DEFINE T == Tokens(s)
<1>1. Turns(T, a, b, comp, list, Brackets, PermDelimiters)
  BY PermWords
<1>2. /\ text \in Seq(Atoms) /\ Stands(text, T, a) /\ Len(T) \in Nat /\ b \in Nat \ {0}
      /\ comp \in BOOLEAN /\ Len(list) \in Nat
  BY <1>1 DEF Turns, Braced
<1>a. \A x \in 1 .. Len(list) : list[x] \notin Space \cup {"~"}
  BY PermTokens DEF ReadsPerms
<1>b. i \in 0 .. Len(list) - 1 /\ openparens = Depth(list)[i]
  BY DEF InList
<1>3. Turning(T, a, p, b, comp, list, i, tilde)
  <2>1. PICK first : first = Skip(pos)
    OBVIOUS
  <2>2. b + Len(Tilde(comp)) + Len(list) <= Len(T)
    BY DEF Over, ReadsPerms
  <2>3. tilde <=> (first < End /\ text[first] = "~")
    BY <2>1
  <2> HIDE DEF T
  <2>4. TildeFrom(T, b, comp) /\ ListFrom(T, b + Len(Tilde(comp)), list)
    BY DEF T, ReadsPerms
  <2>5. Turning(T, a, IF tilde THEN Skip(first + 1) ELSE first, b, comp, list, i, tilde)
    BY <1>2, <1>a, <2>1, <2>2, <2>3, <2>4, ListTurn, Zenon
  <2> QED
    BY <2>1, <2>5
<1> HIDE DEF T
<1>4. CASE p = End
  <2>1. Len(a) < Len(T) /\ (tilde => comp)
    BY <1>3, <1>4 DEF Turning
  <2> QED
    BY <1>4, <2>1 DEF Unfit, T
<1>5. CASE p # End
  <2>1. /\ p \in 1 .. Len(text) /\ ~Unfit(p, Brackets, PermDelimiters)
        /\ Behind(p, Brackets, PermDelimiters) = p + 1
        /\ (p + 1 = End => Len(a) < Len(T)) /\ (tilde <=> (comp /\ i = 0))
        /\ TurnedTo(T, a, p, b, comp, list, i)
    <3>1. Turns(T, a, b, comp, list, Brackets, PermDelimiters)
      BY <1>1 DEF T
    <3> QED
      BY <1>3, <1>5, <1>b, <3>1, TurnTo
  <2> QED
    BY <1>5, <2>1 DEF T
<1> QED
  BY <1>4, <1>5

LEMMA ClassList ==
  ASSUME NEW s, IsStatement(s)
  PROVE  /\ ReadsPerms(s, ColonAt(s) + 1, FALSE, s.classes)
         /\ Over(ColonAt(s) + 1, FALSE, s.classes) = PermsAt(s) /\ Len(s.classes) \in Nat
<1> DEFINE b == ColonAt(s) + 1
<1>1. /\ Len(Tokens(s)) = EndAt(s) /\ ColonAt(s) \in Nat /\ PermsAt(s) \in Nat /\ EndAt(s) \in Nat
      /\ PermsAt(s) < EndAt(s) /\ ListFrom(Tokens(s), b, s.classes)
  BY TokensAre, Zenon
<1>2. Tilde(FALSE) = <<>> /\ Len(Tilde(FALSE)) = 0
  BY DEF Tilde
<1>3. IsList(s.classes, {"*"})
  <2>1. IsList(s.classes, {})
    BY DEF IsStatement
  <2> QED
    BY <2>1 DEF IsList
<1>5. Len(s.classes) \in Nat
  BY <1>3, ListIs
<1>b. /\ ColonAt(s) \in Nat /\ PermsAt(s) \in Nat /\ EndAt(s) \in Nat /\ PermsAt(s) < EndAt(s)
  BY <1>1
<1>c. PICK n : n = Len(Tilde(FALSE)) /\ n = 0
  BY <1>2, Zenon
<1>d. Over(b, FALSE, s.classes) = b + n + Len(s.classes) /\ b + Len(Tilde(FALSE)) = b + n
  BY <1>c, Zenon DEF Over
<1>g. n = 0
  BY <1>c, Zenon
<1>e. b + n + Len(s.classes) = PermsAt(s)
  BY <1>5, <1>b, <1>g DEF PermsAt
<1>4. Over(b, FALSE, s.classes) = PermsAt(s)
  BY <1>d, <1>e, Zenon
<1>f. b + n = b /\ b \in Nat /\ b > ColonAt(s) /\ PermsAt(s) <= EndAt(s)
  BY <1>b, <1>g
<1>6. b + Len(Tilde(FALSE)) = b /\ b \in Nat /\ b > ColonAt(s) /\ PermsAt(s) <= EndAt(s)
  BY <1>d, <1>f, Zenon
<1> HIDE DEF b
<1>7. TildeFrom(Tokens(s), b, FALSE)
  BY DEF TildeFrom
<1>8. ReadsPerms(s, b, FALSE, s.classes)
  BY <1>1, <1>3, <1>4, <1>6, <1>7 DEF ReadsPerms
<1> QED
  BY <1>4, <1>5, <1>8 DEF b

LEMMA PermList ==
  ASSUME NEW s, IsStatement(s)
  PROVE  /\ ReadsPerms(s, PermsAt(s), s.comp, s.perms)
         /\ Over(PermsAt(s), s.comp, s.perms) = EndAt(s) /\ Len(s.perms) \in Nat
<1>1. /\ Len(Tokens(s)) = EndAt(s) /\ ColonAt(s) \in Nat /\ PermsAt(s) \in Nat /\ EndAt(s) \in Nat
      /\ ColonAt(s) + 1 < PermsAt(s) /\ TildeFrom(Tokens(s), PermsAt(s), s.comp)
      /\ ListFrom(Tokens(s), PermsAt(s) + Len(Tilde(s.comp)), s.perms)
  BY TokensAre, Zenon
<1>2. Over(PermsAt(s), s.comp, s.perms) = EndAt(s)
  BY DEF Over, EndAt
<1>3. IsList(s.perms, {"*"}) /\ s.comp \in BOOLEAN
  BY DEF IsStatement
<1>4. Len(s.perms) \in Nat
  BY <1>3, ListIs
<1>5. PermsAt(s) \in Nat /\ PermsAt(s) > ColonAt(s) /\ EndAt(s) <= EndAt(s)
  BY <1>1
<1>6. ReadsPerms(s, PermsAt(s), s.comp, s.perms)
  BY <1>1, <1>2, <1>3, <1>5 DEF ReadsPerms
<1> QED
  BY <1>2, <1>4, <1>6

\* More classes and permissions in a rule.
LEMMA ClassesInRule ==
  ASSUME NEW s, NEW cs, NEW ps, NEW w
  PROVE  WithClasses(RuleWith(s, cs, ps), w) = RuleWith(s, cs \cup w, ps)
<1> DEFINE r == RuleWith(s, cs, ps)
<1>1. PICK x, y, z : x = Denoted(s.source) /\ y = Denoted(s.target) /\ z = OfSelf(s)
  OBVIOUS
<1>2. \A c, p : RuleWith(s, c, p) = [stypes |-> x, ttypes |-> y, self |-> z, classes |-> c, perms |-> p]
  BY <1>1 DEF RuleWith
<1>3. r.classes = cs /\ r.perms = ps
  BY <1>2
<1>4. ASSUME NEW q PROVE [r EXCEPT !.classes = q] = RuleWith(s, q, ps)
  BY <1>2
<1> HIDE DEF r
<1>6. WithClasses(r, w) = [r EXCEPT !.classes = r.classes \cup w]
  BY Zenon DEF WithClasses
<1>8. [r EXCEPT !.classes = cs \cup w] = RuleWith(s, cs \cup w, ps)
  BY <1>4, Zenon
<1> QED
  BY <1>3, <1>6, <1>8, Zenon DEF r

LEMMA PermsInRule ==
  ASSUME NEW s, NEW cs, NEW ps, NEW w
  PROVE  WithPerms(RuleWith(s, cs, ps), w) = RuleWith(s, cs, ps \cup w)
<1> DEFINE r == RuleWith(s, cs, ps)
<1>1. PICK x, y, z : x = Denoted(s.source) /\ y = Denoted(s.target) /\ z = OfSelf(s)
  OBVIOUS
<1>2. \A c, p : RuleWith(s, c, p) = [stypes |-> x, ttypes |-> y, self |-> z, classes |-> c, perms |-> p]
  BY <1>1 DEF RuleWith
<1>3. r.classes = cs /\ r.perms = ps
  BY <1>2
<1>5. ASSUME NEW q PROVE [r EXCEPT !.perms = q] = RuleWith(s, cs, q)
  BY <1>2
<1> HIDE DEF r
<1>7. WithPerms(r, w) = [r EXCEPT !.perms = r.perms \cup w]
  BY Zenon DEF WithPerms
<1>9. [r EXCEPT !.perms = ps \cup w] = RuleWith(s, cs, ps \cup w)
  BY <1>5, Zenon
<1> QED
  BY <1>3, <1>7, <1>9, Zenon DEF r

LEMMA ClassesMore ==
  ASSUME NEW s, IsStatement(s)
  PROVE  /\ Classes(s, 0) = {}
         /\ \A i \in 0 .. Len(s.classes) - 1 :
              Classes(s, i + 1) = Classes(s, i) \cup ({s.classes[i + 1]} \cap DOMAIN Perms)
<1>1. Len(s.classes) \in Nat
  BY ListIs DEF IsStatement
<1>2. Classes(s, 0) = {}
  BY DEF Classes
<1>3. ASSUME NEW i \in 0 .. Len(s.classes) - 1
      PROVE  Classes(s, i + 1) = Classes(s, i) \cup ({s.classes[i + 1]} \cap DOMAIN Perms)
  <2>1. 1 .. i + 1 = (1 .. i) \cup {i + 1}
    BY <1>1
  <2>2. {s.classes[x] : x \in 1 .. i + 1} = {s.classes[x] : x \in 1 .. i} \cup {s.classes[i + 1]}
    BY <2>1
  <2> QED
    BY <2>2 DEF Classes
<1> QED
  BY <1>2, <1>3

\* A turn over the classes.
LEMMA ClassStep ==
  ASSUME NEW s, NEW a, ReadsRule(s, a), InClasses(s, a), ReadClass
  PROVE  \/ Err /\ Len(a) < Len(Tokens(s))
         \/ /\ \/ loop' = loop /\ InClasses(s, a)'
               \/ /\ loop' = "cend" /\ ListRead(s, a, PermsAt(s))'
                  /\ (pos # End => rule = RuleWith(s, Classes(s, Len(s.classes)), {}))'
            /\ UNCHANGED <<set, negate, complement, rules, ok>>
<1> DEFINE T == Tokens(s)
           p == Skip(pos)
           b == ColonAt(s) + 1
           n == Len(s.classes)
<1>1. IsStatement(s)
  BY DEF ReadsRule
<1>2. PICK c : c = FALSE
  OBVIOUS
<1>3. ReadsPerms(s, b, c, s.classes) /\ Over(b, c, s.classes) = PermsAt(s) /\ n \in Nat
  BY <1>1, <1>2, ClassList, Zenon
<1>4. PICK i \in 0 .. n - 1 : InList(a, pos, openparens, b, c, s.classes, i) /\ rule = RuleWith(s, Classes(s, i), {})
  BY <1>2 DEF InClasses
<1>5. PICK tilde \in BOOLEAN : tilde <=> (Skip(pos) < End /\ text[Skip(pos)] = "~")
  BY Zenon
<1> HIDE DEF b, n
<1>6. PICK q : q = IF tilde THEN Skip(Skip(pos) + 1) ELSE Skip(pos)
  OBVIOUS
<1>7. /\ tilde => c
      /\ q = End => Len(a) < Len(Tokens(s)) /\ Unfit(q, Brackets, PermDelimiters)
      /\ q # End =>
           /\ q \in 1 .. Len(text) /\ ~Unfit(q, Brackets, PermDelimiters)
           /\ Behind(q, Brackets, PermDelimiters) = q + 1
           /\ (q + 1 = End => Len(a) < Len(Tokens(s))) /\ (tilde <=> (c /\ i = 0))
           /\ TurnedTo(Tokens(s), a, q, b, c, s.classes, i)
  BY <1>3, <1>4, <1>5, <1>6, PermTurn DEF n
<1>8. q = p
  BY <1>2, <1>6, <1>7
<1> HIDE DEF p
<1>9. IF Unfit(q, Brackets, PermDelimiters) THEN Err
      ELSE /\ Turned(q, Brackets, PermDelimiters, "cend")
           /\ rule' = WithClasses(rule, {Word(q, pos')} \cap DOMAIN Perms)
           /\ UNCHANGED <<set, negate, complement, rules, ok>>
  BY <1>8 DEF ReadClass, p
<1>10. text' = text /\ End' = End /\ End = Len(text) + 1
  BY DEF ReadClass, Unread, End
<1>11. CASE q = End
  BY <1>7, <1>9, <1>11
<1>12. CASE q # End
  <2>1. /\ q \in 1 .. Len(text) /\ (q + 1 = End => Len(a) < Len(T))
        /\ TurnedTo(T, a, q, b, c, s.classes, i)
    BY <1>7, <1>12
  <2>2. /\ Turned(q, Brackets, PermDelimiters, "cend")
        /\ rule' = WithClasses(rule, {Word(q, pos')} \cap DOMAIN Perms)
        /\ UNCHANGED <<set, negate, complement, rules, ok>>
    BY <1>7, <1>9, <1>12
  <2>3. /\ pos' = q + 1 /\ openparens' = Opened(q)
        /\ loop' = IF pos' < End /\ openparens' > 0 THEN loop ELSE "cend"
    BY <1>7, <1>12, <2>2 DEF Turned
  <2>4. Word(q, pos') = text[q]
    BY <2>3 DEF Word
  <2>5. rule' = RuleWith(s, Classes(s, i + 1), {})
    <3>1. rule' = RuleWith(s, Classes(s, i) \cup ({text[q]} \cap DOMAIN Perms), {})
      BY <1>4, <2>2, <2>4, ClassesInRule
    <3>2. text[q] = s.classes[i + 1]
      BY <2>1 DEF TurnedTo
    <3>3. Classes(s, i + 1) = Classes(s, i) \cup ({s.classes[i + 1]} \cap DOMAIN Perms)
      BY <1>1, <1>4, ClassesMore DEF n
    <3> QED
      BY <3>1, <3>2, <3>3
  <2>6. CASE q + 1 = End
    <3>1. loop' = "cend"
      BY <1>10, <2>3, <2>6
    <3>2. ListRead(s, a, PermsAt(s))' /\ (pos # End => rule = RuleWith(s, Classes(s, Len(s.classes)), {}))'
      BY <1>10, <2>1, <2>3, <2>6 DEF ListRead
    <3> QED
      BY <2>2, <3>1, <3>2
  <2>7. CASE q + 1 # End
    <3>1. pos' < End /\ pos' # End'
      BY <1>10, <2>1, <2>3, <2>7
    <3>2. CASE i + 1 < n
      <4>1. Opened(q) > 0 /\ InList(a, q + 1, Opened(q), b, c, s.classes, i + 1)
        BY <2>1, <3>2 DEF TurnedTo, n
      <4>2. loop' = loop
        BY <2>3, <3>1, <4>1
      <4>3. InList(a, pos, openparens, b, c, s.classes, i + 1)'
        <5>1. PICK y, z, d, k, open : y = q + 1 /\ z = s.classes /\ d = b /\ k = i + 1 /\ open = Opened(q)
          OBVIOUS
        <5>2. InList(a, y, open, d, c, z, k) /\ pos' = y /\ openparens' = open
          BY <2>3, <4>1, <5>1
        <5>3. InList(a, pos, openparens, d, c, z, k)'
          BY <1>10, <5>2, ListLater
        <5> QED
          BY <5>1, <5>3
      <4>4. i + 1 \in 0 .. n - 1
        BY <1>3, <1>4, <3>2
      <4>5. InClasses(s, a)'
        BY <1>2, <2>5, <4>3, <4>4 DEF InClasses, b, n
      <4> QED
        BY <2>2, <4>2, <4>5
    <3>3. CASE ~(i + 1 < n)
      <4>1. Opened(q) = 0 /\ Clear(a, q + 1, Over(b, c, s.classes))
        BY <2>1, <3>3 DEF TurnedTo, n
      <4>2. loop' = "cend" /\ openparens' = 0
        BY <2>3, <4>1
      <4>3. Clear(a, pos, PermsAt(s))'
        <5>1. PICK y, z : y = q + 1 /\ z = PermsAt(s)
          OBVIOUS
        <5>2. Clear(a, y, z)
          BY <1>3, <4>1, <5>1
        <5>3. Clear(a, pos, z)'
          BY <1>10, <2>3, <5>1, <5>2 DEF Clear, Place, End
        <5> QED
          BY <5>1, <5>3
      <4>4. i + 1 = n
        BY <1>3, <1>4, <3>3
      <4> QED
        BY <2>2, <2>5, <3>1, <4>2, <4>3, <4>4 DEF ListRead, n
    <3> QED
      BY <3>2, <3>3
  <2> QED
    BY <2>6, <2>7
<1> QED
  BY <1>11, <1>12

LEMMA PermsMore ==
  ASSUME NEW s, IsStatement(s)
  PROVE  /\ PermsTo(s, 0) = {}
         /\ \A i \in 0 .. Len(s.perms) - 1 :
              PermsTo(s, i + 1) = PermsTo(s, i) \cup {cp \in AllOf(s) : s.perms[i + 1] = "*" \/ cp[2] = s.perms[i + 1]}
<1>1. Len(s.perms) \in Nat
  BY ListIs DEF IsStatement
<1>2. PermsTo(s, 0) = {}
  BY DEF PermsTo
<1>3. ASSUME NEW i \in 0 .. Len(s.perms) - 1
      PROVE  PermsTo(s, i + 1) = PermsTo(s, i) \cup {cp \in AllOf(s) : s.perms[i + 1] = "*" \/ cp[2] = s.perms[i + 1]}
  <2>1. PICK A : A = AllOf(s)
    OBVIOUS
  <2>2. \A x : x \in 1 .. i + 1 <=> (x \in 1 .. i \/ x = i + 1)
    BY <1>1
  <2>3. \A cp : (\E x \in 1 .. i + 1 : s.perms[x] = "*" \/ cp[2] = s.perms[x])
                <=> ((\E x \in 1 .. i : s.perms[x] = "*" \/ cp[2] = s.perms[x])
                     \/ (s.perms[i + 1] = "*" \/ cp[2] = s.perms[i + 1]))
    BY <2>2, Zenon
  <2>4. \A k : PermsTo(s, k) = {cp \in A : \E x \in 1 .. k : s.perms[x] = "*" \/ cp[2] = s.perms[x]}
    BY <2>1 DEF PermsTo
  <2>5. PermsTo(s, i + 1) = {cp \in A : \E x \in 1 .. i + 1 : s.perms[x] = "*" \/ cp[2] = s.perms[x]}
    BY <2>4
  <2>6. PermsTo(s, i) = {cp \in A : \E x \in 1 .. i : s.perms[x] = "*" \/ cp[2] = s.perms[x]}
    BY <2>4
  <2> QED
    BY <2>1, <2>3, <2>5, <2>6
<1> QED
  BY <1>2, <1>3

\* A turn over the permissions.
LEMMA PermStep ==
  ASSUME NEW s, NEW a, ReadsRule(s, a), InPerms(s, a), ReadPerm
  PROVE  \/ Err /\ Len(a) < Len(Tokens(s))
         \/ /\ \/ loop' = loop /\ InPerms(s, a)'
               \/ /\ loop' = "pend" /\ ListRead(s, a, EndAt(s))'
                  /\ (pos # End =>
                        /\ complement <=> s.comp
                        /\ rule = RuleWith(s, Classes(s, Len(s.classes)), PermsTo(s, Len(s.perms))))'
            /\ UNCHANGED <<set, negate, rules, ok>>
<1> DEFINE T == Tokens(s)
           b == PermsAt(s)
           n == Len(s.perms)
           cs == Classes(s, Len(s.classes))
           first == Skip(pos)
           comp == first < End /\ text[first] = "~"
           adds(x) == {cp \in AllOf(s) : x = "*" \/ cp[2] = x}
<1>1. IsStatement(s)
  BY DEF ReadsRule
<1>2. PICK c \in BOOLEAN : c <=> s.comp
  BY Zenon
<1>3. ReadsPerms(s, b, s.comp, s.perms) /\ Over(b, s.comp, s.perms) = EndAt(s) /\ n \in Nat /\ s.comp \in BOOLEAN
  BY <1>1, PermList, Zenon DEF IsStatement
<1>4. PICK i \in 0 .. n - 1 :
        /\ InList(a, pos, openparens, b, s.comp, s.perms, i)
        /\ (complement <=> (i # 0 /\ s.comp)) /\ rule = RuleWith(s, cs, PermsTo(s, i))
  BY DEF InPerms
<1>5. PICK tilde \in BOOLEAN : tilde <=> comp
  BY Zenon
<1> HIDE DEF b, n
<1>6. PICK q : q = IF tilde THEN Skip(Skip(pos) + 1) ELSE Skip(pos)
  OBVIOUS
<1>7. /\ tilde => s.comp
      /\ q = End => Len(a) < Len(Tokens(s)) /\ Unfit(q, Brackets, PermDelimiters)
      /\ q # End =>
           /\ q \in 1 .. Len(text) /\ ~Unfit(q, Brackets, PermDelimiters)
           /\ Behind(q, Brackets, PermDelimiters) = q + 1
           /\ (q + 1 = End => Len(a) < Len(Tokens(s))) /\ (tilde <=> (s.comp /\ i = 0))
           /\ TurnedTo(Tokens(s), a, q, b, s.comp, s.perms, i)
  BY <1>3, <1>4, <1>5, <1>6, PermTurn DEF n
<1>9. IF Unfit(q, Brackets, PermDelimiters) THEN Err
      ELSE /\ Turned(q, Brackets, PermDelimiters, "pend")
           /\ rule' = WithPerms(rule, {cp \in AllPerms : Word(q, pos') = "*" \/ cp[2] = Word(q, pos')})
           /\ complement' = (complement \/ comp)
           /\ UNCHANGED <<set, negate, rules, ok>>
  <2>1. CASE tilde
    BY <1>5, <1>6, <2>1 DEF ReadPerm
  <2>2. CASE ~tilde
    BY <1>5, <1>6, <2>2 DEF ReadPerm
  <2> QED
    BY <2>1, <2>2
<1>10. text' = text /\ End' = End /\ End = Len(text) + 1
  BY DEF ReadPerm, Unread, End
<1> HIDE DEF comp
<1>11. CASE q = End
  BY <1>7, <1>9, <1>11
<1>12. CASE q # End
  <2>1. /\ q \in 1 .. Len(text) /\ (q + 1 = End => Len(a) < Len(T)) /\ (tilde <=> (s.comp /\ i = 0))
        /\ TurnedTo(T, a, q, b, s.comp, s.perms, i)
    BY <1>7, <1>12
  <2>2. /\ Turned(q, Brackets, PermDelimiters, "pend")
        /\ rule' = WithPerms(rule, {cp \in AllPerms : Word(q, pos') = "*" \/ cp[2] = Word(q, pos')})
        /\ complement' = (complement \/ comp)
        /\ UNCHANGED <<set, negate, rules, ok>>
    BY <1>7, <1>9, <1>12
  <2>3. /\ pos' = q + 1 /\ openparens' = Opened(q)
        /\ loop' = IF pos' < End /\ openparens' > 0 THEN loop ELSE "pend"
    BY <1>7, <1>12, <2>2 DEF Turned
  <2>4. Word(q, pos') = text[q]
    BY <2>3 DEF Word
  <2>a. complement' <=> s.comp
    BY <1>4, <1>5, <2>1, <2>2
  <2>b. AllPerms = AllOf(s)
    <3>1. rule.classes = cs
      BY <1>4 DEF RuleWith
    <3> QED
      BY <3>1 DEF AllPerms, AllOf
  <2>5. rule' = RuleWith(s, cs, PermsTo(s, i + 1))
    <3>1. rule' = WithPerms(rule, adds(text[q]))
      BY <2>2, <2>4, <2>b
    <3>2. rule' = RuleWith(s, cs, PermsTo(s, i) \cup adds(text[q]))
      BY <1>4, <3>1, PermsInRule
    <3>3. text[q] = s.perms[i + 1]
      BY <2>1 DEF TurnedTo
    <3>4. PermsTo(s, i + 1) = PermsTo(s, i) \cup adds(s.perms[i + 1])
      BY <1>1, <1>4, PermsMore DEF n
    <3> QED
      BY <3>2, <3>3, <3>4
  <2> HIDE DEF cs
  <2>6. CASE q + 1 = End
    <3>1. loop' = "pend"
      BY <1>10, <2>3, <2>6
    <3>2. pos' = End' /\ ListRead(s, a, EndAt(s))'
      BY <1>10, <2>1, <2>3, <2>6 DEF ListRead
    <3> QED
      BY <2>2, <3>1, <3>2
  <2>7. CASE q + 1 # End
    <3>1. pos' < End /\ pos' # End'
      BY <1>10, <2>1, <2>3, <2>7
    <3>2. CASE i + 1 < n
      <4>1. Opened(q) > 0 /\ InList(a, q + 1, Opened(q), b, s.comp, s.perms, i + 1)
        BY <2>1, <3>2 DEF TurnedTo, n
      <4>2. loop' = loop
        BY <2>3, <3>1, <4>1
      <4>3. InList(a, pos, openparens, b, s.comp, s.perms, i + 1)'
        <5>1. PICK y, z, d, e, k, open :
                y = q + 1 /\ z = s.perms /\ d = b /\ e = s.comp /\ k = i + 1 /\ open = Opened(q)
          OBVIOUS
        <5>2. InList(a, y, open, d, e, z, k) /\ pos' = y /\ openparens' = open
          BY <2>3, <4>1, <5>1
        <5>3. InList(a, pos, openparens, d, e, z, k)'
          BY <1>10, <5>2, ListLater
        <5> QED
          BY <5>1, <5>3
      <4>4. i + 1 \in 0 .. n - 1 /\ i + 1 # 0
        BY <1>3, <1>4, <3>2
      <4>5. complement' <=> (i + 1 # 0 /\ s.comp)
        BY <2>a, <4>4
      <4>6. InPerms(s, a)'
        BY <2>5, <4>3, <4>4, <4>5 DEF InPerms, b, n, cs
      <4> QED
        BY <2>2, <4>2, <4>6
    <3>3. CASE ~(i + 1 < n)
      <4>1. Opened(q) = 0 /\ Clear(a, q + 1, Over(b, s.comp, s.perms))
        BY <2>1, <3>3 DEF TurnedTo, n
      <4>2. loop' = "pend" /\ openparens' = 0
        BY <2>3, <4>1
      <4>3. Clear(a, pos, EndAt(s))'
        <5>1. PICK y, z : y = q + 1 /\ z = EndAt(s)
          OBVIOUS
        <5>2. Clear(a, y, z)
          BY <1>3, <4>1, <5>1
        <5>3. Clear(a, pos, z)'
          BY <1>10, <2>3, <5>1, <5>2 DEF Clear, Place, End
        <5> QED
          BY <5>1, <5>3
      <4>4. i + 1 = n
        BY <1>3, <1>4, <3>3
      <4> QED
        BY <2>2, <2>5, <2>a, <3>1, <4>2, <4>3, <4>4 DEF ListRead, n, cs
    <3> QED
      BY <3>2, <3>3
  <2> QED
    BY <2>6, <2>7
<1> QED
  BY <1>11, <1>12

\* The type sets of a statement.
LEMMA SetsOf ==
  ASSUME NEW s, NEW a, ReadsRule(s, a)
  PROVE  /\ ReadsTypes(Tokens(s), a, s.source, 2) /\ Over(2, s.source.comp, s.source.list) = TargetAt(s)
         /\ ReadsTypes(Tokens(s), a, s.target, TargetAt(s))
         /\ Over(TargetAt(s), s.target.comp, s.target.list) = ColonAt(s)
<1>1. /\ text \in Seq(Atoms) /\ IsStatement(s) /\ Stands(text, Tokens(s), a)
      /\ IsSet(s.source) /\ IsSet(s.target)
  BY DEF ReadsRule, IsStatement
<1>2. /\ Len(Tokens(s)) = EndAt(s) /\ TargetAt(s) \in Nat /\ ColonAt(s) \in Nat /\ PermsAt(s) \in Nat /\ EndAt(s) \in Nat
      /\ 2 < TargetAt(s) /\ TargetAt(s) < ColonAt(s) /\ ColonAt(s) + 1 < PermsAt(s) /\ PermsAt(s) < EndAt(s)
      /\ TildeFrom(Tokens(s), 2, s.source.comp)
      /\ ListFrom(Tokens(s), 2 + Len(Tilde(s.source.comp)), s.source.list)
      /\ TildeFrom(Tokens(s), TargetAt(s), s.target.comp)
      /\ ListFrom(Tokens(s), TargetAt(s) + Len(Tilde(s.target.comp)), s.target.list)
  BY <1>1, TokensAre, Zenon
<1>3. /\ Over(2, s.source.comp, s.source.list) = TargetAt(s)
      /\ Over(TargetAt(s), s.target.comp, s.target.list) = ColonAt(s)
  BY DEF Over, TargetAt, ColonAt
<1>4. TargetAt(s) \in Nat \ {0} /\ 2 \in Nat \ {0} /\ TargetAt(s) <= Len(Tokens(s)) /\ ColonAt(s) <= Len(Tokens(s))
      /\ Len(Tokens(s)) \in Nat
  BY <1>2
<1> QED
  BY <1>1, <1>2, <1>3, <1>4 DEF ReadsTypes

\* What has been read is known from the loop.
LEMMA ReadsIs ==
  ASSUME NEW s, NEW a, Reads(s, a)
  PROVE  /\ loop = "stypes"  => InTypes(a, s.source, 2, EmptyRule({}, {}))
         /\ loop = "send"    => ListRead(s, a, TargetAt(s)) /\ TypesAre(s.source, EmptyRule({}, {}))
         /\ loop = "ttypes"  => InTypes(a, s.target, TargetAt(s), EmptyRule(Denoted(s.source), {}))
         /\ loop = "tend"    => ListRead(s, a, ColonAt(s)) /\ TypesAre(s.target, EmptyRule(Denoted(s.source), {}))
         /\ loop = "colon"   => Clear(a, pos, ColonAt(s)) /\ rule = RuleWith(s, {}, {}) /\ openparens = 0
         /\ loop = "classes" => InClasses(s, a)
         /\ loop = "cend"    => ListRead(s, a, PermsAt(s)) /\ (pos # End => rule = RuleWith(s, Classes(s, Len(s.classes)), {}))
         /\ loop = "perms"   => InPerms(s, a)
         /\ loop = "pend"    => /\ ListRead(s, a, EndAt(s))
                                /\ pos # End => /\ complement <=> s.comp
                                                /\ rule = RuleWith(s, Classes(s, Len(s.classes)), PermsTo(s, Len(s.perms)))
         /\ loop = "rest"    => Clear(a, pos, EndAt(s)) /\ rule = RuleOf(s) /\ openparens = 0
         /\ loop \in {"stypes", "send", "ttypes", "tend", "colon", "classes", "cend", "perms", "pend", "rest"}
         /\ loop \notin {"stypes", "ttypes", "send", "tend"} => NoSet
         /\ loop \notin {"perms", "pend"} => ~complement
         /\ ok
<1> DEFINE L1 == InTypes(a, s.source, 2, EmptyRule({}, {}))
           L2 == ListRead(s, a, TargetAt(s)) /\ TypesAre(s.source, EmptyRule({}, {}))
           L3 == InTypes(a, s.target, TargetAt(s), EmptyRule(Denoted(s.source), {}))
           L4 == ListRead(s, a, ColonAt(s)) /\ TypesAre(s.target, EmptyRule(Denoted(s.source), {}))
           L5 == Clear(a, pos, ColonAt(s)) /\ rule = RuleWith(s, {}, {}) /\ openparens = 0
           L6 == ListRead(s, a, PermsAt(s)) /\ (pos # End => rule = RuleWith(s, Classes(s, Len(s.classes)), {}))
           L7 == /\ ListRead(s, a, EndAt(s))
                 /\ pos # End => /\ complement <=> s.comp
                                 /\ rule = RuleWith(s, Classes(s, Len(s.classes)), PermsTo(s, Len(s.perms)))
           L8 == Clear(a, pos, EndAt(s)) /\ rule = RuleOf(s) /\ openparens = 0
<1>1. /\ \/ loop = "stypes"  /\ L1
         \/ loop = "send"    /\ L2
         \/ loop = "ttypes"  /\ L3
         \/ loop = "tend"    /\ L4
         \/ loop = "colon"   /\ L5
         \/ loop = "classes" /\ InClasses(s, a)
         \/ loop = "cend"    /\ L6
         \/ loop = "perms"   /\ InPerms(s, a)
         \/ loop = "pend"    /\ L7
         \/ loop = "rest"    /\ L8
      /\ loop \notin {"stypes", "ttypes", "send", "tend"} => NoSet
      /\ loop \notin {"perms", "pend"} => ~complement
      /\ ok
  BY Zenon DEF Reads
<1> HIDE DEF L1, L2, L3, L4, L5, L6, L7, L8
<1>2. /\ loop = "stypes" => L1
      /\ loop = "send" => L2
      /\ loop = "ttypes" => L3
      /\ loop = "tend" => L4
      /\ loop = "colon" => L5
      /\ loop = "classes" => InClasses(s, a)
      /\ loop = "cend" => L6
      /\ loop = "perms" => InPerms(s, a)
      /\ loop = "pend" => L7
      /\ loop = "rest" => L8
      /\ loop \in {"stypes", "send", "ttypes", "tend", "colon", "classes", "cend", "perms", "pend", "rest"}
  BY <1>1
<1> QED
  BY <1>1, <1>2, Zenon DEF L1, L2, L3, L4, L5, L6, L7, L8

\* A step in a statement: there is an error, because the text ends in it, or it is
\* still read.
Later(s, a) ==
  \/ Err /\ Len(a) < Len(Tokens(s))
  \/ Reads(s, a)' /\ rules' = rules

LEMMA TypesetLater ==
  ASSUME NEW s, NEW a, ReadsRule(s, a), Reads(s, a), ReadTypeset
  PROVE  Later(s, a)
<1>1. /\ ReadsTypes(Tokens(s), a, s.source, 2) /\ Over(2, s.source.comp, s.source.list) = TargetAt(s)
      /\ ReadsTypes(Tokens(s), a, s.target, TargetAt(s))
      /\ Over(TargetAt(s), s.target.comp, s.target.list) = ColonAt(s)
  BY SetsOf
<1>2. ~complement /\ ok
  BY ReadsIs DEF ReadTypeset
<1>3. CASE loop = "stypes"
  <2>1. PICK r, d : r = EmptyRule({}, {}) /\ d = "send"
    OBVIOUS
  <2>2. InTypes(a, s.source, 2, r)
    BY <1>3, <2>1, ReadsIs
  <2>3. \/ Err /\ Len(a) < Len(Tokens(s))
        \/ /\ \/ loop' = loop /\ InTypes(a, s.source, 2, r)'
              \/ loop' = d /\ ListRead(s, a, Over(2, s.source.comp, s.source.list))' /\ TypesAre(s.source, r)'
           /\ UNCHANGED <<complement, rules, ok>>
    <3>1. d = IF loop = "stypes" THEN "send" ELSE "tend"
      BY <1>3, <2>1
    <3>2. PICK e : e = s.source
      OBVIOUS
    <3>3. ReadsTypes(Tokens(s), a, e, 2) /\ InTypes(a, e, 2, r)
      BY <1>1, <2>2, <3>2
    <3>4. \/ Err /\ Len(a) < Len(Tokens(s))
          \/ /\ \/ loop' = loop /\ InTypes(a, e, 2, r)'
                \/ loop' = d /\ ListRead(s, a, Over(2, e.comp, e.list))' /\ TypesAre(e, r)'
             /\ UNCHANGED <<complement, rules, ok>>
      BY <2>1, <3>1, <3>3, TypesetStep
    <3> QED
      BY <3>2, <3>4
  <2> QED
    BY <1>1, <1>2, <1>3, <2>1, <2>3 DEF Reads, Later
<1>4. CASE loop = "ttypes"
  <2>1. PICK r, d, b : r = EmptyRule(Denoted(s.source), {}) /\ d = "tend" /\ b = TargetAt(s)
    OBVIOUS
  <2>2. InTypes(a, s.target, b, r)
    BY <1>4, <2>1, ReadsIs
  <2>3. \/ Err /\ Len(a) < Len(Tokens(s))
        \/ /\ \/ loop' = loop /\ InTypes(a, s.target, b, r)'
              \/ loop' = d /\ ListRead(s, a, Over(b, s.target.comp, s.target.list))' /\ TypesAre(s.target, r)'
           /\ UNCHANGED <<complement, rules, ok>>
    <3>1. d = IF loop = "stypes" THEN "send" ELSE "tend"
      BY <1>4, <2>1
    <3>2. PICK e : e = s.target
      OBVIOUS
    <3>3. ReadsTypes(Tokens(s), a, e, b) /\ InTypes(a, e, b, r)
      BY <1>1, <2>1, <2>2, <3>2
    <3>4. \/ Err /\ Len(a) < Len(Tokens(s))
          \/ /\ \/ loop' = loop /\ InTypes(a, e, b, r)'
                \/ loop' = d /\ ListRead(s, a, Over(b, e.comp, e.list))' /\ TypesAre(e, r)'
             /\ UNCHANGED <<complement, rules, ok>>
      BY <2>1, <3>1, <3>3, TypesetStep
    <3> QED
      BY <3>2, <3>4
  <2> QED
    BY <1>1, <1>2, <1>4, <2>1, <2>3 DEF Reads, Later
<1> QED
  BY <1>3, <1>4 DEF ReadTypeset

LEMMA ClassLater ==
  ASSUME NEW s, NEW a, ReadsRule(s, a), Reads(s, a), ReadClass
  PROVE  Later(s, a)
<1>1. NoSet /\ ~complement /\ ok /\ loop = "classes" /\ InClasses(s, a)
  BY ReadsIs DEF ReadClass
<1>2. \/ Err /\ Len(a) < Len(Tokens(s))
      \/ /\ \/ loop' = loop /\ InClasses(s, a)'
            \/ /\ loop' = "cend" /\ ListRead(s, a, PermsAt(s))'
               /\ (pos # End => rule = RuleWith(s, Classes(s, Len(s.classes)), {}))'
         /\ UNCHANGED <<set, negate, complement, rules, ok>>
  BY <1>1, ClassStep
<1>3. UNCHANGED <<set, negate>> => NoSet'
  BY <1>1 DEF NoSet
<1> QED
  BY <1>1, <1>2, <1>3 DEF Reads, Later

LEMMA PermLater ==
  ASSUME NEW s, NEW a, ReadsRule(s, a), Reads(s, a), ReadPerm
  PROVE  Later(s, a)
<1>1. NoSet /\ ok /\ loop = "perms" /\ InPerms(s, a)
  BY ReadsIs DEF ReadPerm
<1>2. \/ Err /\ Len(a) < Len(Tokens(s))
      \/ /\ \/ loop' = loop /\ InPerms(s, a)'
            \/ /\ loop' = "pend" /\ ListRead(s, a, EndAt(s))'
               /\ (pos # End =>
                     /\ complement <=> s.comp
                     /\ rule = RuleWith(s, Classes(s, Len(s.classes)), PermsTo(s, Len(s.perms))))'
         /\ UNCHANGED <<set, negate, rules, ok>>
  BY <1>1, PermStep
<1>3. UNCHANGED <<set, negate>> => NoSet'
  BY <1>1 DEF NoSet
<1> QED
  BY <1>1, <1>2, <1>3 DEF Reads, Later

\* What is permitted is known from the permissions that are read.
LEMMA GrantedIs ==
  ASSUME NEW s, IsStatement(s)
  PROVE  Granted(s) = IF s.comp THEN AllOf(s) \ PermsTo(s, Len(s.perms)) ELSE PermsTo(s, Len(s.perms))
<1> DEFINE C == Range(s.classes) \cap DOMAIN Perms
           n == Len(s.perms)
           all == "*" \in Range(s.perms)
           P(c) == IF all THEN Perms[c] ELSE Perms[c] \cap Range(s.perms)
           hit(w) == all \/ w \in Range(s.perms)
<1>1. n \in Nat /\ \A w : w \in Range(s.perms) <=> \E x \in 1 .. n : s.perms[x] = w
  <2>1. IsList(s.perms, {"*"})
    BY DEF IsStatement
  <2>2. n \in Nat /\ DOMAIN s.perms = 1 .. n
    BY <2>1, ListIs, Zenon
  <2> QED
    BY <2>2 DEF Range
<1>2. C = Classes(s, Len(s.classes))
  <2>1. IsList(s.classes, {})
    BY DEF IsStatement
  <2>2. DOMAIN s.classes = 1 .. Len(s.classes)
    BY <2>1, ListIs, Zenon
  <2> QED
    BY <2>2 DEF Classes, Range
<1>3. ASSUME NEW w PROVE hit(w) <=> \E x \in 1 .. n : s.perms[x] = "*" \/ w = s.perms[x]
  BY <1>1
<1>4. Granted(s) = UNION {{c} \X (IF s.comp THEN Perms[c] \ P(c) ELSE P(c)) : c \in C}
  BY DEF Granted
<1>5. \A c, w : w \in P(c) <=> w \in Perms[c] /\ hit(w)
  OBVIOUS
<1>6. PermsTo(s, n) = {cp \in AllOf(s) : \E x \in 1 .. n : s.perms[x] = "*" \/ cp[2] = s.perms[x]}
  BY DEF PermsTo
<1> HIDE DEF hit, P, n, all
<1>7. PermsTo(s, n) = {cp \in AllOf(s) : hit(cp[2])}
  BY <1>3, <1>6
<1>8. \A cp : cp \in AllOf(s) <=> \E c \in C : \E w \in Perms[c] : cp = <<c, w>>
  BY <1>2 DEF AllOf
<1> HIDE DEF C
<1>9. CASE s.comp
  <2>1. \A cp : cp \in Granted(s) <=> \E c \in C : \E w \in Perms[c] : cp = <<c, w>> /\ ~hit(w)
    BY <1>4, <1>5, <1>9
  <2>2. \A cp : cp \in AllOf(s) \ PermsTo(s, n) <=> \E c \in C : \E w \in Perms[c] : cp = <<c, w>> /\ ~hit(w)
    BY <1>7, <1>8
  <2> QED
    BY <1>9, <2>1, <2>2 DEF n
<1>10. CASE ~s.comp
  <2>1. \A cp : cp \in Granted(s) <=> \E c \in C : \E w \in Perms[c] : cp = <<c, w>> /\ hit(w)
    BY <1>4, <1>5, <1>10
  <2>2. \A cp : cp \in PermsTo(s, n) <=> \E c \in C : \E w \in Perms[c] : cp = <<c, w>> /\ hit(w)
    BY <1>7, <1>8
  <2> QED
    BY <1>10, <2>1, <2>2 DEF n
<1> QED
  BY <1>9, <1>10

\* The end of a type set.
LEMMA ReadLater ==
  ASSUME text' = text, pos' = pos, openparens' = openparens, NEW s, NEW a, NEW j, ListRead(s, a, j), pos # End
  PROVE  openparens' = 0 /\ Clear(a, pos, j)' /\ pos' # End'
<1>1. openparens = 0 /\ Clear(a, pos, j)
  BY DEF ListRead
<1>2. Clear(a, pos, j)'
  BY <1>1 DEF Clear, Place, End
<1> QED
  BY <1>1, <1>2 DEF End

\* Nothing of a list has been read.
LEMMA Nothing ==
  ASSUME NEW list, NEW others, IsList(list, others), text \in Seq(Atoms), NEW a, NEW b, NEW p, NEW comp, Clear(a, p, b)
  PROVE  0 \in 0 .. Len(list) - 1 /\ InList(a, p, 0, b, comp, list, 0)
<1>1. Len(list) \in Nat \ {0} /\ Depth(list)[0] = 0
  BY ListBraced DEF Braced
<1>2. 0 \in 0 .. Len(list) - 1
  BY <1>1
<1> QED
  BY <1>1, <1>2 DEF InList


LEMMA SetLater ==
  ASSUME NEW s, NEW a, ReadsRule(s, a), Reads(s, a), TypesetRead
  PROVE  Later(s, a)
<1>0. IsSet(s.source) /\ IsSet(s.target) /\ "self" \notin Range(s.source.list) /\ text \in Seq(Atoms)
      /\ IsList(s.target.list, {"*", "-", "self"}) /\ OfSelf(s) \in BOOLEAN
  BY DEF ReadsRule, IsStatement, IsSet, OfSelf
<1>1. ~complement /\ ok /\ text' = text /\ End' = End
  BY ReadsIs DEF TypesetRead, Unread, End
<1>2. CASE loop = "send"
  <2>1. ListRead(s, a, TargetAt(s)) /\ TypesAre(s.source, EmptyRule({}, {}))
    BY <1>2, ReadsIs
  <2>2. CASE pos = End
    BY <2>1, <2>2 DEF TypesetRead, ListRead, Later
  <2>3. CASE pos # End
    <3>1. /\ set' = EmptySet /\ negate' = FALSE /\ loop' = "ttypes" /\ rule' = [rule EXCEPT !.stypes = Resolved(set)]
          /\ UNCHANGED <<pos, openparens, complement, rules, ok>>
      BY <1>2, <2>3 DEF TypesetRead
    <3>2. set = SetTo(s.source, Len(s.source.list)) /\ rule = EmptyRule({}, {})
      BY <1>0, <2>1, <2>3 DEF TypesAre, WithSelf
    <3>3. Resolved(set) = Denoted(s.source)
      BY <1>0, <3>2, SetEnds
    <3>4. rule' = EmptyRule(Denoted(s.source), {})
      <4>1. rule = [stypes |-> {}, ttypes |-> {}, self |-> FALSE, classes |-> {}, perms |-> {}]
        BY <3>2 DEF EmptyRule
      <4>2. PICK x : x = Denoted(s.source)
        OBVIOUS
      <4>3. rule' = [rule EXCEPT !.stypes = x]
        BY <3>1, <3>3, <4>2
      <4>4. rule' = [stypes |-> x, ttypes |-> {}, self |-> FALSE, classes |-> {}, perms |-> {}]
        BY <4>1, <4>3
      <4> QED
        BY <4>2, <4>4 DEF EmptyRule
    <3>5. openparens' = 0 /\ Clear(a, pos, TargetAt(s))' /\ pos' # End'
      BY <1>1, <2>1, <2>3, <3>1, ReadLater
    <3>6. PICK b, r : b = TargetAt(s) /\ r = EmptyRule(Denoted(s.source), {})
      OBVIOUS
    <3>7. InTypes(a, s.target, b, r)'
      <4>0. ASSUME NEW q, NEW d, pos' = q, openparens' = 0, d = TargetAt(s), Clear(a, q, d)
            PROVE  0 \in 0 .. Len(s.target.list) - 1 /\ InList(a, pos, openparens, d, s.target.comp, s.target.list, 0)'
        <5>1. 0 \in 0 .. Len(s.target.list) - 1 /\ InList(a, q, 0, d, s.target.comp, s.target.list, 0)
          BY <1>0, <4>0, Nothing
        <5> QED
          BY <1>1, <4>0, <5>1, ListLater
      <4>1. Clear(a, pos, TargetAt(s))
        BY <2>1, <2>3 DEF ListRead
      <4>2. 0 \in 0 .. Len(s.target.list) - 1 /\ InList(a, pos, openparens, b, s.target.comp, s.target.list, 0)'
        BY <3>1, <3>5, <3>6, <4>0, <4>1
      <4>3. NoSet'
        BY <3>1 DEF NoSet
      <4> QED
        BY <3>4, <3>5, <3>6, <4>2, <4>3 DEF InTypes
    <3>8. Reads(s, a)'
      BY <1>1, <3>1, <3>6, <3>7 DEF Reads
    <3> QED
      BY <3>1, <3>8 DEF Later
  <2> QED
    BY <2>2, <2>3
<1>3. CASE loop = "tend"
  <2>1. ListRead(s, a, ColonAt(s)) /\ TypesAre(s.target, EmptyRule(Denoted(s.source), {}))
    BY <1>3, ReadsIs
  <2>2. CASE pos = End
    BY <2>1, <2>2 DEF TypesetRead, ListRead, Later
  <2>3. CASE pos # End
    <3>1. /\ set' = EmptySet /\ negate' = FALSE /\ loop' = "colon" /\ rule' = [rule EXCEPT !.ttypes = Resolved(set)]
          /\ UNCHANGED <<pos, openparens, complement, rules, ok>>
      BY <1>3, <2>3 DEF TypesetRead
    <3>2. set = SetTo(s.target, Len(s.target.list)) /\ rule = WithSelf(EmptyRule(Denoted(s.source), {}), OfSelf(s))
      BY <2>1, <2>3 DEF TypesAre, OfSelf
    <3>3. Resolved(set) = Denoted(s.target)
      BY <1>0, <3>2, SetEnds
    <3>4. rule' = RuleWith(s, {}, {})
      <4>1. PICK u, v, f : u = Denoted(s.source) /\ v = Denoted(s.target) /\ f = OfSelf(s)
        OBVIOUS
      <4>2. WithSelf(EmptyRule(u, {}), f) = [stypes |-> u, ttypes |-> {}, self |-> f, classes |-> {}, perms |-> {}]
        <5>1. CASE f
          BY <1>0, <4>1, <5>1 DEF WithSelf, EmptyRule
        <5>2. CASE ~f
          BY <1>0, <4>1, <5>2 DEF WithSelf, EmptyRule
        <5> QED
          BY <5>1, <5>2
      <4>3. rule = [stypes |-> u, ttypes |-> {}, self |-> f, classes |-> {}, perms |-> {}]
        BY <3>2, <4>1, <4>2
      <4>4. RuleWith(s, {}, {}) = [stypes |-> u, ttypes |-> v, self |-> f, classes |-> {}, perms |-> {}]
        BY <4>1 DEF RuleWith
      <4>5. rule' = [rule EXCEPT !.ttypes = v]
        BY <3>1, <3>3, <4>1
      <4> QED
        BY <4>3, <4>4, <4>5
    <3>5. openparens' = 0 /\ Clear(a, pos, ColonAt(s))' /\ pos' # End'
      BY <1>1, <2>1, <2>3, <3>1, ReadLater
    <3>6. NoSet'
      BY <3>1 DEF NoSet
    <3>8. Reads(s, a)'
      BY <1>1, <3>1, <3>4, <3>5, <3>6 DEF Reads
    <3> QED
      BY <3>1, <3>8 DEF Later
  <2> QED
    BY <2>2, <2>3
<1> QED
  BY <1>2, <1>3 DEF TypesetRead

LEMMA ColonLater ==
  ASSUME NEW s, NEW a, ReadsRule(s, a), Reads(s, a), Colon
  PROVE  Later(s, a)
<1> DEFINE T == Tokens(s)
<1>1. ~complement /\ ok /\ NoSet /\ text' = text /\ loop = "colon"
  BY ReadsIs DEF Colon, Unread
<1>2. Clear(a, pos, ColonAt(s)) /\ rule = RuleWith(s, {}, {}) /\ openparens = 0
  BY <1>1, ReadsIs
<1>3. IsStatement(s) /\ IsList(s.classes, {}) /\ text \in Seq(Atoms) /\ Stands(text, T, a)
  BY DEF ReadsRule, IsStatement
<1>4. /\ Len(T) = EndAt(s) /\ ColonAt(s) \in Nat /\ PermsAt(s) \in Nat /\ EndAt(s) \in Nat /\ T[ColonAt(s)] = ":"
      /\ ColonAt(s) + 1 < PermsAt(s) /\ PermsAt(s) < EndAt(s)
  BY <1>3, TokensAre, Zenon
<1> HIDE DEF T
<1>5. PICK j : j = ColonAt(s)
  OBVIOUS
<1>6. j \in Nat /\ Len(T) \in Nat /\ j < Len(T) /\ T[j] = ":" /\ T[j] \notin Space /\ Clear(a, pos, j)
  <2>1. T[j] = ":" /\ Clear(a, pos, j)
    BY <1>2, <1>4, <1>5
  <2>2. j \in Nat /\ Len(T) \in Nat /\ j < Len(T)
    BY <1>4, <1>5
  <2>3. ":" \notin Space
    BY DEF Space, LineEnd
  <2> QED
    BY <2>1, <2>2, <2>3
<1>7. /\ Skip(pos) = Place(a, j) /\ (Place(a, j) = End <=> j \notin DOMAIN a)
      /\ j \in DOMAIN a => Place(a, j) = a[j] /\ text[a[j]] = T[j]
  BY <1>3, <1>6, ClearSkip
<1>8. Len(a) \in Nat /\ DOMAIN a = 1 .. Len(a) /\ Len(a) <= Len(T)
  BY <1>3, <1>6, StandsAt
<1>9. CASE j \notin DOMAIN a
  <2>1. j \in 1 .. Len(a) + 1
    BY <1>6 DEF Clear
  <2>2. Len(a) < Len(T)
    BY <1>6, <1>8, <1>9, <2>1
  <2> QED
    BY <1>7, <1>9, <2>2 DEF Colon, Later, T
<1>10. CASE j \in DOMAIN a
  <2>1. Skip(pos) = a[j] /\ Skip(pos) # End /\ text[Skip(pos)] = ":"
    BY <1>6, <1>7, <1>10
  <2>2. pos' = a[j] + 1 /\ loop' = "classes" /\ UNCHANGED <<rule, set, openparens, negate, complement, rules, ok>>
    BY <2>1 DEF Colon
  <2>3. Clear(a, a[j] + 1, j + 1)
    BY <1>3, <1>6, <1>10, ClearNext
  <2>4. Clear(a, pos, j + 1)'
    <3>1. PICK y, z : y = a[j] + 1 /\ z = j + 1
      OBVIOUS
    <3>2. Clear(a, pos, z)'
      BY <1>1, <2>2, <2>3, <3>1 DEF Clear, Place, End
    <3> QED
      BY <3>1, <3>2
  <2>5. Classes(s, 0) = {}
    BY <1>3, ClassesMore
  <2>6. InClasses(s, a)'
    <3>1. PICK y, z : y = a[j] + 1 /\ z = j + 1
      OBVIOUS
    <3>2. 0 \in 0 .. Len(s.classes) - 1 /\ InList(a, y, 0, z, FALSE, s.classes, 0)
      BY <1>3, <2>3, <3>1, Nothing
    <3>3. InList(a, pos, openparens, z, FALSE, s.classes, 0)'
      BY <1>1, <1>2, <2>2, <3>1, <3>2, ListLater
    <3>4. InList(a, pos, openparens, ColonAt(s) + 1, FALSE, s.classes, 0)'
      BY <1>5, <3>1, <3>3
    <3> QED
      BY <1>2, <2>2, <2>5, <3>2, <3>4 DEF InClasses
  <2>7. NoSet'
    BY <1>1, <2>2 DEF NoSet
  <2>8. Reads(s, a)'
    BY <1>1, <2>2, <2>6, <2>7 DEF Reads
  <2> QED
    BY <2>2, <2>8 DEF Later
<1> QED
  BY <1>9, <1>10

LEMMA ClassesReadLater ==
  ASSUME NEW s, NEW a, ReadsRule(s, a), Reads(s, a), ClassesRead
  PROVE  Later(s, a)
<1>1. ~complement /\ ok /\ NoSet /\ text' = text /\ loop = "cend"
  BY ReadsIs DEF ClassesRead, Unread
<1>2. ListRead(s, a, PermsAt(s)) /\ (pos # End => rule = RuleWith(s, Classes(s, Len(s.classes)), {}))
  BY <1>1, ReadsIs
<1>3. IsStatement(s)
  BY DEF ReadsRule
<1>4. CASE pos = End
  BY <1>2, <1>4 DEF ClassesRead, ListRead, Later
<1>5. CASE pos # End
  <2>1. loop' = "perms" /\ UNCHANGED <<pos, rule, set, openparens, negate, complement, rules, ok>>
    BY <1>5 DEF ClassesRead
  <2>2. openparens' = 0 /\ Clear(a, pos, PermsAt(s))'
    BY <1>1, <1>2, <1>5, <2>1, ReadLater
  <2>3. PermsTo(s, 0) = {}
    BY <1>3, PermsMore, Zenon
  <2>4. InPerms(s, a)'
    <3>1. PICK y, z : y = pos /\ z = PermsAt(s)
      OBVIOUS
    <3>2. 0 \in 0 .. Len(s.perms) - 1 /\ InList(a, y, 0, z, s.comp, s.perms, 0)
      <4>1. IsList(s.perms, {"*"}) /\ text \in Seq(Atoms)
        BY <1>3 DEF IsStatement, ReadsRule
      <4>2. Clear(a, y, z)
        BY <1>2, <1>5, <3>1 DEF ListRead
      <4> QED
        BY <4>1, <4>2, Nothing
    <3>3. InList(a, pos, openparens, z, s.comp, s.perms, 0)'
      BY <1>1, <2>1, <2>2, <3>1, <3>2, ListLater
    <3>4. InList(a, pos, openparens, PermsAt(s), s.comp, s.perms, 0)'
      BY <3>1, <3>3
    <3>5. rule' = RuleWith(s, Classes(s, Len(s.classes)), PermsTo(s, 0))
      BY <1>2, <1>5, <2>1, <2>3
    <3>6. complement' <=> (0 # 0 /\ s.comp)
      BY <1>1, <2>1
    <3> QED
      BY <3>2, <3>4, <3>5, <3>6 DEF InPerms
  <2>5. NoSet'
    BY <1>1, <2>1 DEF NoSet
  <2>6. Reads(s, a)'
    BY <1>1, <2>1, <2>4, <2>5 DEF Reads
  <2> QED
    BY <2>1, <2>6 DEF Later
<1> QED
  BY <1>4, <1>5

LEMMA PermsReadLater ==
  ASSUME NEW s, NEW a, ReadsRule(s, a), Reads(s, a), PermsRead
  PROVE  Later(s, a)
<1> DEFINE cs == Classes(s, Len(s.classes))
           n == Len(s.perms)
<1>1. ok /\ NoSet /\ text' = text /\ loop = "pend"
  BY ReadsIs DEF PermsRead, Unread
<1>2. ListRead(s, a, EndAt(s)) /\ (pos # End => (complement <=> s.comp) /\ rule = RuleWith(s, cs, PermsTo(s, n)))
  BY <1>1, ReadsIs
<1>3. IsStatement(s)
  BY DEF ReadsRule
<1>4. CASE pos = End
  BY <1>2, <1>4 DEF PermsRead, ListRead, Later
<1>5. CASE pos # End
  <2>1. /\ rule' = [rule EXCEPT !.perms = IF complement THEN AllPerms \ rule.perms ELSE rule.perms]
        /\ loop' = "rest" /\ complement' = FALSE
        /\ UNCHANGED <<pos, set, openparens, negate, rules, ok>>
    BY <1>5 DEF PermsRead
  <2>2. openparens' = 0 /\ Clear(a, pos, EndAt(s))'
    BY <1>1, <1>2, <1>5, <2>1, ReadLater
  <2>3. rule' = RuleOf(s)
    <3>1. PICK x, y, z, c, p : /\ x = Denoted(s.source) /\ y = Denoted(s.target) /\ z = OfSelf(s)
                               /\ c = cs /\ p = PermsTo(s, n)
      OBVIOUS
    <3>2. \A q : RuleWith(s, cs, q) = [stypes |-> x, ttypes |-> y, self |-> z, classes |-> c, perms |-> q]
      BY <3>1 DEF RuleWith
    <3>3. rule = [stypes |-> x, ttypes |-> y, self |-> z, classes |-> c, perms |-> p]
      BY <1>2, <1>5, <3>1, <3>2
    <3>4. rule.perms = p /\ AllPerms = AllOf(s)
      BY <3>1, <3>3 DEF AllPerms, AllOf
    <3>5. (IF complement THEN AllPerms \ rule.perms ELSE rule.perms) = Granted(s)
      BY <1>2, <1>3, <1>5, <3>1, <3>4, GrantedIs
    <3>6. \A q : [rule EXCEPT !.perms = q] = [stypes |-> x, ttypes |-> y, self |-> z, classes |-> c, perms |-> q]
      BY <3>3
    <3>7. rule' = RuleWith(s, cs, Granted(s))
      BY <2>1, <3>2, <3>5, <3>6
    <3> QED
      BY <3>7 DEF RuleOf
  <2>5. NoSet'
    BY <1>1, <2>1 DEF NoSet
  <2>6. Reads(s, a)'
    BY <1>1, <2>1, <2>2, <2>3, <2>5 DEF Reads
  <2> QED
    BY <2>1, <2>6 DEF Later
<1> QED
  BY <1>4, <1>5

-----------------------------------------------------------------------------
(***************************************************************************)
(* The statements of a file, one after the other.                          *)
(***************************************************************************)
FileFacts ==
  /\ text \in Seq(Atoms) /\ Len(text) \in Nat /\ End = Len(text) + 1 /\ conf.torn \in BOOLEAN
  /\ Len(conf.statements) \in Nat /\ Len(conf.at) = Len(conf.statements)
  /\ DOMAIN conf.at = 1 .. Len(conf.statements) /\ DOMAIN conf.statements = 1 .. Len(conf.statements)
  /\ (conf.statements = <<>> <=> Len(conf.statements) = 0)
  /\ \A k \in 1 .. Len(conf.statements) :
       /\ ReadsRule(conf.statements[k], conf.at[k])
       /\ Len(conf.at[k]) < Len(Tokens(conf.statements[k])) <=> (conf.torn /\ k = Len(conf.statements))
       /\ KeywordAt(k) \in 1 .. Len(text) /\ text[KeywordAt(k)] = "neverallow"
       /\ KeywordAt(k) = 1 \/ text[KeywordAt(k) - 1] \in Space
       /\ \A m \in k + 1 .. Len(conf.statements) : conf.at[k][Len(conf.at[k])] < KeywordAt(m)
  /\ \A q \in 1 .. Len(text) :
       text[q] = "neverallow" /\ Alone(text, q) => \E k \in 1 .. Len(conf.statements) : q = KeywordAt(k)
  /\ conf.torn => Len(conf.statements) # 0

LEMMA FileIs ==
  ASSUME conf \in Files, text = Uncommented(conf.lines)
  PROVE  FileFacts
<1>1. conf.lines \in Seq(Seq(STRING)) /\ conf.torn \in BOOLEAN /\ IsWritten(conf, text)
  BY FilesAreWritten
<1>2. text \in Seq(Atoms) /\ Len(text) \in Nat /\ DOMAIN text = 1 .. Len(text) /\ End = Len(text) + 1
  <2>1. text \in Seq(Atoms)
    BY <1>1, UncommentedIsSeq
  <2> QED
    BY <2>1 DEF End
<1> DEFINE ss == conf.statements
           ats == conf.at
           n == Len(ss)
<1>3. ss \in Seq({s \in Range(ss) : IsStatement(s)}) /\ ats \in Seq(Range(ats)) /\ Len(ats) = n
  BY <1>1 DEF IsWritten
<1>4. n \in Nat /\ DOMAIN ss = 1 .. n /\ DOMAIN ats = 1 .. n /\ (ss = <<>> <=> n = 0) /\ \A k \in 1 .. n : IsStatement(ss[k])
  BY <1>3
<1>5. /\ \A k \in DOMAIN ats :
           /\ Stands(text, Tokens(ss[k]), ats[k])
           /\ Len(ats[k]) < Len(Tokens(ss[k])) <=> (conf.torn /\ k = Len(ats))
           /\ ats[k][1] = 1 \/ text[ats[k][1] - 1] \in Space
           /\ \A m \in k + 1 .. Len(ats) : ats[k][Len(ats[k])] < ats[m][1]
      /\ \A q \in DOMAIN text : text[q] = "neverallow" /\ Alone(text, q) => \E k \in DOMAIN ats : q = ats[k][1]
      /\ conf.torn => ats # <<>>
  BY <1>1, Zenon DEF IsWritten
<1>6. conf.torn => n # 0
  <2>1. n = 0 => ats = <<>>
    BY <1>3
  <2> QED
    BY <1>5, <2>1
<1> HIDE DEF ss, ats, n
<1>7. ASSUME NEW k \in 1 .. n PROVE ReadsRule(ss[k], ats[k]) /\ ats[k][1] \in 1 .. Len(text) /\ text[ats[k][1]] = "neverallow"
  <2>1. PICK T : T = Tokens(ss[k])
    OBVIOUS
  <2>2. IsStatement(ss[k]) /\ Stands(text, T, ats[k])
    BY <1>4, <1>5, <2>1
  <2>3. Len(T) \in Nat /\ T[1] = "neverallow"
    <3>1. Len(T) = EndAt(ss[k]) /\ EndAt(ss[k]) \in Nat /\ T[1] = "neverallow"
      BY <2>1, <2>2, TokensAre
    <3> QED
      BY <3>1
  <2>4. 1 \in DOMAIN ats[k] /\ \A j \in DOMAIN ats[k] : ats[k][j] \in 1 .. Len(text) /\ text[ats[k][j]] = T[j]
    <3>1. PICK b : b = ats[k]
      OBVIOUS
    <3>2. Stands(text, T, b)
      BY <2>2, <3>1
    <3>3. 1 \in DOMAIN b /\ \A j \in DOMAIN b : b[j] \in 1 .. Len(text) /\ text[b[j]] = T[j]
      BY <1>2, <2>3, <3>2, StandsAt
    <3> QED
      BY <3>1, <3>3
  <2> QED
    BY <1>2, <2>1, <2>2, <2>3, <2>4 DEF ReadsRule
<1>8. \A k \in 1 .. n :
        /\ ReadsRule(ss[k], ats[k])
        /\ Len(ats[k]) < Len(Tokens(ss[k])) <=> (conf.torn /\ k = n)
        /\ ats[k][1] \in 1 .. Len(text) /\ text[ats[k][1]] = "neverallow"
        /\ ats[k][1] = 1 \/ text[ats[k][1] - 1] \in Space
        /\ \A m \in k + 1 .. n : ats[k][Len(ats[k])] < ats[m][1]
  <2>1. Len(ats) = n /\ DOMAIN ats = 1 .. n
    BY <1>3, <1>4
  <2> QED
    BY <1>5, <1>7, <2>1, Zenon
<1> QED
  BY <1>1, <1>2, <1>3, <1>4, <1>5, <1>6, <1>8, Zenon DEF FileFacts, KeywordAt, ss, ats, n

\* The tokens of a statement come after its first.
LEMMA Ascends ==
  ASSUME text \in Seq(Atoms), NEW T, NEW a, Stands(text, T, a), Len(T) \in Nat
  PROVE  \A j \in 2 .. Len(a) : a[1] < a[j]
<1> DEFINE n == Len(a)
           Bad == {j \in 0 .. n : j >= 2 /\ ~(a[1] < a[j])}
<1>1. n \in Nat /\ DOMAIN a = 1 .. n /\ 1 \in DOMAIN a /\ Len(text) \in Nat /\ \A j \in 1 .. n : a[j] \in 1 .. Len(text)
  BY StandsAt
<1>2. \A j \in 2 .. n : a[j - 1] < a[j]
  BY DEF Stands
<1> HIDE DEF n
<1>3. \A k \in 0 .. n : k # n /\ k \notin Bad => k + 1 \notin Bad
  <2> SUFFICES ASSUME NEW k \in 0 .. n, k # n, k \notin Bad, k + 1 >= 2 PROVE a[1] < a[k + 1]
    BY <1>1
  <2>1. PICK j \in 2 .. n : j = k + 1 /\ j - 1 = k
    BY <1>1
  <2>2. a[k] < a[j] /\ a[k] \in Nat /\ a[j] \in Nat /\ a[1] \in Nat
    <3>1. k \in 1 .. n /\ j \in 1 .. n /\ 1 \in 1 .. n
      BY <1>1, <2>1
    <3> QED
      BY <1>1, <1>2, <2>1, <3>1
  <2>3. CASE k = 1
    BY <2>1, <2>2, <2>3
  <2>4. CASE k # 1
    <3>1. a[1] < a[k]
      BY <1>1, <2>4
    <3> QED
      BY <2>1, <2>2, <3>1
  <2> QED
    BY <2>3, <2>4
<1>4. Bad = {}
  <2>1. Bad \subseteq 0 .. n /\ 0 \notin Bad
    OBVIOUS
  <2> HIDE DEF Bad
  <2> QED
    BY <1>1, <1>3, <2>1, Upward, Zenon
<1> QED
  BY <1>1, <1>4 DEF n

\* The rest of a statement.
RestDone(s, a) ==
  /\ EndAt(s) \in DOMAIN a /\ Len(a) = Len(Tokens(s)) /\ Len(a) = EndAt(s) /\ pos' = a[EndAt(s)] /\ loop' = "scan"
  /\ rules' = <<RuleOf(s)>> \o rules /\ openparens = 0 /\ NoSet /\ ~complement /\ ok
  /\ UNCHANGED <<rule, set, openparens, negate, complement, ok>>

LEMMA RestLater ==
  ASSUME NEW s, NEW a, ReadsRule(s, a), Reads(s, a), Rest
  PROVE  (Err /\ Len(a) < Len(Tokens(s))) \/ RestDone(s, a)
<1> DEFINE T == Tokens(s)
<1>1. ~complement /\ ok /\ NoSet /\ loop = "rest"
  BY ReadsIs DEF Rest
<1>2. Clear(a, pos, EndAt(s)) /\ rule = RuleOf(s) /\ openparens = 0
  BY <1>1, ReadsIs
<1>3. text \in Seq(Atoms) /\ Stands(text, T, a) /\ Len(T) = EndAt(s) /\ EndAt(s) \in Nat /\ T[EndAt(s)] = ";"
  BY TokensAre DEF ReadsRule
<1> HIDE DEF T
<1>4. PICK j : j = EndAt(s)
  OBVIOUS
<1>5. j \in Nat /\ Len(T) \in Nat /\ Len(T) = j /\ T[j] = ";" /\ Clear(a, pos, j)
  BY <1>2, <1>3, <1>4
<1>6. ";" \notin Space
  BY DEF Space, LineEnd
<1>7. /\ pos \in 1 .. End /\ Place(a, j) \in 1 .. End /\ (Place(a, j) = End <=> j \notin DOMAIN a)
      /\ j \in DOMAIN a => Place(a, j) = a[j] /\ text[a[j]] = T[j]
  BY <1>3, <1>5, <1>6, ClearSkip
<1>8. Len(a) \in Nat /\ DOMAIN a = 1 .. Len(a) /\ Len(a) <= Len(T) /\ Len(text) \in Nat /\ End = Len(text) + 1
  BY <1>3, <1>5, StandsAt
<1>9. SkipTo(pos, {";"}) = Place(a, j)
  <2>1. PICK r : r = Place(a, j)
    OBVIOUS
  <2>2. r \in pos .. End /\ pos \in Nat
    <3>1. pos \in 1 .. r
      BY <1>5, <2>1 DEF Clear
    <3> QED
      BY <1>7, <1>8, <2>1, <3>1
  <2>3. \A q \in pos .. r - 1 : text[q] \notin {";"}
    <3>1. \A q \in pos .. r - 1 : text[q] \in Space
      BY <1>5, <2>1 DEF Clear
    <3> QED
      BY <1>6, <3>1
  <2>4. r = End \/ text[r] \in {";"}
    BY <1>5, <1>7, <2>1
  <2> QED
    BY <1>3, <2>1, <2>2, <2>3, <2>4, SkipToIs
<1>10. CASE j \notin DOMAIN a
  <2>0. j \in 1 .. Len(a) + 1
    BY <1>5 DEF Clear
  <2>a. j \in Nat /\ Len(T) = j /\ Len(a) \in Nat /\ j \notin 1 .. Len(a)
    BY <1>5, <1>8, <1>10
  <2>1. Len(a) < Len(T)
    BY <2>0, <2>a
  <2>2. Err
    BY <1>7, <1>9, <1>10 DEF Rest
  <2> QED
    BY <2>1, <2>2 DEF T
<1>11. CASE j \in DOMAIN a
  <2>1. SkipTo(pos, {";"}) = a[j] /\ a[j] # End
    BY <1>7, <1>9, <1>11
  <2>2. pos' = a[j] /\ loop' = "scan" /\ rules' = <<rule>> \o rules /\ UNCHANGED <<rule, set, openparens, negate, complement, ok>>
    BY <2>1 DEF Rest
  <2>a. j \in Nat /\ Len(T) = j /\ Len(a) \in Nat /\ j \in 1 .. Len(a) /\ Len(a) <= Len(T)
    BY <1>5, <1>8, <1>11
  <2>3. Len(a) = Len(T)
    BY <2>a
  <2> QED
    BY <1>1, <1>2, <1>4, <1>5, <1>11, <2>2, <2>3 DEF RestDone, T
<1> QED
  BY <1>10, <1>11

\* The statements begin one after the other, and end before the next.
LEMMA StartsAscend ==
  ASSUME FileFacts, NEW k \in 1 .. Len(conf.statements)
  PROVE  /\ KeywordAt(k) <= conf.at[k][Len(conf.at[k])] /\ conf.at[k][Len(conf.at[k])] \in 1 .. Len(text)
         /\ \A m \in k + 1 .. Len(conf.statements) : KeywordAt(k) < KeywordAt(m)
<1>1. PICK a, s : a = conf.at[k] /\ s = conf.statements[k]
  OBVIOUS
<1>2. /\ ReadsRule(s, a) /\ text \in Seq(Atoms) /\ Len(conf.statements) \in Nat
      /\ \A m \in k + 1 .. Len(conf.statements) : a[Len(a)] < KeywordAt(m)
      /\ \A m \in 1 .. Len(conf.statements) : KeywordAt(m) \in 1 .. Len(text)
  BY <1>1, Zenon DEF FileFacts
<1>3. Len(Tokens(s)) \in Nat /\ Stands(text, Tokens(s), a)
  <2>1. IsStatement(s) /\ Stands(text, Tokens(s), a)
    BY <1>2 DEF ReadsRule
  <2>2. Len(Tokens(s)) = EndAt(s) /\ EndAt(s) \in Nat
    BY <2>1, TokensAre, Zenon
  <2> QED
    BY <2>1, <2>2
<1>4. /\ Len(a) \in Nat /\ DOMAIN a = 1 .. Len(a) /\ 1 \in DOMAIN a /\ Len(text) \in Nat
      /\ \A j \in DOMAIN a : a[j] \in 1 .. Len(text)
  <2>1. PICK T : T = Tokens(s)
    OBVIOUS
  <2>2. Len(T) \in Nat /\ Stands(text, T, a)
    BY <1>3, <2>1
  <2> QED
    BY <1>2, <2>2, StandsAt
<1>5. a[1] <= a[Len(a)] /\ a[Len(a)] \in 1 .. Len(text) /\ a[1] \in 1 .. Len(text)
  <2>1. Len(a) = 1 \/ Len(a) \in 2 .. Len(a)
    BY <1>4
  <2>2. \A j \in 2 .. Len(a) : a[1] < a[j]
    BY <1>2, <1>3, Ascends
  <2>3. a[Len(a)] \in 1 .. Len(text) /\ a[1] \in 1 .. Len(text)
    BY <1>4
  <2>4. CASE Len(a) = 1
    BY <2>3, <2>4
  <2>5. CASE Len(a) \in 2 .. Len(a)
    BY <2>2, <2>3, <2>5
  <2> QED
    BY <2>1, <2>3, <2>4, <2>5
<1>6. KeywordAt(k) = a[1]
  BY <1>1 DEF KeywordAt
<1>7. ASSUME NEW m \in k + 1 .. Len(conf.statements) PROVE KeywordAt(k) < KeywordAt(m)
  <2>1. a[Len(a)] < KeywordAt(m) /\ KeywordAt(m) \in Nat
    <3>1. m \in 1 .. Len(conf.statements)
      BY <1>2
    <3> QED
      BY <1>2, <3>1
  <2> QED
    BY <1>5, <1>6, <2>1
<1> QED
  BY <1>1, <1>5, <1>6, <1>7

\* What is scanned, when n statements have been read: nothing but what is between
\* statements, or the keyword of the next.
LEMMA ScanWord ==
  ASSUME FileFacts, pos \in 1 .. End, WordBegins(pos), NEW n \in 0 .. Len(conf.statements), ScansTo(pos, n),
         NEW start, start = Skip(pos), NEW p, p = SkipTo(start, Space)
  PROVE  /\ p \in 1 .. End /\ WordBegins(p)
         /\ \/ /\ n < Len(conf.statements) /\ start = KeywordAt(n + 1) /\ p = start + 1 /\ Word(start, p) = "neverallow"
               /\ p > start
            \/ (p > start => Word(start, p) # "neverallow") /\ ScansTo(p, n)
<1> DEFINE N == Len(conf.statements)
<1>1. /\ text \in Seq(Atoms) /\ Len(text) \in Nat /\ End = Len(text) + 1 /\ N \in Nat
      /\ \A k \in 1 .. N : /\ ReadsRule(conf.statements[k], conf.at[k])
                           /\ KeywordAt(k) \in 1 .. Len(text) /\ text[KeywordAt(k)] = "neverallow"
                           /\ KeywordAt(k) = 1 \/ text[KeywordAt(k) - 1] \in Space
      /\ \A q \in 1 .. Len(text) : text[q] = "neverallow" /\ Alone(text, q) => \E k \in 1 .. N : q = KeywordAt(k)
  BY Zenon DEF FileFacts
<1>2. "neverallow" \notin Space
  BY DEF Space, LineEnd
<1>3. /\ start \in pos .. End /\ \A q \in pos .. start - 1 : text[q] \in Space
      /\ start = End \/ text[start] \notin Space
  BY <1>1, SkipEnds
<1>4. /\ p \in start .. End /\ \A q \in start .. p - 1 : text[q] \notin Space
      /\ p = End \/ text[p] \in Space
  <2>1. start \in 1 .. End
    BY <1>1, <1>3
  <2> QED
    BY <1>1, <2>1, SkipToEnds
<1>5. p \in 1 .. End /\ start \in 1 .. End /\ p \in Nat /\ start \in Nat /\ pos \in Nat /\ WordBegins(p)
  <2>1. p = End \/ text[p] \in Space \cup {";"}
    BY <1>4
  <2>2. WordBegins(p)
    BY <2>1 DEF WordBegins
  <2> QED
    BY <1>1, <1>3, <1>4, <2>2
<1> HIDE DEF N
<1>6. ASSUME NEW k \in 1 .. N, k > n PROVE KeywordAt(k) >= start
  <2>1. KeywordAt(k) >= pos
    BY <1>1, <1>5, <1>6 DEF ScansTo, N
  <2>2. KeywordAt(k) \notin pos .. start - 1
    BY <1>1, <1>2, <1>3, <1>6
  <2> QED
    BY <1>1, <1>5, <1>6, <2>1, <2>2
<1>7. CASE \E k \in 1 .. N : KeywordAt(k) = start
  <2>1. PICK k \in 1 .. N : KeywordAt(k) = start
    BY <1>7
  <2>2. k > n
    <3>1. KeywordAt(k) >= pos /\ KeywordAt(k) \in Nat
      BY <1>1, <1>3, <1>5, <2>1
    <3> QED
      BY <1>1, <1>5, <3>1 DEF ScansTo, N
  <2>3. k = n + 1
    <3>1. SUFFICES ASSUME k # n + 1 PROVE FALSE
      OBVIOUS
    <3>2. PICK m \in 1 .. N : m = n + 1 /\ k \in m + 1 .. N
      BY <1>1, <2>2, <3>1 DEF N
    <3>3. KeywordAt(m) < KeywordAt(k)
      BY <3>2, StartsAscend DEF N
    <3>4. KeywordAt(m) >= start
      BY <1>1, <1>6, <3>2 DEF N
    <3> QED
      BY <1>1, <1>5, <2>1, <3>2, <3>3, <3>4
  <2>4. PICK s, a, T : s = conf.statements[k] /\ a = conf.at[k] /\ T = Tokens(s)
    OBVIOUS
  <2>5. IsStatement(s) /\ Stands(text, T, a)
    BY <1>1, <2>1, <2>4 DEF ReadsRule
  <2>6. Len(T) \in Nat /\ T[1] = "neverallow" /\ 1 < Len(T)
    <3>1. Len(T) = EndAt(s) /\ TargetAt(s) \in Nat /\ ColonAt(s) \in Nat /\ PermsAt(s) \in Nat /\ EndAt(s) \in Nat
          /\ 2 < TargetAt(s) /\ TargetAt(s) < ColonAt(s) /\ ColonAt(s) + 1 < PermsAt(s) /\ PermsAt(s) < EndAt(s)
          /\ T[1] = "neverallow"
      BY <2>4, <2>5, TokensAre, Zenon
    <3> QED
      BY <3>1
  <2>7. 1 \in DOMAIN a /\ a[1] = start
    <3>1. 1 \in DOMAIN a
      BY <1>1, <2>5, <2>6, StandsAt
    <3> QED
      BY <2>1, <2>4, <3>1 DEF KeywordAt
  <2>8. ~Together(T[1], T[1 + 1])
    BY <2>6 DEF Together
  <2>9. SkipTo(a[1], Space) = a[1] + 1
    BY <1>1, <1>2, <2>5, <2>6, <2>7, <2>8, WordEnds
  <2>10. p = start + 1 /\ p > start
    BY <1>5, <2>7, <2>9
  <2>11. Word(start, p) = "neverallow"
    BY <1>1, <2>1, <2>10 DEF Word
  <2>12. n < N
    BY <1>1, <2>1, <2>2 DEF N
  <2> QED
    BY <1>5, <2>1, <2>3, <2>10, <2>11, <2>12 DEF N
<1>8. CASE ~\E k \in 1 .. N : KeywordAt(k) = start
  <2>1. p > start => Word(start, p) # "neverallow"
    <3> SUFFICES ASSUME p = start + 1, text[start] = "neverallow" PROVE FALSE
      BY DEF Word
    <3>1. start \in 1 .. Len(text)
      BY <1>1, <1>4, <1>5
    <3>2. start = 1 \/ text[start - 1] \in Space
      <4>1. CASE start = pos
        <5>1. pos # End /\ text[pos] \notin Space \cup {";"}
          <6>1. text[pos] = "neverallow" /\ "neverallow" \notin Space \cup {";"}
            BY <1>2, <4>1
          <6>2. pos \in 1 .. Len(text)
            BY <3>1, <4>1
          <6> QED
            BY <1>1, <6>1, <6>2
        <5> QED
          BY <4>1, <5>1 DEF WordBegins
      <4>2. CASE start # pos
        <5>1. start - 1 \in pos .. start - 1
          BY <1>1, <1>3, <1>5, <4>2
        <5> QED
          BY <1>3, <5>1
      <4> QED
        BY <4>1, <4>2
    <3>3. start = Len(text) \/ text[start + 1] \in Space
      <4>1. start + 1 = End \/ text[start + 1] \in Space
        BY <1>4
      <4> QED
        BY <1>1, <1>5, <4>1
    <3> QED
      BY <1>1, <1>8, <3>1, <3>2, <3>3 DEF Alone
  <2>2. ASSUME NEW k \in 1 .. N PROVE k <= n <=> KeywordAt(k) < p
    <3>0. KeywordAt(k) \in 1 .. Len(text) /\ KeywordAt(k) \in Nat /\ n \in Nat /\ k \in Nat
      BY <1>1 DEF N
    <3>1. CASE k <= n
      <4>1. KeywordAt(k) < pos
        BY <3>1 DEF ScansTo, N
      <4> QED
        BY <1>1, <1>3, <1>4, <1>5, <3>0, <3>1, <4>1
    <3>2. CASE k > n
      <4>1. KeywordAt(k) >= start /\ KeywordAt(k) # start
        BY <1>6, <1>8, <3>2
      <4>2. ~(KeywordAt(k) < p)
        <5>1. SUFFICES ASSUME KeywordAt(k) < p PROVE FALSE
          OBVIOUS
        <5>2. KeywordAt(k) - 1 \in start .. p - 1 /\ KeywordAt(k) # 1
          BY <1>5, <3>0, <4>1, <5>1
        <5> QED
          BY <1>1, <1>4, <5>2
      <4> QED
        BY <3>0, <3>2, <4>2
    <3> QED
      BY <3>0, <3>1, <3>2
  <2> QED
    BY <1>5, <2>1, <2>2 DEF ScansTo, N
<1> QED
  BY <1>7, <1>8

-----------------------------------------------------------------------------
(***************************************************************************)
(* The steps of the program in the whole file.                             *)
(***************************************************************************)
LEMMA WholeFacts ==
  ASSUME conf \in Files, InWhole
  PROVE  /\ FileFacts /\ text \in Seq(Atoms) /\ RulesRead /\ Len(rules) \in 0 .. Len(conf.statements)
         /\ Len(conf.statements) \in Nat /\ End \in Nat \ {0}
<1>1. FileFacts /\ RulesRead
  BY FileIs DEF InWhole
<1>2. text \in Seq(Atoms) /\ Len(text) \in Nat /\ End = Len(text) + 1 /\ Len(conf.statements) \in Nat
  BY <1>1 DEF FileFacts
<1>3. Len(rules) \in 0 .. Len(conf.statements)
  BY <1>1 DEF RulesRead
<1> QED
  BY <1>1, <1>2, <1>3

LEMMA WholeLoop ==
  ASSUME InWhole
  PROVE  /\ loop = "scan" => Scans
         /\ loop = "end" => /\ ok <=> (conf.statements # <<>> /\ ~conf.torn)
                            /\ ok => Len(rules) = Len(conf.statements)
         /\ loop \notin {"scan", "end"} => InStatement
<1>1. InStatement => loop \notin {"scan", "end"}
  <2>1. ASSUME NEW s, NEW a, Reads(s, a) PROVE loop \notin {"scan", "end"}
    BY <2>1, ReadsIs
  <2> QED
    BY <2>1, Zenon DEF InStatement
<1>2. \/ loop = "scan" /\ Scans
      \/ /\ loop = "end" /\ (ok <=> (conf.statements # <<>> /\ ~conf.torn))
         /\ ok => Len(rules) = Len(conf.statements)
      \/ InStatement
  BY Zenon DEF InWhole
<1> QED
  BY <1>1, <1>2

\* Nothing of the file changes, and there is no new rule.
LEMMA SameRules ==
  ASSUME InWhole, Unread, rules' = rules
  PROVE  text' = Uncommented(conf.lines)' /\ results' = <<>> /\ RulesRead' /\ conf' = conf /\ text' = text /\ End' = End
<1>1. text' = text /\ conf' = conf /\ results' = results
  BY DEF Unread
<1> QED
  BY <1>1 DEF InWhole, RulesRead, End

LEMMA ScanStep ==
  ASSUME conf \in Files, InWhole, Scan
  PROVE  InWhole'
<1>1. loop = "scan" /\ Scans
  BY WholeLoop DEF Scan
<1>2. FileFacts /\ text \in Seq(Atoms) /\ Len(rules) \in 0 .. Len(conf.statements)
  BY WholeFacts
<1>3. PICK start, p, n : start = Skip(pos) /\ p = SkipTo(start, Space) /\ n = Len(rules)
  OBVIOUS
<1>4. pos \in 1 .. End /\ WordBegins(pos) /\ openparens = 0 /\ NoSet /\ ~complement /\ ok /\ ScansTo(pos, n) /\ n \in 0 .. Len(conf.statements)
  BY <1>1, <1>2, <1>3 DEF Scans
<1>5. /\ pos' = p /\ UNCHANGED <<set, openparens, negate, complement, rules, ok>> /\ Unread
      /\ IF p > start /\ Word(start, p) = "neverallow"
         THEN loop' = "stypes" /\ rule' = NewRule ELSE UNCHANGED <<loop, rule>>
  BY <1>3 DEF Scan
<1>6. text' = Uncommented(conf.lines)' /\ results' = <<>> /\ RulesRead' /\ conf' = conf /\ text' = text /\ End' = End
  BY <1>5, SameRules
<1>7. /\ p \in 1 .. End /\ WordBegins(p)
      /\ \/ /\ n < Len(conf.statements) /\ start = KeywordAt(n + 1) /\ p = start + 1 /\ Word(start, p) = "neverallow"
            /\ p > start
         \/ (p > start => Word(start, p) # "neverallow") /\ ScansTo(p, n)
  BY <1>2, <1>3, <1>4, ScanWord
<1>8. NoSet'
  BY <1>4, <1>5 DEF NoSet
<1>9. CASE /\ n < Len(conf.statements) /\ start = KeywordAt(n + 1) /\ p = start + 1 /\ Word(start, p) = "neverallow"
           /\ p > start
  <2>1. loop' = "stypes" /\ rule' = NewRule
    BY <1>5, <1>9
  <2>2. PICK k \in 1 .. Len(conf.statements) : k = n + 1
    BY <1>4, <1>9
  <2>3. PICK s, a, T : s = conf.statements[k] /\ a = conf.at[k] /\ T = Tokens(s)
    OBVIOUS
  <2>4. ReadsRule(s, a)
    BY <1>2, <2>3 DEF FileFacts
  <2>5. IsStatement(s) /\ Stands(text, T, a) /\ IsSet(s.source)
    BY <2>3, <2>4 DEF ReadsRule, IsStatement
  <2>6. Len(T) \in Nat /\ 1 < Len(T)
    <3>1. Len(T) = EndAt(s) /\ TargetAt(s) \in Nat /\ ColonAt(s) \in Nat /\ PermsAt(s) \in Nat /\ EndAt(s) \in Nat
          /\ 2 < TargetAt(s) /\ TargetAt(s) < ColonAt(s) /\ ColonAt(s) + 1 < PermsAt(s) /\ PermsAt(s) < EndAt(s)
      BY <2>3, <2>5, TokensAre, Zenon
    <3> QED
      BY <3>1
  <2>7. 1 \in DOMAIN a
    BY <1>2, <2>5, <2>6, StandsAt
  <2>8. Clear(a, a[1] + 1, 2)
    <3>1. Clear(a, a[1] + 1, 1 + 1)
      BY <1>2, <2>5, <2>6, <2>7, ClearNext
    <3> QED
      BY <3>1
  <2>9. pos' = a[1] + 1
    BY <1>5, <1>9, <2>2, <2>3 DEF KeywordAt
  <2>10. Clear(a, pos, 2)'
    <3>1. PICK y, z : y = a[1] + 1 /\ z = 2
      OBVIOUS
    <3>2. Clear(a, y, z)
      BY <2>8, <3>1
    <3>3. Clear(a, pos, z)'
      BY <1>6, <2>9, <3>1, <3>2 DEF Clear, Place, End
    <3> QED
      BY <3>1, <3>3
  <2>11. InTypes(a, s.source, 2, EmptyRule({}, {}))'
    <3>1. PICK y, z : y = a[1] + 1 /\ z = 2
      OBVIOUS
    <3>2. openparens' = 0
      BY <1>4, <1>5
    <3>3. 0 \in 0 .. Len(s.source.list) - 1 /\ InList(a, pos, openparens, 2, s.source.comp, s.source.list, 0)'
      <4>1. 0 \in 0 .. Len(s.source.list) - 1 /\ InList(a, y, 0, z, s.source.comp, s.source.list, 0)
        <5>1. IsList(s.source.list, {"*", "-", "self"})
          BY <2>5 DEF IsSet
        <5> QED
          BY <1>2, <2>8, <3>1, <5>1, Nothing
      <4>2. InList(a, pos, openparens, z, s.source.comp, s.source.list, 0)'
        BY <1>6, <2>9, <3>1, <3>2, <4>1, ListLater
      <4> QED
        BY <3>1, <4>1, <4>2
    <3>4. rule' = EmptyRule({}, {})
      BY <2>1 DEF NewRule, EmptyRule
    <3> QED
      BY <1>8, <3>2, <3>3, <3>4 DEF InTypes
  <2>12. Reads(s, a)'
    BY <1>4, <1>5, <1>8, <2>1, <2>11 DEF Reads
  <2>13. InStatement'
    BY <1>3, <1>5, <1>6, <1>9, <2>2, <2>3, <2>12 DEF InStatement
  <2> QED
    BY <1>6, <2>13 DEF InWhole
<1>10. CASE (p > start => Word(start, p) # "neverallow") /\ ScansTo(p, n)
  <2>1. loop' = loop
    BY <1>5, <1>10
  <2>2. ScansTo(pos, Len(rules))'
    BY <1>3, <1>5, <1>6, <1>10 DEF ScansTo, KeywordAt
  <2>3. pos' \in 1 .. End'
    BY <1>5, <1>6, <1>7
  <2>4. WordBegins(pos)'
    BY <1>5, <1>6, <1>7 DEF WordBegins
  <2>5. Scans'
    BY <1>4, <1>5, <1>8, <2>2, <2>3, <2>4 DEF Scans
  <2> QED
    BY <1>1, <1>6, <2>1, <2>5 DEF InWhole
<1> QED
  BY <1>7, <1>9, <1>10

LEMMA CheckedStep ==
  ASSUME conf \in Files, InWhole, Checked
  PROVE  InWhole'
<1>1. loop = "scan" /\ Scans /\ pos = End
  BY WholeLoop DEF Checked
<1>2. FileFacts /\ RulesRead /\ Len(rules) \in 0 .. Len(conf.statements) /\ Len(conf.statements) \in Nat
  BY WholeFacts
<1>3. /\ loop' = "end" /\ UNCHANGED <<rules, complement>> /\ Unread
      /\ rules = <<>> => ok' = FALSE
      /\ rules # <<>> => ok' = ok
  BY DEF Checked, Err
<1>4. text' = Uncommented(conf.lines)' /\ results' = <<>> /\ RulesRead' /\ conf' = conf /\ text' = text /\ End' = End
  BY <1>3, SameRules
<1>5. Len(rules) = Len(conf.statements)
  <2>1. SUFFICES ASSUME Len(rules) # Len(conf.statements) PROVE FALSE
    OBVIOUS
  <2>2. PICK k \in 1 .. Len(conf.statements) : k = Len(rules) + 1
    BY <1>2, <2>1
  <2>3. KeywordAt(k) < End
    <3>1. KeywordAt(k) \in 1 .. Len(text) /\ End = Len(text) + 1 /\ Len(text) \in Nat
      BY <1>2 DEF FileFacts
    <3> QED
      BY <3>1
  <2>4. ~(k <= Len(rules))
    BY <1>2, <2>2
  <2> QED
    BY <1>1, <2>3, <2>4 DEF Scans, ScansTo
<1>6. ~conf.torn /\ ok
  BY <1>1, <1>2, <1>5 DEF Scans, RulesRead
<1>7. rules = <<>> <=> conf.statements = <<>>
  <2>1. (conf.statements = <<>> <=> Len(conf.statements) = 0)
    BY <1>2 DEF FileFacts
  <2>2. rules = <<>> <=> Len(rules) = 0
    <3>1. rules \in Seq(Range(rules))
      <4>1. Len(rules) \in Nat
        BY <1>2
      <4>2. rules = [x \in 1 .. Len(rules) |-> RuleOf(conf.statements[Len(rules) + 1 - x])]
        BY <1>2 DEF RulesRead
      <4> QED
        BY <4>1, <4>2 DEF Range
    <3> QED
      BY <3>1
  <2> QED
    BY <1>5, <2>1, <2>2
<1>8. ok' <=> (conf.statements # <<>> /\ ~conf.torn)
  BY <1>3, <1>6, <1>7
<1> QED
  BY <1>3, <1>4, <1>5, <1>8 DEF InWhole

\* An error within a statement.
LEMMA ErrStep ==
  ASSUME conf \in Files, InWhole, Unread, Err, NEW k \in 1 .. Len(conf.statements),
         Len(conf.at[k]) < Len(Tokens(conf.statements[k]))
  PROVE  InWhole'
<1>1. FileFacts
  BY WholeFacts
<1>2. conf.torn
  BY <1>1 DEF FileFacts
<1>3. loop' = "end" /\ ok' = FALSE /\ rules' = rules
  BY DEF Err
<1>4. text' = Uncommented(conf.lines)' /\ results' = <<>> /\ RulesRead' /\ conf' = conf
  BY <1>3, SameRules
<1> QED
  BY <1>2, <1>3, <1>4 DEF InWhole

\* A step in a statement.
LEMMA LaterStep ==
  ASSUME conf \in Files, InWhole, Unread, InStatement,
         NEW s, NEW a, s = conf.statements[Len(rules) + 1], a = conf.at[Len(rules) + 1], Later(s, a)
  PROVE  InWhole'
<1>1. Len(rules) \in 0 .. Len(conf.statements) /\ Len(conf.statements) \in Nat /\ Len(rules) < Len(conf.statements)
  BY WholeFacts DEF InStatement
<1>2. PICK k \in 1 .. Len(conf.statements) : k = Len(rules) + 1
  BY <1>1
<1>3. CASE Err /\ Len(a) < Len(Tokens(s))
  BY <1>2, <1>3, ErrStep
<1>4. CASE Reads(s, a)' /\ rules' = rules
  <2>1. text' = Uncommented(conf.lines)' /\ results' = <<>> /\ RulesRead' /\ conf' = conf
    BY <1>4, SameRules
  <2>2. InStatement'
    BY <1>1, <1>4, <2>1 DEF InStatement
  <2> QED
    BY <2>1, <2>2 DEF InWhole
<1> QED
  BY <1>3, <1>4 DEF Later

\* The rules that are read, the last one first.
LEMMA RulesAre ==
  ASSUME RulesRead
  PROVE  /\ rules \in Seq(Range(rules)) /\ Len(rules) \in Nat /\ DOMAIN rules = 1 .. Len(rules)
         /\ \A x \in 1 .. Len(rules) : rules[x] = RuleOf(conf.statements[Len(rules) + 1 - x])
<1>1. PICK n : n = Len(rules) /\ n \in Nat
  BY DEF RulesRead
<1>2. rules = [x \in 1 .. n |-> RuleOf(conf.statements[n + 1 - x])]
  BY <1>1 DEF RulesRead
<1>3. DOMAIN rules = 1 .. n /\ \A x \in 1 .. n : rules[x] = RuleOf(conf.statements[n + 1 - x])
  BY <1>2
<1>4. rules \in [1 .. n -> Range(rules)]
  BY <1>2 DEF Range
<1>5. rules \in Seq(Range(rules))
  BY <1>1, <1>4
<1> QED
  BY <1>1, <1>3, <1>5

LEMMA RestStep ==
  ASSUME conf \in Files, InWhole, Rest
  PROVE  InWhole'
<1>0. FileFacts /\ RulesRead /\ Len(rules) \in 0 .. Len(conf.statements) /\ Len(conf.statements) \in Nat
      /\ text \in Seq(Atoms) /\ Len(text) \in Nat /\ End = Len(text) + 1
  BY WholeFacts DEF FileFacts
<1>1. InStatement /\ Unread
  BY WholeLoop DEF Rest
<1>2. PICK s, a : s = conf.statements[Len(rules) + 1] /\ a = conf.at[Len(rules) + 1] /\ Reads(s, a)
  BY <1>1 DEF InStatement
<1>3. PICK n \in 0 .. Len(conf.statements) : n = Len(rules)
  BY <1>0
<1>4. PICK k \in 1 .. Len(conf.statements) : k = n + 1
  BY <1>0, <1>1, <1>3 DEF InStatement
<1>5. ReadsRule(s, a) /\ s = conf.statements[k] /\ a = conf.at[k]
  BY <1>0, <1>2, <1>3, <1>4 DEF FileFacts
<1>6. CASE Err /\ Len(a) < Len(Tokens(s))
  BY <1>1, <1>5, <1>6, ErrStep
<1>7. CASE RestDone(s, a)
  <2>1. text' = text /\ conf' = conf /\ results' = results /\ End' = End
    BY <1>1 DEF Unread, End
  <2>2. /\ EndAt(s) \in DOMAIN a /\ Len(a) = Len(Tokens(s)) /\ Len(a) = EndAt(s) /\ pos' = a[EndAt(s)] /\ loop' = "scan"
        /\ rules' = <<RuleOf(s)>> \o rules /\ openparens = 0 /\ NoSet /\ ~complement /\ ok
        /\ UNCHANGED <<rule, set, openparens, negate, complement, ok>>
    BY <1>7, Zenon DEF RestDone
  <2>3. PICK g, N, st : g = RuleOf(s) /\ N = Len(conf.statements) /\ st = conf.statements
    OBVIOUS
  <2>4. /\ rules \in Seq(Range(rules)) /\ Len(rules) = n /\ DOMAIN rules = 1 .. n
        /\ \A x \in 1 .. n : rules[x] = RuleOf(st[n + 1 - x])
    BY <1>0, <1>3, <2>3, RulesAre
  <2>5. /\ Len(rules') = n + 1 /\ DOMAIN rules' = 1 .. n + 1 /\ rules'[1] = g
        /\ \A x \in 2 .. n + 1 : rules'[x] = rules[x - 1]
        /\ rules' = [x \in 1 .. n + 1 |-> rules'[x]]
    <3>1. PICK X, u : X = Range(rules) \cup {g} /\ u = rules
      OBVIOUS
    <3>2. u \in Seq(X) /\ g \in X /\ Len(u) = n /\ n \in Nat
      <4>1. Range(rules) \subseteq X
        BY <3>1
      <4>2. Seq(Range(rules)) \subseteq Seq(X)
        BY <4>1, SeqMonotonic, Zenon
      <4> QED
        BY <1>3, <2>4, <3>1, <4>2
    <3>3. rules' = <<g>> \o u
      BY <2>2, <2>3, <3>1
    <3>4. /\ <<g>> \o u \in Seq(X) /\ Len(<<g>> \o u) = n + 1 /\ (<<g>> \o u)[1] = g
          /\ \A x \in 2 .. n + 1 : (<<g>> \o u)[x] = u[x - 1]
      BY <3>2
    <3>5. \A v \in Seq(X) : Len(v) = n + 1 => DOMAIN v = 1 .. n + 1 /\ v = [x \in 1 .. n + 1 |-> v[x]]
      BY <3>2
    <3> QED
      BY <3>1, <3>3, <3>4, <3>5
  <2>6. \A x \in 1 .. n + 1 : rules'[x] = RuleOf(st[n + 2 - x])
    <3> SUFFICES ASSUME NEW x \in 1 .. n + 1 PROVE rules'[x] = RuleOf(st[n + 2 - x])
      OBVIOUS
    <3>1. CASE x = 1
      <4>1. n + 2 - x = k
        BY <1>4, <3>1
      <4> QED
        BY <1>5, <2>3, <2>5, <3>1, <4>1
    <3>2. CASE x # 1
      <4>1. PICK y \in 1 .. n : y = x - 1 /\ x \in 2 .. n + 1 /\ n + 1 - y = n + 2 - x
        BY <1>3, <3>2
      <4>2. rules'[x] = rules[y]
        BY <2>5, <4>1
      <4>3. rules[y] = RuleOf(st[n + 1 - y])
        BY <2>4, <4>1
      <4> QED
        BY <4>1, <4>2, <4>3
    <3> QED
      BY <3>1, <3>2
  <2>7. RulesRead'
    <3>1. Len(rules') \in 0 .. N /\ Len(rules') + 1 = n + 2
      BY <1>0, <1>3, <1>4, <2>3, <2>5
    <3>2. rules' = [x \in 1 .. Len(rules') |-> RuleOf(st[Len(rules') + 1 - x])]
      <4>1. rules' = [x \in 1 .. n + 1 |-> RuleOf(st[n + 2 - x])]
        BY <2>5, <2>6
      <4> QED
        BY <2>5, <3>1, <4>1
    <3>3. conf.torn => Len(rules') < N
      <4>1. ~(conf.torn /\ k = N)
        <5>1. ~(Len(a) < Len(Tokens(s)))
          <6>1. IsStatement(s)
            BY <1>5 DEF ReadsRule
          <6>2. Len(Tokens(s)) = EndAt(s) /\ EndAt(s) \in Nat
            BY <6>1, TokensAre, Zenon
          <6> QED
            BY <2>2, <6>2
        <5> QED
          BY <1>0, <1>5, <2>3, <5>1 DEF FileFacts
      <4> QED
        BY <1>0, <1>4, <2>3, <2>5, <4>1
    <3> QED
      BY <2>1, <2>3, <3>1, <3>2, <3>3 DEF RulesRead
  <2>8. PICK q : q = a[Len(a)] /\ pos' = q
    BY <2>2
  <2>9. /\ KeywordAt(k) <= q /\ q \in 1 .. Len(text)
        /\ \A m \in 1 .. N : KeywordAt(m) \in 1 .. Len(text)
    BY <1>0, <1>5, <2>3, <2>8, StartsAscend DEF FileFacts
  <2>10. KeywordAt(k) < q
    <3>1. PICK T : T = Tokens(s)
      OBVIOUS
    <3>2. IsStatement(s) /\ Stands(text, T, a)
      BY <1>5, <3>1 DEF ReadsRule
    <3>3. Len(T) = EndAt(s) /\ TargetAt(s) \in Nat /\ ColonAt(s) \in Nat /\ PermsAt(s) \in Nat /\ EndAt(s) \in Nat
          /\ 2 < TargetAt(s) /\ TargetAt(s) < ColonAt(s) /\ ColonAt(s) + 1 < PermsAt(s) /\ PermsAt(s) < EndAt(s)
      BY <3>1, <3>2, TokensAre, Zenon
    <3>4. Len(T) \in Nat /\ EndAt(s) >= 2
      BY <3>3
    <3>5. \A j \in 2 .. Len(a) : a[1] < a[j]
      BY <1>0, <3>2, <3>4, Ascends
    <3>6. Len(a) \in 2 .. Len(a)
      BY <2>2, <3>3
    <3> QED
      BY <1>5, <2>8, <3>5, <3>6 DEF KeywordAt
  <2>11. ScansTo(q, n + 1)
    <3>1. ASSUME NEW m \in 1 .. N PROVE m <= n + 1 <=> KeywordAt(m) < q
      <4>1. CASE m = k
        BY <1>4, <2>10, <4>1
      <4>2. CASE m < k
        <5>1. KeywordAt(m) < KeywordAt(k)
          <6>1. k \in m + 1 .. N
            BY <1>0, <2>3, <4>2
          <6> QED
            BY <1>0, <2>3, <6>1, StartsAscend
        <5>2. KeywordAt(m) < q
          <6>1. KeywordAt(m) \in Nat /\ KeywordAt(k) \in Nat /\ q \in Nat
            BY <2>3, <2>9
          <6> QED
            BY <2>10, <5>1, <6>1
        <5>3. m <= n + 1
          BY <1>3, <1>4, <4>2
        <5> QED
          BY <5>2, <5>3
      <4>3. CASE m > k
        <5>1. q < KeywordAt(m)
          <6>1. m \in k + 1 .. N
            BY <1>0, <2>3, <4>3
          <6> QED
            BY <1>0, <1>5, <2>3, <2>8, <6>1 DEF FileFacts
        <5>2. ~(KeywordAt(m) < q)
          BY <2>9, <5>1
        <5> QED
          BY <1>4, <4>3, <5>2
      <4> QED
        BY <1>0, <4>1, <4>2, <4>3
    <3> QED
      BY <2>3, <3>1 DEF ScansTo
  <2>12. Scans'
    <3>1. ScansTo(pos, Len(rules))'
      BY <2>1, <2>5, <2>8, <2>11 DEF ScansTo, KeywordAt
    <3>2. pos' \in 1 .. End'
      BY <1>0, <2>1, <2>8, <2>9
    <3>3. NoSet'
      BY <2>2 DEF NoSet
    <3>4. WordBegins(pos)'
      <4>1. IsStatement(s) /\ Stands(text, Tokens(s), a)
        BY <1>5 DEF ReadsRule
      <4>2. Tokens(s)[EndAt(s)] = ";"
        BY <4>1, TokensAre, Zenon
      <4>3. text[a[EndAt(s)]] = ";"
        BY <2>2, <4>1, <4>2, Zenon DEF Stands
      <4> QED
        BY <2>1, <2>2, <4>3 DEF WordBegins
    <3> QED
      BY <2>2, <3>1, <3>2, <3>3, <3>4 DEF Scans
  <2>13. text' = Uncommented(conf.lines)' /\ results' = <<>>
    BY <2>1 DEF InWhole
  <2> QED
    BY <2>2, <2>7, <2>12, <2>13 DEF InWhole
<1> QED
  BY <1>2, <1>5, <1>6, <1>7, RestLater

\* What has been read is what the file means.
LEMMA ReadMeans ==
  ASSUME FileFacts, RulesRead, Len(rules) = Len(conf.statements)
  PROVE  Contents(rules) = Reverse([k \in DOMAIN conf.statements |-> Meaning(conf.statements[k])])
<1> DEFINE n == Len(conf.statements)
           means == [k \in 1 .. n |-> Meaning(conf.statements[k])]
<1>1. n \in Nat /\ DOMAIN conf.statements = 1 .. n
  BY DEF FileFacts
<1>2. DOMAIN rules = 1 .. n /\ \A x \in 1 .. n : rules[x] = RuleOf(conf.statements[n + 1 - x])
  BY RulesAre
<1>3. means \in Seq(Range(means)) /\ Len(means) = n /\ [k \in DOMAIN conf.statements |-> Meaning(conf.statements[k])] = means
  <2>1. means \in [1 .. n -> Range(means)]
    BY DEF Range
  <2> HIDE DEF n
  <2>2. means \in Seq(Range(means))
    BY <1>1, <2>1
  <2> QED
    BY <1>1, <2>2 DEF n
<1>4. ASSUME NEW s
      PROVE  <<RuleOf(s).stypes, RuleOf(s).ttypes, RuleOf(s).self, RuleOf(s).perms>> = Meaning(s)
  BY DEF RuleOf, RuleWith, OfSelf, Meaning
<1>5. \A x \in 1 .. n : Contents(rules)[x] = Meaning(conf.statements[n + 1 - x])
  BY <1>2, <1>4 DEF Contents
<1>6. Contents(rules) = [x \in 1 .. n |-> Meaning(conf.statements[n + 1 - x])]
  <2>1. Contents(rules) = [x \in 1 .. n |-> Contents(rules)[x]]
    BY <1>2 DEF Contents
  <2> QED
    BY <1>5, <2>1
<1>7. Reverse(means) = [x \in 1 .. n |-> Meaning(conf.statements[n + 1 - x])]
  <2>1. Reverse(means) = [x \in 1 .. n |-> means[(n - x) + 1]]
    BY <1>3 DEF Reverse
  <2>2. ASSUME NEW x \in 1 .. n PROVE means[(n - x) + 1] = Meaning(conf.statements[n + 1 - x])
    <3> HIDE DEF n
    <3>1. (n - x) + 1 \in 1 .. n /\ (n - x) + 1 = n + 1 - x
      BY <1>1
    <3> QED
      BY <3>1
  <2> HIDE DEF means
  <2> QED
    BY <2>1, <2>2
<1> QED
  BY <1>3, <1>6, <1>7

LEMMA FinishStep ==
  ASSUME ReadInv, Finish
  PROVE  ReadInv'
<1>1. conf' = conf /\ results' = Append(results, <<ok, rules>>) /\ loop = "end"
  BY DEF Finish
<1>2. PICK r : r = <<ok, rules>>
  OBVIOUS
<1>3. CASE stage = "whole"
  <2>1. InWhole /\ conf \in Files /\ stage' = "filtered"
    BY <1>3 DEF ReadInv, Finish
  <2>2. FileFacts /\ RulesRead /\ results = <<>>
    BY <2>1, WholeFacts DEF InWhole
  <2>3. /\ ok <=> (conf.statements # <<>> /\ ~conf.torn)
        /\ ok => Len(rules) = Len(conf.statements)
    BY <1>1, <2>1, WholeLoop
  <2>4. IsRight(r)
    <3>1. r[1] = ok /\ r[2] = rules
      BY <1>2
    <3>2. ok => Contents(rules) = Reverse([k \in DOMAIN conf.statements |-> Meaning(conf.statements[k])])
      BY <2>2, <2>3, ReadMeans
    <3> QED
      BY <2>3, <3>1, <3>2 DEF IsRight
  <2>5. results' = <<r>> /\ results'[1] = r
    BY <1>1, <1>2, <2>2
  <2>6. IsRight(results[1])'
    BY <1>1, <2>4, <2>5 DEF IsRight
  <2> QED
    BY <1>1, <2>1, <2>5, <2>6 DEF ReadInv
<1>4. CASE stage = "filtered"
  <2>1. results = <<results[1]>> /\ IsRight(results[1]) /\ conf \in Files /\ stage' = "done" /\ loop' = "done"
    BY <1>4 DEF ReadInv, Finish
  <2>2. PICK x : x = results[1] /\ results = <<x>>
    BY <2>1
  <2>3. results'[1] = x /\ results' # <<>>
    <3>1. PICK y : y = results' /\ y = Append(<<x>>, r)
      BY <1>1, <1>2, <2>2
    <3>2. PICK X : X = {x, r}
      OBVIOUS
    <3>3. <<x>> \in Seq(X) /\ Len(<<x>>) = 1 /\ <<x>>[1] = x /\ r \in X
      BY <3>2
    <3>4. \A u \in Seq(X) : Len(u) = 1 => Append(u, r)[1] = u[1] /\ Len(Append(u, r)) = 2
      BY <3>3
    <3>5. y[1] = x /\ Len(y) = 2
      BY <3>1, <3>3, <3>4, Zenon
    <3>6. y # <<>>
      BY <3>5
    <3> QED
      BY <3>1, <3>5, <3>6
  <2>4. IsRight(results[1])'
    <3>1. IsRight(x)
      BY <2>1, <2>2
    <3> QED
      BY <1>1, <2>3, <3>1 DEF IsRight
  <2> QED
    BY <1>1, <2>1, <2>3, <2>4 DEF ReadInv
<1>5. CASE stage = "done"
  BY <1>1, <1>5 DEF ReadInv
<1> QED
  BY <1>3, <1>4, <1>5 DEF ReadInv

\* The invariant holds at first, and each step keeps it.
LEMMA ReadInitially == ReadInit => ReadInv
<1> SUFFICES ASSUME ReadInit PROVE ReadInv
  OBVIOUS
<1>1. conf \in Files /\ stage = "whole" /\ results = <<>> /\ text = Uncommented(conf.lines) /\ pos = 1 /\ loop = "scan"
      /\ set = EmptySet /\ openparens = 0 /\ ~negate /\ ~complement /\ rules = <<>> /\ ok
  BY DEF ReadInit
<1>2. FileFacts
  BY <1>1, FileIs
<1>3. RulesRead
  <2>1. Len(rules) = 0 /\ Len(conf.statements) \in Nat /\ (conf.torn => Len(conf.statements) # 0)
    BY <1>1, <1>2 DEF FileFacts
  <2>2. rules = [x \in 1 .. 0 |-> RuleOf(conf.statements[0 + 1 - x])]
    BY <1>1
  <2> QED
    BY <2>1, <2>2 DEF RulesRead
<1>4. Scans
  <2>1. Len(text) \in Nat /\ End = Len(text) + 1 /\ \A k \in 1 .. Len(conf.statements) : KeywordAt(k) \in 1 .. Len(text)
    BY <1>2 DEF FileFacts
  <2>2. pos \in 1 .. End /\ Len(rules) = 0
    BY <1>1, <2>1
  <2>3. ScansTo(1, 0)
    BY <2>1 DEF ScansTo
  <2> QED
    BY <1>1, <2>2, <2>3 DEF Scans, NoSet, WordBegins
<1> QED
  BY <1>1, <1>3, <1>4 DEF ReadInv, InWhole

LEMMA ReadSteps == ReadInv /\ [ReadNext]_readVars => ReadInv'
<1> SUFFICES ASSUME ReadInv, [ReadNext]_readVars PROVE ReadInv'
  OBVIOUS
<1>0. conf \in Files
  BY DEF ReadInv
<1>1. CASE UNCHANGED readVars
  <2>1. conf' = conf /\ stage' = stage /\ results' = results /\ loop' = loop
    BY <1>1 DEF readVars
  <2>2. InWhole => InWhole'
    <3> SUFFICES ASSUME InWhole PROVE InWhole'
      OBVIOUS
    <3>1. PICK z : z = readVars
      OBVIOUS
    <3>2. UNCHANGED <<conf, stage, text, pos, loop, rule, set, openparens, negate, complement, rules, ok, results>>
      BY <1>1 DEF readVars
    <3>3. RulesRead' /\ text' = Uncommented(conf.lines)' /\ results' = <<>>
      BY <3>2 DEF InWhole, RulesRead
    <3>4. Scans => Scans'
      BY <3>2 DEF Scans, ScansTo, KeywordAt, NoSet, End, WordBegins
    <3>5. InStatement => InStatement'
      <4> SUFFICES ASSUME InStatement PROVE InStatement'
        OBVIOUS
      <4>1. PICK s, a : s = conf.statements[Len(rules) + 1] /\ a = conf.at[Len(rules) + 1] /\ Reads(s, a)
        BY DEF InStatement
      <4>2. Reads(s, a)'
        <5>1. \A j : ListRead(s, a, j) => ListRead(s, a, j)'
          BY <3>2 DEF ListRead, Clear, Place, End
        <5>2. \A b, c, ids, i : InList(a, pos, openparens, b, c, ids, i) => InList(a, pos, openparens, b, c, ids, i)'
          BY <3>2, ListLater
        <5>3. NoSet' <=> NoSet
          BY <3>2 DEF NoSet
        <5>4. \A e, b, r : InTypes(a, e, b, r) => InTypes(a, e, b, r)'
          BY <3>2, <5>2, <5>3 DEF InTypes
        <5>5. InClasses(s, a) => InClasses(s, a)'
          BY <3>2, <5>2 DEF InClasses
        <5>6. InPerms(s, a) => InPerms(s, a)'
          BY <3>2, <5>2 DEF InPerms
        <5>7. \A j : Clear(a, pos, j) => Clear(a, pos, j)'
          BY <3>2 DEF Clear, Place, End
        <5>8. \A e, r : TypesAre(e, r) => TypesAre(e, r)'
          BY <3>2 DEF TypesAre, End
        <5>9. End' = End
          BY <3>2 DEF End
        <5>10. CASE loop \in {"stypes", "ttypes"}
          BY <3>2, <4>1, <5>4, <5>10, ReadsIs DEF Reads
        <5>11. CASE loop \in {"send", "tend"}
          BY <3>2, <4>1, <5>1, <5>8, <5>11, ReadsIs DEF Reads
        <5>12. CASE loop \in {"colon", "rest"}
          BY <3>2, <4>1, <5>3, <5>7, <5>12, ReadsIs DEF Reads
        <5>13. CASE loop \in {"classes", "perms"}
          BY <3>2, <4>1, <5>3, <5>5, <5>6, <5>13, ReadsIs DEF Reads
        <5>14. CASE loop \in {"cend", "pend"}
          BY <3>2, <4>1, <5>1, <5>3, <5>9, <5>14, ReadsIs DEF Reads
        <5> QED
          BY <4>1, <5>10, <5>11, <5>12, <5>13, <5>14, ReadsIs
      <4> QED
        BY <3>2, <4>1, <4>2 DEF InStatement
    <3> QED
      BY <3>2, <3>3, <3>4, <3>5 DEF InWhole
  <2>3. \A r : IsRight(r) => IsRight(r)'
    BY <2>1 DEF IsRight
  <2> QED
    BY <2>1, <2>2, <2>3 DEF ReadInv
<1>2. CASE Finish
  BY <1>2, FinishStep
<1>3. CASE ReadNext /\ ~Finish
  <2>1. Unread /\ loop # "done"
    BY <1>3 DEF ReadNext, Scan, Checked, ReadTypeset, TypesetRead, Colon, ReadClass, ClassesRead, ReadPerm, PermsRead, Rest
  <2>2. conf' = conf /\ stage' = stage /\ results' = results /\ stage # "done"
    BY <2>1 DEF Unread, ReadInv
  <2>3. CASE stage = "whole"
    <3>1. InWhole
      BY <2>3 DEF ReadInv
    <3>2. ASSUME Scan PROVE InWhole'
      BY <1>0, <3>1, <3>2, ScanStep
    <3>3. ASSUME Checked PROVE InWhole'
      BY <1>0, <3>1, <3>3, CheckedStep
    <3>4. ASSUME Rest PROVE InWhole'
      BY <1>0, <3>1, <3>4, RestStep
    <3>5. ASSUME ReadTypeset \/ TypesetRead \/ Colon \/ ReadClass \/ ClassesRead \/ ReadPerm \/ PermsRead
         PROVE  InWhole'
      <4>1. loop \notin {"scan", "end"}
        BY <3>5 DEF ReadTypeset, TypesetRead, Colon, ReadClass, ClassesRead, ReadPerm, PermsRead
      <4>2. InStatement
        BY <3>1, <4>1, WholeLoop
      <4>3. PICK s, a : s = conf.statements[Len(rules) + 1] /\ a = conf.at[Len(rules) + 1] /\ Reads(s, a)
        BY <4>2 DEF InStatement
      <4>4. ReadsRule(s, a)
        <5>1. FileFacts /\ Len(rules) \in 0 .. Len(conf.statements) /\ Len(conf.statements) \in Nat
          BY <1>0, <3>1, WholeFacts
        <5>2. PICK k \in 1 .. Len(conf.statements) : k = Len(rules) + 1
          BY <4>2, <5>1 DEF InStatement
        <5> QED
          BY <4>3, <5>1, <5>2 DEF FileFacts
      <4>5. Later(s, a)
        BY <3>5, <4>3, <4>4, TypesetLater, SetLater, ColonLater, ClassLater, ClassesReadLater, PermLater, PermsReadLater
      <4> QED
        BY <1>0, <2>1, <3>1, <4>2, <4>3, <4>5, LaterStep
    <3>6. InWhole'
      BY <1>3, <3>2, <3>3, <3>4, <3>5 DEF ReadNext
    <3> QED
      BY <1>0, <2>2, <2>3, <3>6 DEF ReadInv
  <2>4. CASE stage = "filtered"
    <3>1. results = <<results[1]>> /\ IsRight(results[1])
      BY <2>4 DEF ReadInv
    <3>2. IsRight(results[1])'
      BY <2>2, <3>1 DEF IsRight
    <3>3. (results = <<results[1]>>)'
      BY <2>2, <3>1
    <3> QED
      BY <1>0, <2>2, <2>4, <3>2, <3>3 DEF ReadInv
  <2> QED
    BY <2>2, <2>3, <2>4 DEF ReadInv
<1> QED
  BY <1>1, <1>2, <1>3

\* Of the rules that are written in a policy.conf with blanks around their keywords,
\* the program reads all, and what they mean: lists with any braces in them, and any
\* layout.  Others it does not read, and a file that is torn is an error (read_typeset,
\* read_classperms, check_neverallows).
THEOREM ReadRightHolds == ReadSpec => []ReadRight
<1>1. ReadInv => ReadRight
  BY DEF ReadInv, ReadRight, InWhole, IsRight
<1> QED
  BY ReadInitially, ReadSteps, <1>1, PTL DEF ReadSpec


=============================================================================
