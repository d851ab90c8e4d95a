------------------------ MODULE SepolicyAnalyzeProofs -----------------------
(***************************************************************************)
(* Theorems about SepolicyAnalyze for every policy: the reports of dups,   *)
(* the lists of attribute, permissive and booleans; that the lists of      *)
(* typecmp are canonical, in whatever order the tables are visited; and    *)
(* that its verdicts are right, and none is missing, although lists are    *)
(* freed while others are still compared with them.                        *)
(***************************************************************************)
EXTENDS SepolicyAnalyze, FiniteSetTheorems, SequenceTheorems, TLAPS

-----------------------------------------------------------------------------
(***************************************************************************)
(* The least of a set of numbers: the loops of typecmp.c stop at the first *)
(* node for which their condition holds.  An inclusion of finite sets has  *)
(* no infinite descent, so there is a shortest interval 1 .. x.            *)
(***************************************************************************)
LEMMA LeastNat ==
  ASSUME NEW T, T \in SUBSET Nat, T # {}
  PROVE  \E x \in T : \A y \in T : x <= y
<1> DEFINE F == {1 .. x : x \in T}
<1>1. \A x \in T : 1 .. x \in FiniteSubsetsOf(Nat)
  BY FS_Interval DEF FiniteSubsetsOf
<1>2. F \subseteq FiniteSubsetsOf(Nat) /\ F # {}
  BY <1>1
<1>3. PICK f \in F : \A g \in F : ~(<<g, f>> \in StrictSubsetOrdering(Nat))
  BY <1>2, FS_StrictSubsetOrderingWellFounded, WFMin
<1>4. PICK x \in T : f = 1 .. x
  BY <1>3
<1>5. ASSUME NEW y \in T, ~(x <= y) PROVE FALSE
  <2>1. 1 .. y \in F /\ 1 .. y \in SUBSET Nat /\ 1 .. x \in SUBSET Nat
    OBVIOUS
  <2>2. x \in 1 .. x /\ x \notin 1 .. y /\ 1 .. y \subseteq 1 .. x
    BY <1>5
  <2> QED
    BY <1>3, <1>4, <2>1, <2>2 DEF StrictSubsetOrdering
<1> QED
  BY <1>5

-----------------------------------------------------------------------------
(***************************************************************************)
(* A list, and where a node is inserted in it.                             *)
(***************************************************************************)
NodeSet(P) ==
  [source : 0 .. NPrim, target : 0 .. NPrim, class : Nat, perms : SUBSET P]

KeyOf(n) == <<n.source, n.target, n.class>>

\* each node before the next, so that no key is there twice, and none is empty
Ascending(list) ==
  \A a, b \in 1 .. Len(list) : a < b => ~NotAfter(list[b], list[a])
NoneEmpty(list) == \A a \in 1 .. Len(list) : list[a].perms # {}

\* a permission is in the node with a key
InList(list, key, x) ==
  \E a \in 1 .. Len(list) : KeyOf(list[a]) = key /\ x \in list[a].perms

LEMMA PlaceIsFirst ==
  ASSUME NEW S, NEW list \in Seq(S), NEW n, NEW k \in 1 .. Len(list) + 1
  PROVE  /\ Place(n, list, k) \in k .. Len(list) + 1
         /\ Place(n, list, k) > Len(list) \/ NotAfter(n, list[Place(n, list, k)])
         /\ \A q \in k .. Place(n, list, k) - 1 : ~NotAfter(n, list[q])
<1> DEFINE T == {p \in k .. Len(list) + 1 : p > Len(list) \/ NotAfter(n, list[p])}
<1>1. Len(list) + 1 \in T /\ T \in SUBSET Nat
  OBVIOUS
<1>2. PICK p \in T : \A q \in T : p <= q
  BY <1>1, LeastNat
<1>3. \A q \in k .. p - 1 : ~NotAfter(n, list[q])
  <2> TAKE q \in k .. p - 1
  <2>1. q \notin T /\ q \in k .. Len(list) + 1
    BY <1>1, <1>2
  <2> QED
    BY <2>1
<1>4. \E v \in k .. Len(list) + 1 :
        /\ v > Len(list) \/ NotAfter(n, list[v])
        /\ \A q \in k .. v - 1 : ~NotAfter(n, list[q])
  BY <1>2, <1>3
<1> QED
  BY <1>4 DEF Place

LEMMA OrderOfKeys ==
  ASSUME NEW P, NEW l \in NodeSet(P), NEW m \in NodeSet(P), NEW n \in NodeSet(P)
  PROVE  /\ ~NotAfter(l, m) => NotAfter(m, l) /\ ~SameKey(l, m) /\ KeyOf(l) # KeyOf(m)
         /\ NotAfter(l, m) /\ ~SameKey(l, m) => ~NotAfter(m, l)
         /\ ~NotAfter(m, l) /\ ~NotAfter(n, m) => ~NotAfter(n, l)
         /\ SameKey(l, m) <=> KeyOf(l) = KeyOf(m)
         /\ SameKey(l, m) => ((NotAfter(l, n) <=> NotAfter(m, n)) /\ (NotAfter(n, l) <=> NotAfter(n, m)))
<1>1. /\ l.source \in Int /\ l.target \in Int /\ l.class \in Int
      /\ m.source \in Int /\ m.target \in Int /\ m.class \in Int
      /\ n.source \in Int /\ n.target \in Int /\ n.class \in Int
  BY PrimAssumption DEF NodeSet
<1>2. SameKey(l, m) <=> KeyOf(l) = KeyOf(m)
  BY DEF SameKey, KeyOf
<1>3. ~NotAfter(l, m) => NotAfter(m, l) /\ ~SameKey(l, m)
  BY <1>1 DEF NotAfter, SameKey
<1>4. NotAfter(l, m) /\ ~SameKey(l, m) => ~NotAfter(m, l)
  BY <1>1 DEF NotAfter, SameKey
<1>5. ~NotAfter(m, l) /\ ~NotAfter(n, m) => ~NotAfter(n, l)
  BY <1>1 DEF NotAfter
<1>6. SameKey(l, m) => ((NotAfter(l, n) <=> NotAfter(m, n)) /\ (NotAfter(n, l) <=> NotAfter(n, m)))
  BY <1>1 DEF NotAfter, SameKey
<1> QED
  BY <1>2, <1>3, <1>4, <1>5, <1>6

LEMMA InsertAtIs ==
  ASSUME NEW S, NEW list \in Seq(S), NEW n \in S, NEW p \in 1 .. Len(list) + 1
  PROVE  /\ InsertAt(list, p, n) \in Seq(S)
         /\ Len(InsertAt(list, p, n)) = Len(list) + 1
         /\ \A a \in 1 .. Len(list) + 1 :
              InsertAt(list, p, n)[a] = IF a < p THEN list[a] ELSE IF a = p THEN n ELSE list[a - 1]
<1> DEFINE L == SubSeq(list, 1, p - 1)
           R == SubSeq(list, p, Len(list))
<1>1. /\ L \in Seq(S) /\ Len(L) = p - 1
      /\ \A a \in 1 .. p - 1 : L[a] = list[a]
  OBVIOUS
<1>2. /\ R \in Seq(S) /\ Len(R) = Len(list) - p + 1
      /\ \A a \in 1 .. Len(list) - p + 1 : R[a] = list[p + a - 1]
  OBVIOUS
<1>3. InsertAt(list, p, n) = (L \o <<n>>) \o R
  BY DEF InsertAt
<1> HIDE DEF L, R
<1>4. /\ L \o <<n>> \in Seq(S) /\ Len(L \o <<n>>) = p
      /\ \A a \in 1 .. p : (L \o <<n>>)[a] = IF a < p THEN list[a] ELSE n
  BY <1>1
<1> DEFINE M == L \o <<n>>
<1> HIDE DEF M
<1>5. /\ M \o R \in Seq(S) /\ Len(M \o R) = Len(list) + 1
      /\ \A a \in 1 .. p : (M \o R)[a] = M[a]
      /\ \A a \in p + 1 .. Len(list) + 1 : (M \o R)[a] = R[a - p]
  <2>1. M \in Seq(S) /\ Len(M) = p
    BY <1>4 DEF M
  <2>2. M \o R \in Seq(S) /\ Len(M \o R) = Len(list) + 1
    <3>1. R \in Seq(S)
      BY <1>2
    <3>2. M \o R \in Seq(S) /\ Len(M \o R) = Len(M) + Len(R)
      BY <2>1, <3>1
    <3>3. p + (Len(list) - p + 1) = Len(list) + 1
      OBVIOUS
    <3> QED
      BY <3>2, <3>3, <2>1, <1>2
  <2>3. \A a \in 1 .. p : (M \o R)[a] = M[a]
    BY <2>1, <1>2
  <2>4. \A a \in p + 1 .. Len(list) + 1 : (M \o R)[a] = R[a - p]
    BY <2>1, <1>2
  <2> QED
    BY <2>2, <2>3, <2>4
<1>6. \A a \in p + 1 .. Len(list) + 1 : R[a - p] = list[a - 1]
  <2> TAKE a \in p + 1 .. Len(list) + 1
  <2>1. a - p \in 1 .. Len(list) - p + 1 /\ p + (a - p) - 1 = a - 1
    OBVIOUS
  <2> QED
    BY <1>2, <2>1
<1> QED
  BY <1>3, <1>4, <1>5, <1>6 DEF M

-----------------------------------------------------------------------------
LEMMA PermsReplaced ==
  ASSUME NEW P, NEW m \in NodeSet(P), NEW e
  PROVE  [m EXCEPT !.perms = e] =
           [source |-> m.source, target |-> m.target, class |-> m.class, perms |-> e]
BY DEF NodeSet

LEMMA InsertedIs ==
  ASSUME NEW P, NEW list \in Seq(NodeSet(P)), NEW n \in NodeSet(P),
         n.perms # {}, Ascending(list), NoneEmpty(list)
  PROVE  /\ Inserted(n, list) \in Seq(NodeSet(P))
         /\ Ascending(Inserted(n, list)) /\ NoneEmpty(Inserted(n, list))
         /\ \A key, x : InList(Inserted(n, list), key, x) <=>
              InList(list, key, x) \/ (key = KeyOf(n) /\ x \in n.perms)
<1> DEFINE p == Place(n, list, 1)
           new == Inserted(n, list)
<1>1. /\ Len(list) \in Nat /\ 1 \in 1 .. Len(list) + 1
      /\ \A a \in 1 .. Len(list) : list[a] \in NodeSet(P)
  OBVIOUS
<1>2. /\ p \in 1 .. Len(list) + 1
      /\ p > Len(list) \/ NotAfter(n, list[p])
      /\ \A a \in 1 .. p - 1 : ~NotAfter(n, list[a])
  BY <1>1, PlaceIsFirst
<1>3. CASE p <= Len(list) /\ SameKey(n, list[p])
  <2> DEFINE m == [source |-> list[p].source, target |-> list[p].target,
                   class |-> list[p].class, perms |-> list[p].perms \cup n.perms]
  <2>1. new = [list EXCEPT ![p].perms = @ \cup n.perms]
    BY <1>3 DEF Inserted
  <2>2. list[p] \in NodeSet(P) /\ p \in 1 .. Len(list)
    BY <1>1, <1>2, <1>3
  <2>3. [list[p] EXCEPT !.perms = list[p].perms \cup n.perms] = m
    BY <2>2, PermsReplaced
  <2>4. new = [list EXCEPT ![p] = m]
    BY <2>1, <2>2, <2>3
  <2>5. m \in NodeSet(P) /\ KeyOf(m) = KeyOf(list[p]) /\ m.perms = list[p].perms \cup n.perms
    BY <2>2 DEF NodeSet, KeyOf
  <2>6. KeyOf(list[p]) = KeyOf(n)
    BY <2>2, <1>3 DEF SameKey, KeyOf
  <2>7. SameKey(m, list[p])
    BY <2>2, <2>5, OrderOfKeys
  <2> HIDE DEF m, new, p
  <2>8. /\ new \in Seq(NodeSet(P)) /\ Len(new) = Len(list)
        /\ new[p] = m
        /\ \A a \in 1 .. Len(list) : a # p => new[a] = list[a]
    BY <2>2, <2>4, <2>5
  <2>9. Ascending(new)
    <3> SUFFICES ASSUME NEW a \in 1 .. Len(list), NEW b \in 1 .. Len(list), a < b
                 PROVE  ~NotAfter(new[b], new[a])
      BY <2>8 DEF Ascending
    <3>1. ~NotAfter(list[b], list[a]) /\ list[a] \in NodeSet(P) /\ list[b] \in NodeSet(P)
      BY <1>1 DEF Ascending
    <3>2. CASE a = p
      BY <3>1, <3>2, <2>2, <2>5, <2>7, <2>8, OrderOfKeys
    <3>3. CASE b = p
      BY <3>1, <3>3, <2>2, <2>5, <2>7, <2>8, OrderOfKeys
    <3>4. CASE a # p /\ b # p
      BY <3>1, <3>4, <2>8
    <3> QED
      BY <3>2, <3>3, <3>4
  <2>10. NoneEmpty(new)
    <3> SUFFICES ASSUME NEW a \in 1 .. Len(list) PROVE new[a].perms # {}
      BY <2>8 DEF NoneEmpty
    <3>1. list[a].perms # {}
      BY DEF NoneEmpty
    <3> QED
      BY <3>1, <2>5, <2>8
  <2>11. ASSUME NEW key, NEW x
         PROVE  InList(new, key, x) <=> InList(list, key, x) \/ (key = KeyOf(n) /\ x \in n.perms)
    <3>1. ASSUME NEW a \in 1 .. Len(list), a # p
          PROVE  KeyOf(new[a]) = KeyOf(list[a]) /\ new[a].perms = list[a].perms
      BY <3>1, <2>8
    <3>2. KeyOf(new[p]) = KeyOf(n) /\ KeyOf(list[p]) = KeyOf(n) /\ new[p].perms = list[p].perms \cup n.perms
      BY <2>5, <2>6, <2>8
    <3>3. ASSUME InList(new, key, x)
          PROVE  InList(list, key, x) \/ (key = KeyOf(n) /\ x \in n.perms)
      <4>1. PICK a \in 1 .. Len(list) : KeyOf(new[a]) = key /\ x \in new[a].perms
        BY <3>3, <2>8 DEF InList
      <4>2. CASE a = p
        BY <4>1, <4>2, <3>2, <2>2 DEF InList
      <4>3. CASE a # p
        BY <4>1, <4>3, <3>1 DEF InList
      <4> QED
        BY <4>2, <4>3
    <3>4. ASSUME InList(list, key, x) PROVE InList(new, key, x)
      <4>1. PICK a \in 1 .. Len(list) : KeyOf(list[a]) = key /\ x \in list[a].perms
        BY <3>4 DEF InList
      <4>2. KeyOf(new[a]) = key /\ x \in new[a].perms
        BY <4>1, <3>1, <3>2
      <4> QED
        BY <4>2, <2>8 DEF InList
    <3>5. ASSUME key = KeyOf(n), x \in n.perms PROVE InList(new, key, x)
      BY <3>5, <3>2, <2>2, <2>8 DEF InList
    <3> QED
      BY <3>3, <3>4, <3>5
  <2> QED
    BY <2>8, <2>9, <2>10, <2>11 DEF new
<1>4. CASE ~(p <= Len(list) /\ SameKey(n, list[p]))
  <2>1. new = InsertAt(list, p, n)
    BY <1>4 DEF Inserted
  <2> HIDE DEF new, p
  <2>2. /\ new \in Seq(NodeSet(P)) /\ Len(new) = Len(list) + 1
        /\ \A a \in 1 .. Len(list) + 1 :
             new[a] = IF a < p THEN list[a] ELSE IF a = p THEN n ELSE list[a - 1]
    <3>1. n \in NodeSet(P) /\ p \in 1 .. Len(list) + 1
      BY <1>2
    <3>2. InsertAt(list, p, n) \in Seq(NodeSet(P))
      BY <3>1, InsertAtIs
    <3>3. Len(InsertAt(list, p, n)) = Len(list) + 1
      BY <3>1, InsertAtIs
    <3>4. \A a \in 1 .. Len(list) + 1 :
            InsertAt(list, p, n)[a] = IF a < p THEN list[a] ELSE IF a = p THEN n ELSE list[a - 1]
      BY <3>1, InsertAtIs
    <3> QED
      BY <2>1, <3>2, <3>3, <3>4
  <2>3. ASSUME NEW a \in 1 .. p - 1 PROVE ~NotAfter(n, list[a]) /\ a \in 1 .. Len(list)
    BY <1>1, <1>2
  <2>4. ASSUME NEW a \in p .. Len(list) PROVE ~NotAfter(list[a], n) /\ a \in 1 .. Len(list)
    <3>1. p \in 1 .. Len(list) /\ a \in 1 .. Len(list) /\ NotAfter(n, list[p]) /\ ~SameKey(n, list[p])
      BY <1>1, <1>2, <1>4
    <3>2. ~NotAfter(list[p], n)
      BY <3>1, <1>1, OrderOfKeys
    <3>3. CASE a = p
      BY <3>1, <3>2, <3>3
    <3>4. CASE a # p
      <4>1. ~NotAfter(list[a], list[p])
        BY <3>1, <3>4 DEF Ascending
      <4>2. list[a] \in NodeSet(P) /\ list[p] \in NodeSet(P)
        BY <3>1, <1>1
      <4> QED
        BY <3>1, <3>2, <4>1, <4>2, OrderOfKeys
    <3> QED
      BY <3>3, <3>4
  <2>5. Ascending(new)
    <3> SUFFICES ASSUME NEW a \in 1 .. Len(list) + 1, NEW b \in 1 .. Len(list) + 1, a < b
                 PROVE  ~NotAfter(new[b], new[a])
      BY <2>2 DEF Ascending
    <3>1. CASE b < p
      <4>1. new[a] = list[a] /\ new[b] = list[b] /\ a \in 1 .. Len(list) /\ b \in 1 .. Len(list)
        BY <3>1, <2>2, <1>2
      <4> QED
        BY <4>1 DEF Ascending
    <3>2. CASE b = p
      <4>1. new[a] = list[a] /\ new[b] = n /\ a \in 1 .. p - 1
        BY <3>2, <2>2, <1>2
      <4> QED
        BY <4>1, <2>3
    <3>3. CASE b > p /\ a = p
      <4>1. new[a] = n /\ new[b] = list[b - 1] /\ b - 1 \in p .. Len(list)
        BY <3>3, <2>2, <1>2
      <4> QED
        BY <4>1, <2>4
    <3>4. CASE b > p /\ a < p
      <4>1. new[a] = list[a] /\ new[b] = list[b - 1] /\ a \in 1 .. Len(list) /\ b - 1 \in 1 .. Len(list) /\ a < b - 1
        BY <3>4, <2>2, <1>2
      <4> QED
        BY <4>1 DEF Ascending
    <3>5. CASE b > p /\ a > p
      <4>1. new[a] = list[a - 1] /\ new[b] = list[b - 1] /\ a - 1 \in 1 .. Len(list) /\ b - 1 \in 1 .. Len(list) /\ a - 1 < b - 1
        BY <3>5, <2>2, <1>2
      <4> QED
        BY <4>1 DEF Ascending
    <3> QED
      BY <3>1, <3>2, <3>3, <3>4, <3>5, <1>2
  <2>6. NoneEmpty(new)
    <3> SUFFICES ASSUME NEW a \in 1 .. Len(list) + 1 PROVE new[a].perms # {}
      BY <2>2 DEF NoneEmpty
    <3>1. CASE a < p
      <4>1. new[a] = list[a] /\ a \in 1 .. Len(list)
        BY <3>1, <2>2, <1>2
      <4> QED
        BY <4>1 DEF NoneEmpty
    <3>2. CASE a = p
      <4>1. new[a] = n
        BY <3>2, <2>2
      <4> QED
        BY <4>1
    <3>3. CASE a > p
      <4>1. new[a] = list[a - 1] /\ a - 1 \in 1 .. Len(list)
        BY <3>3, <2>2, <1>2
      <4> QED
        BY <4>1 DEF NoneEmpty
    <3> QED
      BY <3>1, <3>2, <3>3, <1>2
  <2>7. ASSUME NEW key, NEW x
        PROVE  InList(new, key, x) <=> InList(list, key, x) \/ (key = KeyOf(n) /\ x \in n.perms)
    <3>1. ASSUME InList(new, key, x)
          PROVE  InList(list, key, x) \/ (key = KeyOf(n) /\ x \in n.perms)
      <4>1. PICK a \in 1 .. Len(list) + 1 : KeyOf(new[a]) = key /\ x \in new[a].perms
        BY <3>1, <2>2 DEF InList
      <4>2. CASE a < p
        <5>1. new[a] = list[a] /\ a \in 1 .. Len(list)
          BY <4>2, <2>2, <1>2
        <5> QED
          BY <4>1, <5>1 DEF InList
      <4>3. CASE a = p
        BY <4>1, <4>3, <2>2
      <4>4. CASE a > p
        <5>1. new[a] = list[a - 1] /\ a - 1 \in 1 .. Len(list)
          BY <4>4, <2>2, <1>2
        <5> QED
          BY <4>1, <5>1 DEF InList
      <4> QED
        BY <4>2, <4>3, <4>4, <1>2
    <3>2. ASSUME InList(list, key, x) PROVE InList(new, key, x)
      <4>1. PICK a \in 1 .. Len(list) : KeyOf(list[a]) = key /\ x \in list[a].perms
        BY <3>2 DEF InList
      <4>2. CASE a < p
        <5>1. new[a] = list[a] /\ a \in 1 .. Len(list) + 1
          BY <4>2, <2>2, <1>1
        <5> QED
          BY <4>1, <5>1, <2>2 DEF InList
      <4>3. CASE a >= p
        <5>1. a + 1 \in 1 .. Len(list) + 1 /\ (a + 1) - 1 = a /\ ~(a + 1 < p) /\ a + 1 # p
          BY <4>3, <1>1, <1>2
        <5>2. new[a + 1] = list[a]
          BY <5>1, <2>2
        <5> QED
          BY <4>1, <5>1, <5>2, <2>2 DEF InList
      <4> QED
        BY <4>2, <4>3, <1>2
    <3>3. ASSUME key = KeyOf(n), x \in n.perms PROVE InList(new, key, x)
      <4>1. new[p] = n
        BY <2>2, <1>2
      <4> QED
        BY <3>3, <4>1, <2>2, <1>2 DEF InList
    <3> QED
      BY <3>1, <3>2, <3>3
  <2> QED
    BY <2>2, <2>5, <2>6, <2>7 DEF new
<1> QED
  BY <1>3, <1>4

-----------------------------------------------------------------------------
(***************************************************************************)
(* Two lists side by side.                                                 *)
(***************************************************************************)
LEMMA DifferIsFirst ==
  ASSUME NEW S, NEW l1 \in Seq(S), NEW l2 \in Seq(S)
  PROVE  /\ Differ(l1, l2) \in 1 .. Len(l1) + 1
         /\ \/ Differ(l1, l2) > Len(l1) \/ Differ(l1, l2) > Len(l2)
            \/ l1[Differ(l1, l2)] # l2[Differ(l1, l2)]
         /\ \A q \in 1 .. Differ(l1, l2) - 1 : q <= Len(l2) /\ l1[q] = l2[q]
<1> DEFINE T == {p \in 1 .. Len(l1) + 1 : p > Len(l1) \/ p > Len(l2) \/ l1[p] # l2[p]}
<1>1. Len(l1) + 1 \in T /\ T \in SUBSET Nat /\ Len(l1) \in Nat /\ Len(l2) \in Nat
  OBVIOUS
<1>2. PICK p \in T : \A q \in T : p <= q
  BY <1>1, LeastNat
<1>3. \A q \in 1 .. p - 1 : q <= Len(l2) /\ l1[q] = l2[q]
  <2> TAKE q \in 1 .. p - 1
  <2>1. q \notin T /\ q \in 1 .. Len(l1) + 1
    BY <1>1, <1>2
  <2> QED
    BY <2>1, <1>1
<1>4. \E v \in 1 .. Len(l1) + 1 :
        /\ v > Len(l1) \/ v > Len(l2) \/ l1[v] # l2[v]
        /\ \A q \in 1 .. v - 1 : q <= Len(l2) /\ l1[q] = l2[q]
  BY <1>2, <1>3
<1> QED
  BY <1>4 DEF Differ

LEMMA SameIsEqual ==
  ASSUME NEW S, NEW l1 \in Seq(S), NEW l2 \in Seq(S)
  PROVE  Same(l1, l2) <=> l1 = l2
<1> DEFINE p == Differ(l1, l2)
<1>1. /\ p \in 1 .. Len(l1) + 1
      /\ p > Len(l1) \/ p > Len(l2) \/ l1[p] # l2[p]
      /\ \A q \in 1 .. p - 1 : q <= Len(l2) /\ l1[q] = l2[q]
  BY DifferIsFirst
<1>2. Same(l1, l2) <=> (p > Len(l1) /\ p > Len(l2))
  BY DEF Same
<1>3. Len(l1) \in Nat /\ Len(l2) \in Nat
  OBVIOUS
<1> HIDE DEF p
<1>4. ASSUME l1 = l2 PROVE p > Len(l1) /\ p > Len(l2)
  BY <1>1, <1>3, <1>4
<1>5. ASSUME p > Len(l1), p > Len(l2) PROVE l1 = l2
  <2>1. p = Len(l1) + 1
    BY <1>1, <1>3, <1>5
  <2>2. \A q \in 1 .. Len(l1) : q <= Len(l2) /\ l1[q] = l2[q]
    BY <1>1, <1>3, <2>1
  <2>3. Len(l1) = Len(l2)
    <3>1. CASE Len(l1) = 0
      BY <3>1, <1>3, <1>5, <2>1
    <3>2. CASE Len(l1) # 0
      <4>1. Len(l1) \in 1 .. Len(l1)
        BY <3>2, <1>3
      <4>2. Len(l1) <= Len(l2)
        BY <4>1, <2>2
      <4> QED
        BY <4>2, <2>1, <1>3, <1>5
    <3> QED
      BY <3>1, <3>2
  <2> QED
    BY <2>2, <2>3
<1> QED
  BY <1>2, <1>4, <1>5

\* There is one way to put nodes in ascending order.
LEMMA AscendingIsUnique ==
  ASSUME NEW P, NEW l1 \in Seq(NodeSet(P)), NEW l2 \in Seq(NodeSet(P)),
         Ascending(l1), Ascending(l2), ToSet(l1) = ToSet(l2)
  PROVE  l1 = l2
<1> DEFINE p == Differ(l1, l2)
<1>1. /\ p \in 1 .. Len(l1) + 1
      /\ p > Len(l1) \/ p > Len(l2) \/ l1[p] # l2[p]
      /\ \A q \in 1 .. p - 1 : q <= Len(l2) /\ l1[q] = l2[q]
  BY DifferIsFirst
<1>2. /\ Len(l1) \in Nat /\ Len(l2) \in Nat
      /\ \A a \in 1 .. Len(l1) : l1[a] \in NodeSet(P)
      /\ \A a \in 1 .. Len(l2) : l2[a] \in NodeSet(P)
  OBVIOUS
<1>3. (\A a \in 1 .. Len(l1) : l1[a] \in ToSet(l2)) /\ (\A a \in 1 .. Len(l2) : l2[a] \in ToSet(l1))
  <2>1. (\A a \in 1 .. Len(l1) : l1[a] \in ToSet(l1)) /\ (\A a \in 1 .. Len(l2) : l2[a] \in ToSet(l2))
    BY DEF ToSet
  <2> QED
    BY <2>1
<1>4. /\ \A n \in ToSet(l2) : \E b \in 1 .. Len(l2) : l2[b] = n
      /\ \A n \in ToSet(l1) : \E b \in 1 .. Len(l1) : l1[b] = n
  BY DEF ToSet
<1>5. /\ \A a \in 1 .. Len(l1) : \E b \in 1 .. Len(l2) : l2[b] = l1[a]
      /\ \A a \in 1 .. Len(l2) : \E b \in 1 .. Len(l1) : l1[b] = l2[a]
  BY <1>3, <1>4
<1> HIDE DEF p
<1>6. ASSUME NEW a \in 1 .. Len(l1), NEW b \in 1 .. Len(l1), l1[a] = l1[b] PROVE a = b
  <2>1. ASSUME NEW c \in 1 .. Len(l1), NEW d \in 1 .. Len(l1), c < d PROVE l1[c] # l1[d]
    BY <2>1, <1>2, OrderOfKeys DEF Ascending
  <2> QED
    BY <1>6, <2>1
<1>7. ASSUME NEW a \in 1 .. Len(l2), NEW b \in 1 .. Len(l2), l2[a] = l2[b] PROVE a = b
  <2>1. ASSUME NEW c \in 1 .. Len(l2), NEW d \in 1 .. Len(l2), c < d PROVE l2[c] # l2[d]
    BY <2>1, <1>2, OrderOfKeys DEF Ascending
  <2> QED
    BY <1>7, <2>1
\* what is at p in a list comes later in the other
<1>8. ASSUME p <= Len(l1)
      PROVE  \E b \in 1 .. Len(l2) : b >= p /\ l2[b] = l1[p]
  <2>1. p \in 1 .. Len(l1)
    BY <1>1, <1>2, <1>8
  <2>2. PICK b \in 1 .. Len(l2) : l2[b] = l1[p]
    BY <1>5, <2>1
  <2>3. ASSUME b < p PROVE FALSE
    <3>1. b \in 1 .. p - 1 /\ b \in 1 .. Len(l1)
      BY <1>1, <1>2, <2>3
    <3>2. l1[b] = l1[p]
      BY <3>1, <1>1, <2>2
    <3> QED
      BY <3>1, <3>2, <2>1, <1>6, <2>3
  <2> QED
    BY <2>1, <2>2, <2>3
<1>9. ASSUME p <= Len(l2)
      PROVE  \E b \in 1 .. Len(l1) : b >= p /\ l1[b] = l2[p]
  <2>1. p \in 1 .. Len(l2)
    BY <1>1, <1>2, <1>9
  <2>2. PICK b \in 1 .. Len(l1) : l1[b] = l2[p]
    BY <1>5, <2>1
  <2>3. ASSUME b < p PROVE FALSE
    <3>1. b \in 1 .. p - 1 /\ b \in 1 .. Len(l2)
      BY <1>1, <1>2, <2>3
    <3>2. l2[b] = l2[p]
      BY <3>1, <1>1, <2>2
    <3> QED
      BY <3>1, <3>2, <2>1, <1>7, <2>3
  <2> QED
    BY <2>1, <2>2, <2>3
<1>10. ASSUME p <= Len(l1) PROVE FALSE
  <2>1. PICK b \in 1 .. Len(l2) : b >= p /\ l2[b] = l1[p]
    BY <1>8, <1>10
  <2>2. p \in 1 .. Len(l1) /\ p \in 1 .. Len(l2)
    BY <2>1, <1>1, <1>2, <1>10
  <2>3. PICK a \in 1 .. Len(l1) : a >= p /\ l1[a] = l2[p]
    BY <1>9, <2>2
  <2>4. l1[p] # l2[p]
    BY <1>1, <1>2, <2>2
  <2>5. p < a /\ p < b
    BY <2>1, <2>2, <2>3, <2>4
  <2>6. ~NotAfter(l1[a], l1[p]) /\ ~NotAfter(l2[b], l2[p])
    BY <2>2, <2>5 DEF Ascending
  <2>7. ~NotAfter(l2[p], l1[p]) /\ ~NotAfter(l1[p], l2[p])
    BY <2>1, <2>3, <2>6
  <2>8. l1[p] \in NodeSet(P) /\ l2[p] \in NodeSet(P)
    BY <1>2, <2>2
  <2> QED
    BY <2>7, <2>8, OrderOfKeys
<1>11. ASSUME p > Len(l1), p <= Len(l2) PROVE FALSE
  BY <1>9, <1>11, <1>1, <1>2
<1>12. Same(l1, l2)
  BY <1>10, <1>11, <1>1, <1>2 DEF Same, p
<1> QED
  BY <1>12, SameIsEqual

-----------------------------------------------------------------------------
(***************************************************************************)
(* The rules of a policy, expanded, and what they say of a type.           *)
(***************************************************************************)
Rules == policy.te \cup policy.cond
Perms == UNION {r.perms : r \in Rules}
All   == Expanded(policy.te) \cup Expanded(policy.cond)

\* the policy and the request are those of a call
OfCall == \E c \in Calls : policy = c.policy /\ request = c.request

\* a rule is the reason for a node of a type's list
Gives(t, e, key) ==
  \/ e.source = t /\ e.target = t /\ key = <<0, 0, e.class>>
  \/ e.source = t /\ e.target # t /\ key = <<0, e.target, e.class>>
  \/ e.source # t /\ e.target = t /\ key = <<e.source, 0, e.class>>

InRules(t, rules, key, x) ==
  \E e \in rules : Taken(e) /\ Gives(t, e, key) /\ x \in e.perms

LEMMA TypesArePositive ==
  \A t \in Types : t \in Values /\ t \in 1 .. NPrim /\ t \in Nat /\ t # 0 /\ 0 # t
BY PrimAssumption DEF Types, Values

LEMMA RulesAreRules == OfCall => \A r \in Rules : IsRule(r)
BY CallsAssumption DEF OfCall, Rules

LEMMA TypesOfAreTypes == \A v \in Values : TypesOf(v) \subseteq Types
BY PrimAssumption DEF TypesOf, Types, Values

\* an expanded rule is that of a type and a type
LEMMA ExpandedFrom ==
  ASSUME NEW rules, \A r \in rules : IsRule(r), NEW e \in Expanded(rules)
  PROVE  /\ e.source \in Types /\ e.target \in Types /\ e.class \in Nat /\ e.enabled \in BOOLEAN
         /\ \E r \in rules : e.class = r.class
         /\ \A x : x \in e.perms <=>
              \E r \in rules :
                 /\ e.source \in TypesOf(r.source) /\ e.target \in TypesOf(r.target)
                 /\ r.class = e.class /\ r.kind = e.kind /\ r.enabled = e.enabled /\ x \in r.perms
         /\ e.perms # {}
<1> DEFINE Key(s, t, r) == [source |-> s, target |-> t, class |-> r.class, kind |-> r.kind, enabled |-> r.enabled]
           keys == UNION {{Key(s, t, r) : s \in TypesOf(r.source), t \in TypesOf(r.target)} : r \in rules}
           perms(k) == UNION {r.perms : r \in {q \in rules :
                         /\ k.source \in TypesOf(q.source) /\ k.target \in TypesOf(q.target)
                         /\ q.class = k.class /\ q.kind = k.kind /\ q.enabled = k.enabled}}
<1>1. Expanded(rules) = {[source |-> k.source, target |-> k.target, class |-> k.class, kind |-> k.kind,
                          enabled |-> k.enabled, perms |-> perms(k)] : k \in keys}
  BY DEF Expanded
<1>2. PICK k \in keys : e = [source |-> k.source, target |-> k.target, class |-> k.class, kind |-> k.kind,
                             enabled |-> k.enabled, perms |-> perms(k)]
  BY <1>1
<1>3. PICK r \in rules : k \in {Key(s, t, r) : s \in TypesOf(r.source), t \in TypesOf(r.target)}
  BY <1>2
<1>4. PICK s \in TypesOf(r.source) : \E t \in TypesOf(r.target) : k = Key(s, t, r)
  BY <1>3
<1>5. PICK t \in TypesOf(r.target) : k = Key(s, t, r)
  BY <1>4
<1>6. IsRule(r)
  BY <1>3
<1>7. s \in Types /\ t \in Types
  BY <1>4, <1>5, <1>6, TypesOfAreTypes DEF IsRule
<1>8. k.source = s /\ k.target = t /\ k.class = r.class /\ k.kind = r.kind /\ k.enabled = r.enabled
  BY <1>5
<1>9. /\ e.source = k.source /\ e.target = k.target /\ e.class = k.class /\ e.kind = k.kind
      /\ e.enabled = k.enabled /\ e.perms = perms(k)
  BY <1>2
<1>10. \A x : x \in perms(k) <=>
         \E q \in rules : /\ k.source \in TypesOf(q.source) /\ k.target \in TypesOf(q.target)
                          /\ q.class = k.class /\ q.kind = k.kind /\ q.enabled = k.enabled /\ x \in q.perms
  OBVIOUS
<1> HIDE DEF perms, keys
<1>11. \A x : x \in e.perms <=>
              \E q \in rules :
                 /\ e.source \in TypesOf(q.source) /\ e.target \in TypesOf(q.target)
                 /\ q.class = e.class /\ q.kind = e.kind /\ q.enabled = e.enabled /\ x \in q.perms
  BY <1>9, <1>10
<1>12. e.perms # {}
  <2>1. PICK x : x \in r.perms
    BY <1>6 DEF IsRule
  <2>2. /\ e.source \in TypesOf(r.source) /\ e.target \in TypesOf(r.target)
        /\ r.class = e.class /\ r.kind = e.kind /\ r.enabled = e.enabled
    BY <1>4, <1>5, <1>8, <1>9
  <2> QED
    BY <2>1, <2>2, <1>3, <1>11
<1>13. e.source \in Types /\ e.target \in Types /\ e.class = r.class
  BY <1>7, <1>8, <1>9
<1>14. e.class \in Nat /\ e.enabled \in BOOLEAN
  BY <1>6, <1>8, <1>9 DEF IsRule
<1> QED
  BY <1>3, <1>11, <1>12, <1>13, <1>14

\* and every rule is expanded for all its types
IsFor(e, r, s, t) ==
  /\ e.source = s /\ e.target = t /\ e.class = r.class /\ e.kind = r.kind
  /\ e.enabled = r.enabled /\ r.perms \subseteq e.perms

LEMMA ExpandedTo ==
  ASSUME NEW rules, NEW r \in rules, NEW s \in TypesOf(r.source), NEW t \in TypesOf(r.target)
  PROVE  \E e \in Expanded(rules) : IsFor(e, r, s, t)
<1> DEFINE Key(a, b, q) == [source |-> a, target |-> b, class |-> q.class, kind |-> q.kind, enabled |-> q.enabled]
           keys == UNION {{Key(a, b, q) : a \in TypesOf(q.source), b \in TypesOf(q.target)} : q \in rules}
           perms(k) == UNION {p.perms : p \in {q \in rules :
                         /\ k.source \in TypesOf(q.source) /\ k.target \in TypesOf(q.target)
                         /\ q.class = k.class /\ q.kind = k.kind /\ q.enabled = k.enabled}}
           Full(k) == [source |-> k.source, target |-> k.target, class |-> k.class, kind |-> k.kind,
                       enabled |-> k.enabled, perms |-> perms(k)]
           k == Key(s, t, r)
<1>1. Expanded(rules) = {Full(x) : x \in keys}
  BY DEF Expanded
<1>2. k \in keys
  <2> DEFINE those(q) == {Key(a, b, q) : a \in TypesOf(q.source), b \in TypesOf(q.target)}
  <2>1. k \in those(r)
    OBVIOUS
  <2> HIDE DEF k
  <2>2. those(r) \in {those(q) : q \in rules}
    OBVIOUS
  <2> HIDE DEF those
  <2>3. k \in UNION {those(q) : q \in rules}
    BY <2>1, <2>2
  <2> QED
    BY <2>3 DEF those
<1>3. k.source = s /\ k.target = t /\ k.class = r.class /\ k.kind = r.kind /\ k.enabled = r.enabled
  OBVIOUS
<1>4. r.perms \subseteq perms(k)
  <2> HIDE DEF k
  <2> QED
    BY <1>3
<1> HIDE DEF k, keys, perms
<1>5. Full(k) \in Expanded(rules)
  BY <1>1, <1>2
<1>6. /\ Full(k).source = s /\ Full(k).target = t /\ Full(k).class = r.class /\ Full(k).kind = r.kind
      /\ Full(k).enabled = r.enabled /\ Full(k).perms = perms(k)
  BY <1>3
<1> QED
  BY <1>4, <1>5, <1>6 DEF IsFor

LEMMA AllAreRules ==
  ASSUME OfCall, NEW e \in All
  PROVE  /\ e.source \in Types /\ e.target \in Types /\ e.class \in Nat /\ e.enabled \in BOOLEAN
         /\ e.class \in Classes /\ e.perms # {} /\ e.perms \subseteq Perms
<1>1. CASE e \in Expanded(policy.te)
  <2>1. \A r \in policy.te : IsRule(r)
    BY RulesAreRules DEF Rules
  <2>2. /\ e.source \in Types /\ e.target \in Types /\ e.class \in Nat /\ e.enabled \in BOOLEAN
        /\ e.perms # {}
    BY <1>1, <2>1, ExpandedFrom
  <2>3. \E r \in policy.te : e.class = r.class
    BY <1>1, <2>1, ExpandedFrom
  <2>4. \A x \in e.perms : \E r \in policy.te : x \in r.perms
    BY <1>1, <2>1, ExpandedFrom
  <2> QED
    BY <2>2, <2>3, <2>4 DEF Classes, Perms, Rules
<1>2. CASE e \in Expanded(policy.cond)
  <2>1. \A r \in policy.cond : IsRule(r)
    BY RulesAreRules DEF Rules
  <2>2. /\ e.source \in Types /\ e.target \in Types /\ e.class \in Nat /\ e.enabled \in BOOLEAN
        /\ e.perms # {}
    BY <1>2, <2>1, ExpandedFrom
  <2>3. \E r \in policy.cond : e.class = r.class
    BY <1>2, <2>1, ExpandedFrom
  <2>4. \A x \in e.perms : \E r \in policy.cond : x \in r.perms
    BY <1>2, <2>1, ExpandedFrom
  <2> QED
    BY <2>2, <2>3, <2>4 DEF Classes, Perms, Rules
<1> QED
  BY <1>1, <1>2 DEF All

LEMMA AccessIs ==
  ASSUME OfCall, NEW s, NEW t, NEW c, NEW x
  PROVE  s \in Types /\ t \in Types =>
         (x \in Access(s, t, c) <=>
           \E e \in All : Taken(e) /\ e.source = s /\ e.target = t /\ e.class = c /\ x \in e.perms)
<1> SUFFICES ASSUME s \in Types, t \in Types
             PROVE  x \in Access(s, t, c) <=>
                      \E e \in All : Taken(e) /\ e.source = s /\ e.target = t /\ e.class = c /\ x \in e.perms
  OBVIOUS
<1>1. x \in Access(s, t, c) <=>
        \E q \in Rules : /\ Taken(q) /\ s \in TypesOf(q.source) /\ t \in TypesOf(q.target) /\ q.class = c
                         /\ x \in q.perms
  BY DEF Access, Rules
<1>2. ASSUME NEW q \in Rules, Taken(q), s \in TypesOf(q.source), t \in TypesOf(q.target), q.class = c, x \in q.perms
      PROVE  \E e \in All : Taken(e) /\ e.source = s /\ e.target = t /\ e.class = c /\ x \in e.perms
  <2>1. CASE q \in policy.te
    <3>1. PICK e \in Expanded(policy.te) : IsFor(e, q, s, t)
      <4>1. q \in policy.te /\ s \in TypesOf(q.source) /\ t \in TypesOf(q.target)
        BY <2>1, <1>2
      <4> QED
        BY <4>1, ExpandedTo
    <3> QED
      BY <3>1, <1>2 DEF All, Taken, IsFor
  <2>2. CASE q \in policy.cond
    <3>1. PICK e \in Expanded(policy.cond) : IsFor(e, q, s, t)
      <4>1. q \in policy.cond /\ s \in TypesOf(q.source) /\ t \in TypesOf(q.target)
        BY <2>2, <1>2
      <4> QED
        BY <4>1, ExpandedTo
    <3> QED
      BY <3>1, <1>2 DEF All, Taken, IsFor
  <2> QED
    BY <2>1, <2>2 DEF Rules
<1>3. ASSUME NEW e \in All, Taken(e), e.source = s, e.target = t, e.class = c, x \in e.perms
      PROVE  \E q \in Rules : /\ Taken(q) /\ s \in TypesOf(q.source) /\ t \in TypesOf(q.target) /\ q.class = c
                              /\ x \in q.perms
  <2>1. CASE e \in Expanded(policy.te)
    <3>1. \A r \in policy.te : IsRule(r)
      BY RulesAreRules DEF Rules
    <3>2. PICK q \in policy.te :
                 /\ e.source \in TypesOf(q.source) /\ e.target \in TypesOf(q.target)
                 /\ q.class = e.class /\ q.kind = e.kind /\ q.enabled = e.enabled /\ x \in q.perms
      BY <2>1, <3>1, <1>3, ExpandedFrom
    <3> QED
      BY <3>2, <1>3 DEF Taken, Rules
  <2>2. CASE e \in Expanded(policy.cond)
    <3>1. \A r \in policy.cond : IsRule(r)
      BY RulesAreRules DEF Rules
    <3>2. PICK q \in policy.cond :
                 /\ e.source \in TypesOf(q.source) /\ e.target \in TypesOf(q.target)
                 /\ q.class = e.class /\ q.kind = e.kind /\ q.enabled = e.enabled /\ x \in q.perms
      BY <2>2, <3>1, <1>3, ExpandedFrom
    <3> QED
      BY <3>2, <1>3 DEF Taken, Rules
  <2> QED
    BY <2>1, <2>2 DEF All
<1> QED
  BY <1>1, <1>2, <1>3

-----------------------------------------------------------------------------
(***************************************************************************)
(* The nodes of a type, by their keys.                                     *)
(***************************************************************************)
SelfNode(t, c)    == [source |-> 0, target |-> 0, class |-> c, perms |-> Access(t, t, c)]
ToNode(t, u, c)   == [source |-> 0, target |-> u, class |-> c, perms |-> Access(t, u, c)]
FromNode(t, u, c) == [source |-> u, target |-> 0, class |-> c, perms |-> Access(u, t, c)]

LEMMA NodesAre ==
  ASSUME NEW t, NEW n
  PROVE  n \in Nodes(t) <=>
           /\ n.perms # {}
           /\ \E c \in Classes :
                \/ n = SelfNode(t, c)
                \/ \E u \in Types \ {t} : n = ToNode(t, u, c) \/ n = FromNode(t, u, c)
<1> DEFINE one == {SelfNode(t, c) : c \in Classes}
           two(u, c) == {ToNode(t, u, c), FromNode(t, u, c)}
           twos == {two(u, c) : u \in Types \ {t}, c \in Classes}
<1>1. Nodes(t) = {m \in one \cup UNION twos : m.perms # {}}
  BY DEF Nodes, SelfNode, ToNode, FromNode
<1>2. n \in one <=> \E c \in Classes : n = SelfNode(t, c)
  OBVIOUS
<1>3. n \in UNION twos <=> \E c \in Classes : \E u \in Types \ {t} : n \in two(u, c)
  <2> HIDE DEF two
  <2> QED
    OBVIOUS
<1>4. \A u, c : n \in two(u, c) <=> (n = ToNode(t, u, c) \/ n = FromNode(t, u, c))
  OBVIOUS
<1> HIDE DEF one, two, twos
<1> QED
  BY <1>1, <1>2, <1>3, <1>4

LEMMA AllHaveTypes ==
  OfCall => \A e \in All : /\ e.source \in Types /\ e.target \in Types /\ e.class \in Classes
                           /\ e.source # 0 /\ e.target # 0
BY AllAreRules, TypesArePositive

LEMMA InRulesSelf ==
  ASSUME OfCall, NEW t \in Types, NEW c, NEW x
  PROVE  InRules(t, All, <<0, 0, c>>, x) <=> x \in Access(t, t, c)
<1>1. \A e \in All : Gives(t, e, <<0, 0, c>>) <=> (e.source = t /\ e.target = t /\ e.class = c)
  BY AllHaveTypes DEF Gives
<1>2. x \in Access(t, t, c) <=>
         \E e \in All : Taken(e) /\ e.source = t /\ e.target = t /\ e.class = c /\ x \in e.perms
  BY AccessIs
<1> QED
  BY <1>1, <1>2 DEF InRules

LEMMA InRulesTo ==
  ASSUME OfCall, NEW t \in Types, NEW u \in Types \ {t}, NEW c, NEW x
  PROVE  InRules(t, All, <<0, u, c>>, x) <=> x \in Access(t, u, c)
<1>1. u \in Types /\ u # 0 /\ u # t
  BY TypesArePositive
<1>2. \A e \in All : Gives(t, e, <<0, u, c>>) <=> (e.source = t /\ e.target = u /\ e.class = c)
  BY <1>1, AllHaveTypes DEF Gives
<1>3. x \in Access(t, u, c) <=>
         \E e \in All : Taken(e) /\ e.source = t /\ e.target = u /\ e.class = c /\ x \in e.perms
  BY <1>1, AccessIs
<1> QED
  BY <1>2, <1>3 DEF InRules

LEMMA InRulesFrom ==
  ASSUME OfCall, NEW t \in Types, NEW u \in Types \ {t}, NEW c, NEW x
  PROVE  InRules(t, All, <<u, 0, c>>, x) <=> x \in Access(u, t, c)
<1>1. u \in Types /\ u # 0 /\ u # t
  BY TypesArePositive
<1>2. \A e \in All : Gives(t, e, <<u, 0, c>>) <=> (e.source = u /\ e.target = t /\ e.class = c)
  BY <1>1, AllHaveTypes DEF Gives
<1>3. x \in Access(u, t, c) <=>
         \E e \in All : Taken(e) /\ e.source = u /\ e.target = t /\ e.class = c /\ x \in e.perms
  BY <1>1, AccessIs
<1> QED
  BY <1>2, <1>3 DEF InRules

LEMMA InRulesOnly ==
  ASSUME OfCall, NEW t \in Types, NEW key, NEW x, InRules(t, All, key, x)
  PROVE  \E c \in Classes :
           \/ key = <<0, 0, c>>
           \/ \E u \in Types \ {t} : key = <<0, u, c>> \/ key = <<u, 0, c>>
BY AllHaveTypes DEF InRules, Gives

LEMMA AccessInPerms ==
  \A s, t, c : Access(s, t, c) \subseteq Perms
BY DEF Access, Perms, Rules

LEMMA ClassesAreNumbers == OfCall => Classes \subseteq Nat
BY RulesAreRules DEF Classes, Rules, IsRule

LEMMA NodesAreNodes ==
  ASSUME OfCall, NEW t \in Types, NEW n \in Nodes(t)
  PROVE  n \in NodeSet(Perms) /\ n.perms # {}
<1>1. PICK c \in Classes :
                \/ n = SelfNode(t, c)
                \/ \E u \in Types \ {t} : n = ToNode(t, u, c) \/ n = FromNode(t, u, c)
  BY NodesAre
<1>2. c \in Nat /\ 0 \in 0 .. NPrim
  BY ClassesAreNumbers, PrimAssumption
<1>3. ASSUME n = SelfNode(t, c) PROVE n \in NodeSet(Perms)
  BY <1>2, <1>3, AccessInPerms DEF SelfNode, NodeSet
<1>4. ASSUME NEW u \in Types \ {t}, n = ToNode(t, u, c) \/ n = FromNode(t, u, c)
      PROVE  n \in NodeSet(Perms)
  <2>1. u \in 0 .. NPrim
    BY TypesArePositive
  <2> QED
    BY <1>2, <1>4, <2>1, AccessInPerms DEF ToNode, FromNode, NodeSet
<1> QED
  BY <1>1, <1>3, <1>4, NodesAre

\* The permissions of a node are those that rules give to its key,
LEMMA NodeHasRules ==
  ASSUME OfCall, NEW t \in Types, NEW n \in Nodes(t), NEW x
  PROVE  x \in n.perms <=> InRules(t, All, KeyOf(n), x)
<1>1. PICK c \in Classes :
                \/ n = SelfNode(t, c)
                \/ \E u \in Types \ {t} : n = ToNode(t, u, c) \/ n = FromNode(t, u, c)
  BY NodesAre
<1>2. CASE n = SelfNode(t, c)
  <2>1. KeyOf(n) = <<0, 0, c>> /\ n.perms = Access(t, t, c)
    BY <1>2 DEF SelfNode, KeyOf
  <2> QED
    BY <2>1, InRulesSelf
<1>3. ASSUME NEW u \in Types \ {t}, n = ToNode(t, u, c)
      PROVE  x \in n.perms <=> InRules(t, All, KeyOf(n), x)
  <2>1. KeyOf(n) = <<0, u, c>> /\ n.perms = Access(t, u, c)
    BY <1>3 DEF ToNode, KeyOf
  <2> QED
    BY <2>1, InRulesTo
<1>4. ASSUME NEW u \in Types \ {t}, n = FromNode(t, u, c)
      PROVE  x \in n.perms <=> InRules(t, All, KeyOf(n), x)
  <2>1. KeyOf(n) = <<u, 0, c>> /\ n.perms = Access(u, t, c)
    BY <1>4 DEF FromNode, KeyOf
  <2> QED
    BY <2>1, InRulesFrom
<1> QED
  BY <1>1, <1>2, <1>3, <1>4

\* and a node with the permissions that rules give to its key is one of the type.
LEMMA RulesMakeNode ==
  ASSUME OfCall, NEW t \in Types, NEW n \in NodeSet(Perms), n.perms # {},
         \A x : x \in n.perms <=> InRules(t, All, KeyOf(n), x)
  PROVE  n \in Nodes(t)
<1>1. PICK y : y \in n.perms
  OBVIOUS
<1>2. InRules(t, All, KeyOf(n), y)
  BY <1>1
<1>3. PICK c \in Classes :
                \/ KeyOf(n) = <<0, 0, c>>
                \/ \E u \in Types \ {t} : KeyOf(n) = <<0, u, c>> \/ KeyOf(n) = <<u, 0, c>>
  BY <1>2, InRulesOnly
<1>4. n = [source |-> n.source, target |-> n.target, class |-> n.class, perms |-> n.perms]
  BY DEF NodeSet
<1>5. CASE KeyOf(n) = <<0, 0, c>>
  <2>1. n.source = 0 /\ n.target = 0 /\ n.class = c
    BY <1>5 DEF KeyOf
  <2>2. \A x : x \in n.perms <=> x \in Access(t, t, c)
    BY <1>5, InRulesSelf
  <2>3. n.perms = Access(t, t, c)
    BY <2>2
  <2>4. n = SelfNode(t, c)
    BY <1>4, <2>1, <2>3 DEF SelfNode
  <2> QED
    BY <2>4, NodesAre
<1>6. ASSUME NEW u \in Types \ {t}, KeyOf(n) = <<0, u, c>>
      PROVE  n \in Nodes(t)
  <2>1. n.source = 0 /\ n.target = u /\ n.class = c
    BY <1>6 DEF KeyOf
  <2>2. \A x : x \in n.perms <=> x \in Access(t, u, c)
    BY <1>6, InRulesTo
  <2>3. n.perms = Access(t, u, c)
    BY <2>2
  <2>4. n = ToNode(t, u, c)
    BY <1>4, <2>1, <2>3 DEF ToNode
  <2> QED
    BY <2>4, NodesAre
<1>7. ASSUME NEW u \in Types \ {t}, KeyOf(n) = <<u, 0, c>>
      PROVE  n \in Nodes(t)
  <2>1. n.source = u /\ n.target = 0 /\ n.class = c
    BY <1>7 DEF KeyOf
  <2>2. \A x : x \in n.perms <=> x \in Access(u, t, c)
    BY <1>7, InRulesFrom
  <2>3. n.perms = Access(u, t, c)
    BY <2>2
  <2>4. n = FromNode(t, u, c)
    BY <1>4, <2>1, <2>3 DEF FromNode
  <2> QED
    BY <2>4, NodesAre
<1> QED
  BY <1>3, <1>5, <1>6, <1>7

-----------------------------------------------------------------------------
(***************************************************************************)
(* A list that has what the rules give is that of the nodes of its type,   *)
(* and types with the same nodes are alike.                                *)
(***************************************************************************)
Canonical(t, list) ==
  /\ list \in Seq(NodeSet(Perms)) /\ Ascending(list)
  /\ ToSet(list) = Nodes(t)

LEMMA SameFields ==
  ASSUME NEW P, NEW m \in NodeSet(P), NEW n \in NodeSet(P),
         m.source = n.source, m.target = n.target, m.class = n.class, m.perms = n.perms
  PROVE  m = n
BY DEF NodeSet

LEMMA FullIsCanonical ==
  ASSUME OfCall, NEW t \in Types, NEW list \in Seq(NodeSet(Perms)), Ascending(list), NoneEmpty(list),
         \A key, x : InList(list, key, x) <=> InRules(t, All, key, x)
  PROVE  Canonical(t, list)
<1>1. \A a \in 1 .. Len(list) : list[a] \in NodeSet(Perms) /\ list[a].perms # {}
  BY DEF NoneEmpty
<1>2. ToSet(list) = {list[a] : a \in 1 .. Len(list)}
  BY DEF ToSet
<1>3. ASSUME NEW a \in 1 .. Len(list), NEW b \in 1 .. Len(list), KeyOf(list[a]) = KeyOf(list[b])
      PROVE  a = b
  <2>1. ASSUME NEW c \in 1 .. Len(list), NEW d \in 1 .. Len(list), c < d
        PROVE  KeyOf(list[c]) # KeyOf(list[d])
    BY <1>1, <2>1, OrderOfKeys DEF Ascending
  <2> QED
    BY <1>3, <2>1
<1>4. ASSUME NEW a \in 1 .. Len(list), NEW x
      PROVE  x \in list[a].perms <=> InRules(t, All, KeyOf(list[a]), x)
  <2>1. x \in list[a].perms <=> InList(list, KeyOf(list[a]), x)
    BY <1>3 DEF InList
  <2> QED
    BY <2>1
<1>5. ASSUME NEW a \in 1 .. Len(list) PROVE list[a] \in Nodes(t)
  <2>1. \A x : x \in list[a].perms <=> InRules(t, All, KeyOf(list[a]), x)
    BY <1>4
  <2> QED
    BY <1>1, <2>1, RulesMakeNode
<1>6. ASSUME NEW n \in Nodes(t) PROVE \E a \in 1 .. Len(list) : list[a] = n
  <2>1. n \in NodeSet(Perms) /\ n.perms # {}
    BY NodesAreNodes
  <2>2. \A x : x \in n.perms <=> InRules(t, All, KeyOf(n), x)
    BY NodeHasRules
  <2>3. PICK y : y \in n.perms
    BY <2>1
  <2>4. InList(list, KeyOf(n), y)
    BY <2>2, <2>3
  <2>5. PICK a \in 1 .. Len(list) : KeyOf(list[a]) = KeyOf(n)
    BY <2>4 DEF InList
  <2>6. \A x : x \in list[a].perms <=> x \in n.perms
    BY <1>4, <2>2, <2>5
  <2>7. list[a].perms = n.perms
    BY <2>6
  <2>8. list[a].source = n.source /\ list[a].target = n.target /\ list[a].class = n.class
    BY <2>5 DEF KeyOf
  <2>9. list[a] = n
    BY <1>1, <2>1, <2>7, <2>8, SameFields
  <2> QED
    BY <2>9
<1> QED
  BY <1>2, <1>5, <1>6 DEF Canonical

LEMMA NodesHaveAccess ==
  ASSUME NEW t \in Types, NEW c \in Classes
  PROVE  /\ SelfNode(t, c) \in Nodes(t) <=> Access(t, t, c) # {}
         /\ \A u \in Types \ {t} :
              /\ ToNode(t, u, c) \in Nodes(t) <=> Access(t, u, c) # {}
              /\ FromNode(t, u, c) \in Nodes(t) <=> Access(u, t, c) # {}
<1>1. SelfNode(t, c).perms = Access(t, t, c)
  BY DEF SelfNode
<1>2. \A u : ToNode(t, u, c).perms = Access(t, u, c) /\ FromNode(t, u, c).perms = Access(u, t, c)
  BY DEF ToNode, FromNode
<1>3. SelfNode(t, c) \in Nodes(t) <=> Access(t, t, c) # {}
  BY <1>1, NodesAre
<1>4. ASSUME NEW u \in Types \ {t}
      PROVE  /\ ToNode(t, u, c) \in Nodes(t) <=> Access(t, u, c) # {}
             /\ FromNode(t, u, c) \in Nodes(t) <=> Access(u, t, c) # {}
  <2>1. ToNode(t, u, c) \in Nodes(t) <=> Access(t, u, c) # {}
    BY <1>2, NodesAre
  <2>2. FromNode(t, u, c) \in Nodes(t) <=> Access(u, t, c) # {}
    BY <1>2, NodesAre
  <2> QED
    BY <2>1, <2>2
<1> QED
  BY <1>3, <1>4

\* what the nodes of a type with given ends say
LEMMA NodesOfKind ==
  ASSUME NEW t \in Types, NEW n \in Nodes(t)
  PROVE  /\ n.source = 0 /\ n.target = 0 => n.perms = Access(t, t, n.class)
         /\ n.source = 0 /\ n.target # 0 => n.target # t /\ n.perms = Access(t, n.target, n.class)
         /\ n.source # 0 => n.source # t /\ n.target = 0 /\ n.perms = Access(n.source, t, n.class)
<1>1. PICK c \in Classes :
                \/ n = SelfNode(t, c)
                \/ \E u \in Types \ {t} : n = ToNode(t, u, c) \/ n = FromNode(t, u, c)
  BY NodesAre
<1>2. CASE n = SelfNode(t, c)
  BY <1>2 DEF SelfNode
<1>3. ASSUME NEW u \in Types \ {t}, n = ToNode(t, u, c)
      PROVE  n.source = 0 /\ n.target = u /\ u # 0 /\ u # t /\ n.perms = Access(t, u, n.class)
  BY <1>3, TypesArePositive DEF ToNode
<1>4. ASSUME NEW u \in Types \ {t}, n = FromNode(t, u, c)
      PROVE  n.source = u /\ n.target = 0 /\ u # 0 /\ u # t /\ n.perms = Access(u, t, n.class)
  BY <1>4, TypesArePositive DEF FromNode
<1> QED
  BY <1>1, <1>2, <1>3, <1>4

Equivalent(x, y) == Alike(x, y) /\ ~Between(x, y)

LEMMA SameNodesOneWay ==
  ASSUME NEW x \in Types, NEW y \in Types, x # y, Equivalent(x, y)
  PROVE  Nodes(x) \subseteq Nodes(y)
<1>1. SUFFICES ASSUME NEW n \in Nodes(x) PROVE n \in Nodes(y)
  OBVIOUS
<1>2. PICK c \in Classes :
                \/ n = SelfNode(x, c)
                \/ \E u \in Types \ {x} : n = ToNode(x, u, c) \/ n = FromNode(x, u, c)
  BY NodesAre
<1>3. n.perms # {}
  BY NodesAre
<1>4. Access(x, y, c) = {} /\ Access(y, x, c) = {}
  BY DEF Equivalent, Between
<1>5. CASE n = SelfNode(x, c)
  <2>1. Access(x, x, c) = Access(y, y, c)
    BY DEF Equivalent, Alike
  <2>2. n = SelfNode(y, c)
    BY <1>5, <2>1 DEF SelfNode
  <2> QED
    BY <2>2, <1>3, NodesAre
<1>6. ASSUME NEW u \in Types \ {x}, n = ToNode(x, u, c) PROVE n \in Nodes(y)
  <2>1. n.perms = Access(x, u, c)
    BY <1>6 DEF ToNode
  <2>2. u # y
    BY <2>1, <1>3, <1>4
  <2>3. Access(x, u, c) = Access(y, u, c)
    BY <2>2 DEF Equivalent, Alike
  <2>4. n = ToNode(y, u, c) /\ u \in Types \ {y}
    BY <1>6, <2>2, <2>3 DEF ToNode
  <2> QED
    BY <2>4, <1>3, NodesAre
<1>7. ASSUME NEW u \in Types \ {x}, n = FromNode(x, u, c) PROVE n \in Nodes(y)
  <2>1. n.perms = Access(u, x, c)
    BY <1>7 DEF FromNode
  <2>2. u # y
    BY <2>1, <1>3, <1>4
  <2>3. Access(u, x, c) = Access(u, y, c)
    BY <2>2 DEF Equivalent, Alike
  <2>4. n = FromNode(y, u, c) /\ u \in Types \ {y}
    BY <1>7, <2>2, <2>3 DEF FromNode
  <2> QED
    BY <2>4, <1>3, NodesAre
<1> QED
  BY <1>2, <1>5, <1>6, <1>7

LEMMA EquivalentSymmetric ==
  ASSUME NEW x \in Types, NEW y \in Types, x # y, Equivalent(x, y)
  PROVE  Equivalent(y, x)
<1>1. ~Between(y, x)
  BY DEF Equivalent, Between
<1>2. Alike(y, x)
  BY DEF Equivalent, Alike
<1> QED
  BY <1>1, <1>2 DEF Equivalent

LEMMA SameNodes ==
  ASSUME NEW x \in Types, NEW y \in Types, x # y
  PROVE  Nodes(x) = Nodes(y) <=> Equivalent(x, y)
<1>1. ASSUME Equivalent(x, y) PROVE Nodes(x) = Nodes(y)
  <2>1. Equivalent(y, x)
    BY <1>1, EquivalentSymmetric
  <2>2. Nodes(x) \subseteq Nodes(y)
    BY <1>1, SameNodesOneWay
  <2>3. Nodes(y) \subseteq Nodes(x)
    BY <2>1, SameNodesOneWay
  <2> QED
    BY <2>2, <2>3
<1>2. ASSUME Nodes(x) = Nodes(y), NEW c \in Classes
      PROVE  /\ Access(x, y, c) = {} /\ Access(y, x, c) = {}
             /\ Access(x, x, c) = Access(y, y, c)
             /\ \A t \in Types \ {x, y} : Access(x, t, c) = Access(y, t, c) /\ Access(t, x, c) = Access(t, y, c)
  <2>1. ASSUME Access(x, y, c) # {} PROVE FALSE
    <3>1. ToNode(x, y, c) \in Nodes(y)
      BY <1>2, <2>1, NodesHaveAccess
    <3>2. ToNode(x, y, c).source = 0 /\ ToNode(x, y, c).target = y /\ y # 0
      BY TypesArePositive DEF ToNode
    <3> QED
      BY <3>1, <3>2, NodesOfKind
  <2>2. ASSUME Access(y, x, c) # {} PROVE FALSE
    <3>1. ToNode(y, x, c) \in Nodes(x)
      BY <1>2, <2>2, NodesHaveAccess
    <3>2. ToNode(y, x, c).source = 0 /\ ToNode(y, x, c).target = x /\ x # 0
      BY TypesArePositive DEF ToNode
    <3> QED
      BY <3>1, <3>2, NodesOfKind
  <2>3. ASSUME NEW v \in {x, y}, NEW w \in {x, y}, Access(v, v, c) # {}
        PROVE  Access(v, v, c) = Access(w, w, c)
    <3>1. SelfNode(v, c) \in Nodes(w)
      BY <1>2, <2>3, NodesHaveAccess
    <3>2. /\ SelfNode(v, c).source = 0 /\ SelfNode(v, c).target = 0 /\ SelfNode(v, c).class = c
          /\ SelfNode(v, c).perms = Access(v, v, c)
      BY DEF SelfNode
    <3> QED
      BY <3>1, <3>2, NodesOfKind
  <2>4. Access(x, x, c) = Access(y, y, c)
    BY <2>3
  <2>5. ASSUME NEW t \in Types \ {x, y}
        PROVE  Access(x, t, c) = Access(y, t, c) /\ Access(t, x, c) = Access(t, y, c)
    <3>1. ASSUME NEW v \in {x, y}, NEW w \in {x, y}, Access(v, t, c) # {}
          PROVE  Access(v, t, c) = Access(w, t, c)
      <4>1. ToNode(v, t, c) \in Nodes(w)
        BY <1>2, <3>1, NodesHaveAccess
      <4>2. /\ ToNode(v, t, c).source = 0 /\ ToNode(v, t, c).target = t /\ ToNode(v, t, c).class = c
            /\ ToNode(v, t, c).perms = Access(v, t, c) /\ t # 0
        BY TypesArePositive DEF ToNode
      <4> QED
        BY <4>1, <4>2, NodesOfKind
    <3>2. ASSUME NEW v \in {x, y}, NEW w \in {x, y}, Access(t, v, c) # {}
          PROVE  Access(t, v, c) = Access(t, w, c)
      <4>1. FromNode(v, t, c) \in Nodes(w)
        BY <1>2, <3>2, NodesHaveAccess
      <4>2. /\ FromNode(v, t, c).source = t /\ FromNode(v, t, c).target = 0 /\ FromNode(v, t, c).class = c
            /\ FromNode(v, t, c).perms = Access(t, v, c) /\ t # 0
        BY TypesArePositive DEF FromNode
      <4> QED
        BY <4>1, <4>2, NodesOfKind
    <3> QED
      BY <3>1, <3>2
  <2> QED
    BY <2>1, <2>2, <2>4, <2>5
<1>3. ASSUME Nodes(x) = Nodes(y) PROVE Equivalent(x, y)
  <2>1. Alike(x, y)
    BY <1>3, <1>2 DEF Alike
  <2>2. ~Between(x, y)
    BY <1>3, <1>2 DEF Between
  <2> QED
    BY <2>1, <2>2 DEF Equivalent
<1> QED
  BY <1>1, <1>3

LEMMA RulesAndNodes ==
  ASSUME NEW x \in Types
  PROVE  HasRules(x) <=> Nodes(x) # {}
<1>1. ASSUME NEW t \in Types, NEW c \in Classes, Access(x, t, c) \cup Access(t, x, c) # {}
      PROVE  Nodes(x) # {}
  <2>1. CASE t = x
    BY <1>1, <2>1, NodesHaveAccess
  <2>2. CASE t # x
    BY <1>1, <2>2, NodesHaveAccess
  <2> QED
    BY <2>1, <2>2
<1>2. ASSUME NEW n \in Nodes(x) PROVE HasRules(x)
  <2>1. PICK c \in Classes :
                \/ n = SelfNode(x, c)
                \/ \E u \in Types \ {x} : n = ToNode(x, u, c) \/ n = FromNode(x, u, c)
    BY NodesAre
  <2>2. n.perms # {}
    BY NodesAre
  <2>3. CASE n = SelfNode(x, c)
    <3>1. Access(x, x, c) # {}
      BY <2>2, <2>3 DEF SelfNode
    <3> QED
      BY <3>1 DEF HasRules
  <2>4. ASSUME NEW u \in Types \ {x}, n = ToNode(x, u, c) PROVE HasRules(x)
    <3>1. Access(x, u, c) # {}
      BY <2>2, <2>4 DEF ToNode
    <3> QED
      BY <3>1 DEF HasRules
  <2>5. ASSUME NEW u \in Types \ {x}, n = FromNode(x, u, c) PROVE HasRules(x)
    <3>1. Access(u, x, c) # {}
      BY <2>2, <2>5 DEF FromNode
    <3> QED
      BY <3>1 DEF HasRules
  <2> QED
    BY <2>1, <2>3, <2>4, <2>5
<1> QED
  BY <1>1, <1>2 DEF HasRules

-----------------------------------------------------------------------------
(***************************************************************************)
(* The phases of the program.                                              *)
(***************************************************************************)
Reading  == {"te", "cond"}
Listing  == {"attribute", "permissive", "booleans"}

Phases ==
  /\ OfCall
  /\ pc \in {"main", "compare", "dups", "done"} \cup Reading \cup Listing
  /\ pc = "done" \/ status = Running
  /\ pc \in {"compare"} \cup Reading => request.component = "typecmp"
  /\ pc \in {"dups"} \cup Listing => request.component = pc
  /\ pc \in {"main"} \cup Reading \cup Listing => printed = {}
  /\ pc \in {"main"} \cup Reading => i = 1 /\ j = 2

LEMMA ComponentIsOne == OfCall => request.component \in Components
BY CallsAssumption DEF OfCall

LEMMA InitPhases == Init => Phases
BY DEF Init, Phases, OfCall, Reading, Listing, Running

LEMMA NextPhases == Phases /\ [Next]_vars => Phases'
<1> SUFFICES ASSUME Phases, [Next]_vars PROVE Phases'
  OBVIOUS
<1>1. OfCall /\ request.component \in Components
  BY ComponentIsOne DEF Phases
<1>2. ASSUME UNCHANGED <<policy, request>> PROVE OfCall'
  BY <1>1, <1>2 DEF OfCall
<1>3. CASE Main
  <2>1. OfCall' /\ printed' = {} /\ i' = 1 /\ j' = 2 /\ request' = request /\ status = Running
    BY <1>2, <1>3 DEF Main, Phases
  <2>2. CASE Unreadable \/ request.component = "none" \/ Misused
    <3>1. pc' = "done"
      BY <1>3, <2>2 DEF Main, Exit
    <3> QED
      BY <2>1, <3>1 DEF Phases, Reading, Listing
  <2>3. CASE ~(Unreadable \/ request.component = "none" \/ Misused)
    <3>1. /\ pc' = IF request.component = "typecmp" THEN "te" ELSE request.component
          /\ status' = status /\ request.component # "none"
      BY <1>3, <2>3 DEF Main
    <3> QED
      BY <2>1, <3>1, <1>1 DEF Phases, Reading, Listing, Components
  <2> QED
    BY <2>2, <2>3
<1>4. CASE MapRule
  BY <1>2, <1>4 DEF MapRule, Phases, Reading, Listing
<1>5. CASE Mapped
  BY <1>2, <1>5 DEF Mapped, Phases, Reading, Listing
<1>6. CASE Compare
  BY <1>2, <1>6 DEF Compare, Phases, Reading, Listing
<1>7. CASE NextRow
  BY <1>2, <1>7 DEF NextRow, Phases, Reading, Listing
<1>8. CASE Compared
  BY <1>2, <1>8 DEF Compared, Exit, Phases, Reading, Listing
<1>9. CASE FindDups
  BY <1>2, <1>9 DEF FindDups, Phases, Reading, Listing
<1>10. CASE DupsFound
  BY <1>2, <1>10 DEF DupsFound, Exit, Phases, Reading, Listing
<1>11. CASE ListAllAttributes
  BY <1>2, <1>11 DEF ListAllAttributes, List, Exit, Phases, Reading, Listing
<1>12. CASE NoName
  BY <1>2, <1>12 DEF NoName, Refuse, Exit, Phases, Reading, Listing
<1>13. CASE ListAttribute
  <2>1. pc' = "done" /\ UNCHANGED <<policy, request>>
    BY <1>13 DEF ListAttribute, Refuse, List, Exit
  <2> QED
    BY <1>2, <2>1 DEF Phases, Reading, Listing
<1>14. CASE ListPermissive
  BY <1>2, <1>14 DEF ListPermissive, List, Exit, Phases, Reading, Listing
<1>15. CASE ListBooleans
  BY <1>2, <1>15 DEF ListBooleans, List, Exit, Phases, Reading, Listing
<1>16. CASE UNCHANGED vars
  BY <1>2, <1>16 DEF vars, Phases, Reading, Listing
<1> QED
  BY <1>3, <1>4, <1>5, <1>6, <1>7, <1>8, <1>9, <1>10, <1>11, <1>12, <1>13, <1>14, <1>15, <1>16 DEF Next

-----------------------------------------------------------------------------
(***************************************************************************)
(* dups.                                                                   *)
(***************************************************************************)
Found(r) ==
  {[rule |-> r, by |-> n] : n \in
     {m \in Candidates(r) :
        /\ r.kind = "allow" /\ r.source # r.target
        /\ ~(WithAttribute(r) /\ WithAttribute(m)) /\ Covers(r, m)}}

\* what has been found for the rules that were visited
Duplicates ==
  /\ pc = "dups" => /\ todo \subseteq policy.te
                    /\ \A d : d \in printed <=> \E r \in policy.te \ todo : d \in Found(r)
  /\ Done("dups") => \A d : d \in printed <=> \E r \in policy.te : d \in Found(r)

LEMMA InitDuplicates == Init => Duplicates
BY DEF Init, Duplicates, Done

LEMMA NextDuplicates == Phases /\ Duplicates /\ [Next]_vars => Duplicates'
<1> SUFFICES ASSUME Phases, Duplicates, [Next]_vars PROVE Duplicates'
  OBVIOUS
<1>1. CASE Main
  <2>1. printed' = {} /\ UNCHANGED <<policy, request>> /\ (pc' = "done" => status' = 1 \/ status' = status)
    BY <1>1 DEF Main, Exit, Phases
  <2>2. pc' = "dups" => todo' = policy.te
    BY <1>1 DEF Main, Exit
  <2>3. status' # 0
    BY <1>1 DEF Main, Exit, Phases, Running
  <2> QED
    BY <2>1, <2>2, <2>3 DEF Duplicates, Done
<1>2. CASE MapRule
  BY <1>2 DEF MapRule, Duplicates, Done
<1>3. CASE Mapped
  BY <1>3 DEF Mapped, Duplicates, Done
<1>4. CASE Compare
  BY <1>4 DEF Compare, Duplicates, Done
<1>5. CASE NextRow
  BY <1>5 DEF NextRow, Duplicates, Done
<1>6. CASE Compared
  BY <1>6 DEF Compared, Exit, Duplicates, Done, Phases, Reading
<1>7. CASE FindDups
  <2>1. PICK r \in todo : todo' = todo \ {r} /\ printed' = printed \cup Found(r)
    BY <1>7 DEF FindDups, Found
  <2>2. pc = "dups" /\ pc' = "dups" /\ policy' = policy
    BY <1>7 DEF FindDups
  <2>3. /\ todo \subseteq policy.te
        /\ \A d : d \in printed <=> \E q \in policy.te \ todo : d \in Found(q)
    BY <2>2 DEF Duplicates
  <2>4. policy.te \ todo' = (policy.te \ todo) \cup {r}
    BY <2>1, <2>3
  <2>5. \A q : Found(q)' = Found(q)
    BY <2>2 DEF Found, Candidates
  <2>6. ASSUME NEW d PROVE d \in printed' <=> \E q \in policy.te \ todo' : d \in Found(q)
    BY <2>1, <2>3, <2>4
  <2>7. \A d : d \in printed' <=> \E q \in policy'.te \ todo' : d \in Found(q)'
    BY <2>2, <2>5, <2>6
  <2>8. todo' \subseteq policy'.te
    BY <2>1, <2>2, <2>3
  <2> QED
    BY <2>2, <2>7, <2>8 DEF Duplicates, Done
<1>8. CASE DupsFound
  <2>1. /\ pc = "dups" /\ todo = {} /\ pc' = "done" /\ UNCHANGED <<policy, printed>>
    BY <1>8 DEF DupsFound, Exit
  <2>2. \A d : d \in printed <=> \E q \in policy.te : d \in Found(q)
    BY <2>1 DEF Duplicates
  <2>3. \A q : Found(q)' = Found(q)
    BY <2>1 DEF Found, Candidates
  <2>4. \A d : d \in printed' <=> \E q \in policy'.te : d \in Found(q)'
    BY <2>1, <2>2, <2>3
  <2> QED
    BY <2>1, <2>4 DEF Duplicates, Done
<1>9. CASE ListAllAttributes \/ NoName \/ ListAttribute \/ ListPermissive \/ ListBooleans
  <2>1. pc \in Listing /\ pc' = "done" /\ request' = request
    BY <1>9 DEF ListAllAttributes, NoName, ListAttribute, ListPermissive, ListBooleans, List, Refuse, Exit, Listing
  <2>2. request.component # "dups"
    BY <2>1 DEF Phases, Listing
  <2> QED
    BY <2>1, <2>2 DEF Duplicates, Done
<1>10. CASE UNCHANGED vars
  <2>1. \A q : Found(q)' = Found(q)
    BY <1>10 DEF Found, Candidates, vars
  <2> QED
    BY <1>10, <2>1 DEF vars, Duplicates, Done
<1> QED
  BY <1>1, <1>2, <1>3, <1>4, <1>5, <1>6, <1>7, <1>8, <1>9, <1>10 DEF Next

\* of two rules of the table, the one that dups shows with the other is narrower
LEMMA FoundIs ==
  ASSUME OfCall, NEW r \in policy.te, NEW d
  PROVE  d \in Found(r) <=>
           \E n \in policy.te :
             d = [rule |-> r, by |-> n] /\ Narrow(r) /\ Proper(r) /\ Wide(n) /\ Proper(n) /\ Subsumes(n, r)
<1> DEFINE Shown1(n) ==
             /\ n \in Candidates(r) /\ r.kind = "allow" /\ r.source # r.target
             /\ ~(WithAttribute(r) /\ WithAttribute(n)) /\ Covers(r, n)
           Meant(n) ==
             Narrow(r) /\ Proper(r) /\ Wide(n) /\ Proper(n) /\ Subsumes(n, r)
<1>1. IsRule(r) /\ \A n \in policy.te : IsRule(n)
  BY RulesAreRules DEF Rules
<1>2. \A v \in Values : \A a \in Attributes : v \in Members[a] => v \notin Attributes
  BY PrimAssumption DEF Values
<1>3. ASSUME NEW v \in Values, NEW w \in Values, v \notin Attributes
      PROVE  w \in TypeAttrMap(v) <=> v \in TypesOf(w)
  <2>1. CASE w \in Attributes
    BY <1>3, <2>1 DEF TypeAttrMap, TypesOf
  <2>2. CASE w \notin Attributes
    BY <1>3, <2>2 DEF TypeAttrMap, TypesOf
  <2> QED
    BY <2>1, <2>2
<1>4. ASSUME NEW v \in Values, NEW w \in TypeAttrMap(v), v \in Attributes
      PROVE  w = v
  BY <1>2, <1>4 DEF TypeAttrMap
<1>5. ASSUME NEW n \in policy.te PROVE Shown1(n) <=> Meant(n)
  <2>1. r.source \in Values /\ r.target \in Values /\ n.source \in Values /\ n.target \in Values
    BY <1>1 DEF IsRule
  <2>2. ASSUME Shown1(n), WithAttribute(r) PROVE FALSE
    <3>1. n.source \in TypeAttrMap(r.source) /\ n.target \in TypeAttrMap(r.target) /\ ~WithAttribute(n)
      BY <2>2 DEF Candidates
    <3>2. n.source \notin Attributes /\ n.target \notin Attributes /\ (r.source \in Attributes \/ r.target \in Attributes)
      BY <2>2, <3>1 DEF WithAttribute
    <3> QED
      BY <2>1, <3>1, <3>2, <1>4
  <2>3. ASSUME ~WithAttribute(r)
        PROVE  /\ n.source \in TypeAttrMap(r.source) <=> r.source \in TypesOf(n.source)
               /\ n.target \in TypeAttrMap(r.target) <=> r.target \in TypesOf(n.target)
    BY <2>1, <2>3, <1>3 DEF WithAttribute
  <2>4. ASSUME ~WithAttribute(r)
        PROVE  Covers(r, n) <=> (WithAttribute(n) /\ r.perms \subseteq n.perms)
    BY <2>4 DEF Covers
  <2>5. ASSUME Shown1(n) PROVE Meant(n)
    <3>1. ~WithAttribute(r)
      BY <2>2, <2>5
    <3>2. n \in Candidates(r) /\ r.kind = "allow" /\ r.source # r.target /\ Covers(r, n)
      BY <2>5
    <3>3. /\ n.source \in TypeAttrMap(r.source) /\ n.target \in TypeAttrMap(r.target)
          /\ n.source # n.target /\ n.class = r.class /\ n.kind = r.kind
      BY <3>2 DEF Candidates
    <3> QED
      BY <3>1, <3>2, <3>3, <2>3, <2>4 DEF Narrow, Proper, Wide, Subsumes
  <2>6. ASSUME Meant(n) PROVE Shown1(n)
    <3>1. ~WithAttribute(r) /\ WithAttribute(n) /\ r.kind = "allow" /\ n.kind = "allow"
      BY <2>6 DEF Narrow, Wide
    <3>2. /\ r.source \in TypesOf(n.source) /\ r.target \in TypesOf(n.target)
          /\ r.class = n.class /\ r.perms \subseteq n.perms
          /\ r.source # r.target /\ n.source # n.target
      BY <2>6 DEF Subsumes, Proper
    <3>3. <<n.source, n.target>> # <<r.source, r.target>>
      BY <3>1 DEF WithAttribute
    <3>4. n \in Candidates(r)
      BY <3>1, <3>2, <3>3, <2>3 DEF Candidates
    <3> QED
      BY <3>1, <3>2, <3>4, <2>4
  <2> QED
    BY <2>5, <2>6
<1>6. d \in Found(r) <=> \E n \in policy.te : d = [rule |-> r, by |-> n] /\ Shown1(n)
  BY DEF Found, Candidates
<1> HIDE DEF Shown1, Meant
<1>7. d \in Found(r) <=> \E n \in policy.te : d = [rule |-> r, by |-> n] /\ Meant(n)
  BY <1>5, <1>6
<1> QED
  BY <1>7 DEF Meant

LEMMA DuplicatesRight == Phases /\ Duplicates => DupsRight
<1> SUFFICES ASSUME Phases, Duplicates, Done("dups")
             PROVE  printed = {d \in [rule : {r \in policy.te : Narrow(r) /\ Proper(r)},
                                      by : {n \in policy.te : Wide(n) /\ Proper(n)}] : Subsumes(d.by, d.rule)}
  BY DEF DupsRight
<1> DEFINE R == {r \in policy.te : Narrow(r) /\ Proper(r)}
           N == {n \in policy.te : Wide(n) /\ Proper(n)}
           T == {d \in [rule : R, by : N] : Subsumes(d.by, d.rule)}
<1>1. OfCall
  BY DEF Phases
<1>2. \A d : d \in printed <=> \E r \in policy.te : d \in Found(r)
  BY DEF Duplicates
<1>3. ASSUME NEW d
      PROVE  d \in printed <=> \E r \in R : \E n \in N : d = [rule |-> r, by |-> n] /\ Subsumes(n, r)
  BY <1>1, <1>2, FoundIs
<1>4. ASSUME NEW d
      PROVE  d \in T <=> \E r \in R : \E n \in N : d = [rule |-> r, by |-> n] /\ Subsumes(n, r)
  <2> HIDE DEF R, N
  <2> QED
    OBVIOUS
<1> HIDE DEF R, N, T
<1>5. \A d : d \in printed <=> d \in T
  BY <1>3, <1>4
<1> QED
  BY <1>5 DEF T, R, N

-----------------------------------------------------------------------------
(***************************************************************************)
(* attribute, permissive, booleans.                                        *)
(***************************************************************************)
LEMMA ListIs ==
  ASSUME NEW what, printed' = {[name |-> n] : n \in what}
  PROVE  Listed' = what
<1>1. \A l \in printed' : l.name \in what
  OBVIOUS
<1>2. \A n \in what : [name |-> n] \in printed' /\ [name |-> n].name = n
  OBVIOUS
<1> QED
  BY <1>1, <1>2 DEF Listed

LEMMA IndicesAreValues ==
  ASSUME NEW S \in SUBSET Values
  PROVE  /\ {NameAt(b) : b \in {v - 1 : v \in S}} = S
         /\ {Permissive(b) : b \in S} = S
<1>1. S \subseteq Int /\ \A v \in S : (v - 1) + 1 = v
  BY DEF Values
<1>2. \A v \in S : NameAt(v - 1) = v
  BY <1>1 DEF NameAt
<1>3. \A v \in S : Permissive(v) = v
  BY <1>2 DEF Permissive
<1>4. ASSUME NEW n PROVE n \in {NameAt(b) : b \in {v - 1 : v \in S}} <=> n \in S
  <2>1. n \in {NameAt(b) : b \in {v - 1 : v \in S}} <=> \E b \in {v - 1 : v \in S} : n = NameAt(b)
    OBVIOUS
  <2>2. (\E b \in {v - 1 : v \in S} : n = NameAt(b)) <=> \E v \in S : n = NameAt(v - 1)
    OBVIOUS
  <2> QED
    BY <1>2, <2>1, <2>2
<1> QED
  BY <1>3, <1>4

LEMMA InitListed == Init => ListedRight
BY DEF Init, ListedRight, Done

LEMMA NextListed == Phases /\ ListedRight /\ [Next]_vars => ListedRight'
<1> SUFFICES ASSUME Phases, ListedRight, [Next]_vars PROVE ListedRight'
  OBVIOUS
<1>1. CASE Main
  <2>1. status' # 0
    BY <1>1 DEF Main, Exit, Phases, Running
  <2> QED
    BY <2>1 DEF ListedRight, Done
<1>2. CASE MapRule \/ Mapped \/ Compare \/ NextRow \/ FindDups
  <2>1. pc' # "done"
    BY <1>2 DEF MapRule, Mapped, Compare, NextRow, FindDups
  <2> QED
    BY <2>1 DEF ListedRight, Done
<1>3. CASE Compared \/ DupsFound
  <2>1. pc \in {"compare", "dups"} /\ request' = request
    BY <1>3 DEF Compared, DupsFound
  <2>2. request'.component \in {"typecmp", "dups"}
    BY <2>1 DEF Phases
  <2> QED
    BY <2>2 DEF ListedRight, Done
<1>4. CASE ListAllAttributes
  <2>1. /\ Asked("l") /\ request' = request /\ request.component = "attribute"
        /\ printed' = {[name |-> n] : n \in Attributes}
    BY <1>4 DEF ListAllAttributes, List, Exit, Phases, Listing
  <2>2. Listed' = Attributes /\ Asked("l")'
    BY <2>1, ListIs DEF Asked
  <2> QED
    BY <2>1, <2>2 DEF ListedRight, Done
<1>5. CASE NoName
  <2>1. status' # 0
    BY <1>5 DEF NoName, Refuse, Exit, Crashed
  <2> QED
    BY <2>1 DEF ListedRight, Done
<1>6. CASE ListAttribute
  <2> DEFINE v == FirstName
  <2>1. /\ ~Asked("l") /\ request' = request /\ request.component = "attribute" /\ policy' = policy
    BY <1>6 DEF ListAttribute, List, Refuse, Exit, Phases, Listing
  <2>2. v' = v /\ Asked("l")' = Asked("l") /\ Asked("r")' = Asked("r")
    <3>1. v' = v
      BY <2>1 DEF FirstName, Names
    <3>2. Asked("l")' = Asked("l") /\ Asked("r")' = Asked("r")
      BY <2>1 DEF Asked
    <3> QED
      BY <3>1, <3>2
  <2>3. v' = v
    BY <2>2
  <2>4. CASE v \notin Values \/ Asked("r") = (v \in Attributes)
    <3>1. status' # 0
      BY <1>6, <2>4 DEF ListAttribute, Refuse, Exit
    <3> QED
      BY <3>1 DEF ListedRight, Done
  <2>5. CASE v \in Values /\ Asked("r") # (v \in Attributes) /\ Asked("r")
    <3>1. printed' = {[name |-> n] : n \in {NameAt(b) : b \in TypeAttrBits(v)} \ {v}}
      BY <1>6, <2>5 DEF ListAttribute, List
    <3>2. v \notin Attributes /\ v \in Types
      BY <2>5 DEF Types
    <3>3. TypeAttrMap(v) \in SUBSET Values
      BY <2>5, PrimAssumption DEF TypeAttrMap, Values
    <3>4. {NameAt(b) : b \in TypeAttrBits(v)} = TypeAttrMap(v)
      BY <3>3, IndicesAreValues DEF TypeAttrBits
    <3>5. TypeAttrMap(v) \ {v} = {a \in Attributes : v \in Members[a]}
      BY <3>2 DEF TypeAttrMap
    <3>6. Listed' = TypeAttrMap(v) \ {v}
      BY <3>1, <3>4, ListIs
    <3>7. /\ Asked("r")' /\ ~Asked("l")' /\ request'.component = "attribute"
          /\ v' \in Types /\ Listed' = {a \in Attributes : v' \in Members[a]}
      BY <2>1, <2>2, <2>3, <2>5, <3>2, <3>5, <3>6
    <3> HIDE DEF v
    <3>8. ListedRight' <=> (Done("attribute")' => v' \in Types /\ Listed' = {a \in Attributes : v' \in Members[a]})
      BY <3>7 DEF ListedRight, Done, v
    <3> QED
      BY <3>7, <3>8
  <2>6. CASE v \in Values /\ Asked("r") # (v \in Attributes) /\ ~Asked("r")
    <3>1. printed' = {[name |-> n] : n \in {NameAt(b) : b \in AttrTypeMap(v)}}
      BY <1>6, <2>6 DEF ListAttribute, List
    <3>2. v \in Attributes
      BY <2>6 DEF Asked
    <3>3. Members[v] \in SUBSET Values
      BY <3>2, PrimAssumption DEF Values
    <3>4. {NameAt(b) : b \in AttrTypeMap(v)} = Members[v]
      BY <3>3, IndicesAreValues DEF AttrTypeMap
    <3>5. Listed' = Members[v]
      BY <3>1, <3>4, ListIs
    <3>6. /\ ~Asked("r")' /\ ~Asked("l")' /\ request'.component = "attribute"
          /\ v' \in Attributes /\ Listed' = Members[v']
      BY <2>1, <2>2, <2>3, <2>6, <3>2, <3>5
    <3> HIDE DEF v
    <3>7. ListedRight' <=> (Done("attribute")' => v' \in Attributes /\ Listed' = Members[v'])
      BY <3>6 DEF ListedRight, Done, v
    <3> QED
      BY <3>6, <3>7
  <2> QED
    BY <2>4, <2>5, <2>6
<1>7. CASE ListPermissive
  <2>1. /\ UNCHANGED <<policy, request>> /\ request.component = "permissive"
        /\ printed' = {[name |-> n] : n \in {Permissive(b) : b \in policy.permissive}}
    BY <1>7 DEF ListPermissive, List, Exit, Phases, Listing
  <2>2. policy.permissive \in SUBSET Values
    BY CallsAssumption DEF Phases, OfCall, Types
  <2>3. Listed' = policy.permissive
    <3>1. {Permissive(b) : b \in policy.permissive} = policy.permissive
      BY <2>2, IndicesAreValues
    <3> QED
      BY <2>1, <3>1, ListIs
  <2> QED
    BY <2>1, <2>3 DEF ListedRight, Done
<1>8. CASE ListBooleans
  <2>1. /\ UNCHANGED <<policy, request>> /\ request.component = "booleans"
        /\ printed' = {[name |-> n] : n \in policy.bools}
    BY <1>8 DEF ListBooleans, List, Exit, Phases, Listing
  <2>2. Listed' = policy.bools
    BY <2>1, ListIs
  <2> QED
    BY <2>1, <2>2 DEF ListedRight, Done
<1>9. CASE UNCHANGED vars
  <2>1. request' = request /\ UNCHANGED <<policy, pc, status, printed>>
    BY <1>9 DEF vars
  <2>2. FirstName' = FirstName
    BY <2>1 DEF FirstName, Names
  <2> QED
    BY <2>1, <2>2 DEF ListedRight, Done, Listed, Asked
<1> QED
  BY <1>1, <1>2, <1>3, <1>4, <1>5, <1>6, <1>7, <1>8, <1>9 DEF Next

-----------------------------------------------------------------------------
(***************************************************************************)
(* typecmp makes the lists.                                                *)
(***************************************************************************)
Listed1(t, list, rules) ==
  /\ Ascending(list) /\ NoneEmpty(list)
  /\ \A key, x : InList(list, key, x) <=> InRules(t, rules, key, x)

\* the lists have what the rules in a set give
Lists(rules) == \A t \in Types : Listed1(t, type_rules[t], rules)

LEMMA EmptyLists ==
  ASSUME \A t \in Values : type_rules[t] = <<>>
  PROVE  Lists({})
<1> SUFFICES ASSUME NEW t \in Types PROVE Listed1(t, type_rules[t], {})
  BY DEF Lists
<1>1. type_rules[t] = <<>>
  BY TypesArePositive
<1>2. Len(<<>>) = 0 /\ 1 .. 0 = {}
  OBVIOUS
<1> QED
  BY <1>1, <1>2 DEF Listed1, Ascending, NoneEmpty, InList, InRules

LEMMA NodeIs ==
  ASSUME OfCall, NEW e \in All, NEW s \in 0 .. NPrim, NEW t \in 0 .. NPrim
  PROVE  /\ Node(s, t, e) \in NodeSet(Perms)
         /\ Node(s, t, e).perms = e.perms /\ e.perms # {}
         /\ KeyOf(Node(s, t, e)) = <<s, t, e.class>>
<1>1. e.class \in Nat /\ e.perms # {} /\ e.perms \in SUBSET Perms
  BY AllAreRules
<1> QED
  BY <1>1 DEF Node, NodeSet, KeyOf

LEMMA OneMoreRule ==
  ASSUME NEW t, NEW rules, NEW e, NEW key, NEW x
  PROVE  InRules(t, rules \cup {e}, key, x) <=>
           InRules(t, rules, key, x) \/ (Taken(e) /\ Gives(t, e, key) /\ x \in e.perms)
BY DEF InRules

LEMMA InsertedFor ==
  ASSUME NEW t, NEW rules, NEW e, Taken(e),
         NEW P, NEW list \in Seq(NodeSet(P)), Listed1(t, list, rules),
         NEW n \in NodeSet(P), n.perms # {}, n.perms = e.perms,
         \A key : Gives(t, e, key) <=> key = KeyOf(n)
  PROVE  Inserted(n, list) \in Seq(NodeSet(P)) /\ Listed1(t, Inserted(n, list), rules \cup {e})
<1>1. Ascending(list) /\ NoneEmpty(list)
  BY DEF Listed1
<1>2. Inserted(n, list) \in Seq(NodeSet(P)) /\ Ascending(Inserted(n, list)) /\ NoneEmpty(Inserted(n, list))
  BY <1>1, InsertedIs
<1>3. ASSUME NEW key, NEW x
      PROVE  InList(Inserted(n, list), key, x) <=> InRules(t, rules \cup {e}, key, x)
  <2>1. InList(Inserted(n, list), key, x) <=> InList(list, key, x) \/ (key = KeyOf(n) /\ x \in n.perms)
    BY <1>1, InsertedIs
  <2>2. InList(list, key, x) <=> InRules(t, rules, key, x)
    BY DEF Listed1
  <2>3. InRules(t, rules \cup {e}, key, x) <=>
           InRules(t, rules, key, x) \/ (Taken(e) /\ Gives(t, e, key) /\ x \in e.perms)
    BY OneMoreRule
  <2> QED
    BY <2>1, <2>2, <2>3
<1> QED
  BY <1>2, <1>3 DEF Listed1

LEMMA NotGiven ==
  ASSUME NEW t, NEW rules, NEW e, NEW list, Listed1(t, list, rules),
         ~Taken(e) \/ \A key : ~Gives(t, e, key)
  PROVE  Listed1(t, list, rules \cup {e})
BY OneMoreRule DEF Listed1

LEMMA Created ==
  ASSUME OfCall, NEW e \in All, Taken(e), NEW rules, Lists(rules),
         type_rules \in [Values -> Seq(NodeSet(Perms))]
  PROVE  /\ CreateTypeRules(e) \in [Values -> Seq(NodeSet(Perms))]
         /\ \A t \in Types : Listed1(t, CreateTypeRules(e)[t], rules \cup {e})
<1> DEFINE s == e.source
           u == e.target
           new == CreateTypeRules(e)
<1>1. s \in Types /\ u \in Types /\ s \in Values /\ u \in Values /\ s \in 0 .. NPrim /\ u \in 0 .. NPrim /\ 0 \in 0 .. NPrim
  BY AllAreRules, TypesArePositive, PrimAssumption
<1>2. type_rules[s] \in Seq(NodeSet(Perms)) /\ type_rules[u] \in Seq(NodeSet(Perms))
  BY <1>1
<1>3. Listed1(s, type_rules[s], rules) /\ Listed1(u, type_rules[u], rules)
  BY <1>1 DEF Lists
<1>4. ASSUME NEW t \in Types, t # s, t # u
      PROVE  Listed1(t, type_rules[t], rules \cup {e})
  <2>1. \A key : ~Gives(t, e, key)
    BY <1>4 DEF Gives
  <2>2. Listed1(t, type_rules[t], rules)
    BY DEF Lists
  <2> QED
    BY <2>1, <2>2, NotGiven
<1>5. CASE s = u
  <2> DEFINE n == Node(0, 0, e)
             l == Inserted(n, type_rules[s])
  <2>1. new = [type_rules EXCEPT ![s] = l]
    BY <1>5 DEF CreateTypeRules
  <2>2. n \in NodeSet(Perms) /\ n.perms = e.perms /\ e.perms # {} /\ KeyOf(n) = <<0, 0, e.class>>
    BY <1>1, NodeIs
  <2>3. \A key : Gives(s, e, key) <=> key = KeyOf(n)
    BY <1>5, <2>2 DEF Gives
  <2> HIDE DEF n, s
  <2>4. l \in Seq(NodeSet(Perms)) /\ Listed1(s, l, rules \cup {e})
    BY <1>2, <1>3, <2>2, <2>3, InsertedFor
  <2> HIDE DEF l, new
  <2>5. new \in [Values -> Seq(NodeSet(Perms))] /\ new[s] = l /\ \A t \in Types : t # s => new[t] = type_rules[t]
    BY <1>1, <2>1, <2>4, TypesArePositive
  <2> QED
    BY <1>4, <1>5, <2>4, <2>5 DEF new, s
<1>6. CASE s # u
  <2> DEFINE n == Node(0, u, e)
             m == Node(s, 0, e)
             l == Inserted(n, type_rules[s])
             k == Inserted(m, type_rules[u])
  <2>1. new = [type_rules EXCEPT ![s] = l, ![u] = k]
    BY <1>6, <1>1 DEF CreateTypeRules
  <2>2. n \in NodeSet(Perms) /\ n.perms = e.perms /\ e.perms # {} /\ KeyOf(n) = <<0, u, e.class>>
    BY <1>1, NodeIs
  <2>3. m \in NodeSet(Perms) /\ m.perms = e.perms /\ KeyOf(m) = <<s, 0, e.class>>
    BY <1>1, NodeIs
  <2>4. \A key : Gives(s, e, key) <=> key = KeyOf(n)
    BY <1>6, <2>2 DEF Gives
  <2>5. \A key : Gives(u, e, key) <=> key = KeyOf(m)
    BY <1>6, <2>3 DEF Gives
  <2> HIDE DEF n, m, s, u
  <2>6. l \in Seq(NodeSet(Perms)) /\ Listed1(s, l, rules \cup {e})
    BY <1>2, <1>3, <2>2, <2>4, InsertedFor
  <2>7. k \in Seq(NodeSet(Perms)) /\ Listed1(u, k, rules \cup {e})
    BY <1>2, <1>3, <2>2, <2>3, <2>5, InsertedFor
  <2> HIDE DEF l, k, new
  <2>8. /\ new \in [Values -> Seq(NodeSet(Perms))] /\ new[s] = l /\ new[u] = k
        /\ \A t \in Types : t # s /\ t # u => new[t] = type_rules[t]
    BY <1>1, <1>6, <2>1, <2>6, <2>7, TypesArePositive
  <2> QED
    BY <1>4, <2>6, <2>7, <2>8 DEF new, s, u
<1> QED
  BY <1>5, <1>6

-----------------------------------------------------------------------------
(***************************************************************************)
(* A list is freed when it has been compared with those after it, or when  *)
(* it was the same as an earlier one; until then it is canonical.          *)
(***************************************************************************)
Prior(t) == \E z \in Types : z < t /\ (z < i \/ (z = i /\ t < j)) /\ Nodes(z) = Nodes(t)
Spent(t) == t < i \/ Prior(t)

Building ==
  /\ type_rules \in [Values -> Seq(NodeSet(Perms))]
  /\ pc = "main" => \A t \in Values : type_rules[t] = <<>>
  /\ pc = "te"   => todo \subseteq Expanded(policy.te) /\ Lists(Expanded(policy.te) \ todo)
  /\ pc = "cond" => /\ todo \subseteq Expanded(policy.cond)
                    /\ Lists(Expanded(policy.te) \cup (Expanded(policy.cond) \ todo))
Comparing ==
  pc = "compare" =>
    /\ i \in 1 .. NPrim /\ j \in i + 1 .. NPrim + 1
    /\ \A t \in Types : IF Spent(t) THEN type_rules[t] = <<>> ELSE Canonical(t, type_rules[t])

LEMMA FullLists ==
  ASSUME OfCall, Lists(All), type_rules \in [Values -> Seq(NodeSet(Perms))], NEW t \in Types
  PROVE  Canonical(t, type_rules[t])
<1>1. type_rules[t] \in Seq(NodeSet(Perms)) /\ Listed1(t, type_rules[t], All)
  BY TypesArePositive DEF Lists
<1> QED
  BY <1>1, FullIsCanonical DEF Listed1

LEMMA InitBuilding == Init => Building /\ Comparing
<1> SUFFICES ASSUME Init PROVE Building /\ Comparing
  OBVIOUS
<1>1. pc = "main" /\ type_rules = [t \in Values |-> <<>>]
  BY DEF Init
<1>2. <<>> \in Seq(NodeSet(Perms))
  OBVIOUS
<1> QED
  BY <1>1, <1>2 DEF Building, Comparing

\* what depends on the policy alone
LEMMA OfPolicy ==
  ASSUME policy' = policy
  PROVE  /\ Perms' = Perms /\ All' = All /\ Classes' = Classes
         /\ Expanded(policy.te)' = Expanded(policy.te) /\ Expanded(policy.cond)' = Expanded(policy.cond)
         /\ \A s, t, c : Access(s, t, c)' = Access(s, t, c)
BY DEF Perms, Rules, All, Classes, Access


LEMMA NodesOfPolicy ==
  ASSUME policy' = policy
  PROVE  \A t : Nodes(t)' = Nodes(t)
BY OfPolicy DEF Nodes

LEMMA MapRuleBuilds == Phases /\ Building /\ MapRule => Building'
<1> SUFFICES ASSUME Phases, Building, MapRule PROVE Building'
  OBVIOUS
<1>1. /\ OfCall /\ policy' = policy /\ pc' = pc /\ pc \in {"te", "cond"}
      /\ type_rules \in [Values -> Seq(NodeSet(Perms))]
  BY DEF Phases, MapRule, Building
<1> DEFINE rest == IF pc = "te" THEN Expanded(policy.te) \ todo
                   ELSE Expanded(policy.te) \cup (Expanded(policy.cond) \ todo)
<1>2. Lists(rest)
  BY <1>1 DEF Building
<1>3. PICK e \in todo :
        todo' = todo \ {e} /\ type_rules' = IF Taken(e) THEN CreateTypeRules(e) ELSE type_rules
  BY DEF MapRule
<1>4. e \in All
  BY <1>1, <1>3 DEF Building, All
<1>5. /\ type_rules' \in [Values -> Seq(NodeSet(Perms))]
      /\ \A t \in Types : Listed1(t, type_rules'[t], rest \cup {e})
  <2>1. CASE Taken(e)
    BY <2>1, <1>1, <1>2, <1>3, <1>4, Created
  <2>2. CASE ~Taken(e)
    <3>1. \A t \in Types : Listed1(t, type_rules[t], rest)
      BY <1>2 DEF Lists
    <3>2. \A t \in Types : Listed1(t, type_rules[t], rest \cup {e})
      BY <3>1, <2>2, NotGiven
    <3> QED
      BY <3>2, <2>2, <1>1, <1>3
  <2> QED
    BY <2>1, <2>2
<1>6. Expanded(policy.te)' = Expanded(policy.te) /\ Expanded(policy.cond)' = Expanded(policy.cond) /\ Perms' = Perms
  BY <1>1, OfPolicy
<1>7. CASE pc = "te"
  <2>1. rest \cup {e} = Expanded(policy.te) \ (todo \ {e}) /\ todo' \subseteq Expanded(policy.te)
    BY <1>7, <1>3 DEF Building
  <2>2. Lists(Expanded(policy.te) \ todo)'
    BY <2>1, <1>3, <1>5, <1>6 DEF Lists
  <2> QED
    BY <2>1, <2>2, <1>1, <1>5, <1>6, <1>7 DEF Building
<1>8. CASE pc = "cond"
  <2>1. /\ rest \cup {e} = Expanded(policy.te) \cup (Expanded(policy.cond) \ (todo \ {e}))
        /\ todo' \subseteq Expanded(policy.cond)
    BY <1>8, <1>3 DEF Building
  <2>2. Lists(Expanded(policy.te) \cup (Expanded(policy.cond) \ todo))'
    BY <2>1, <1>3, <1>5, <1>6 DEF Lists
  <2> QED
    BY <2>1, <2>2, <1>1, <1>5, <1>6, <1>8 DEF Building
<1> QED
  BY <1>1, <1>7, <1>8

LEMMA MappedBuilds == Phases /\ Building /\ Mapped => Building' /\ Comparing'
<1> SUFFICES ASSUME Phases, Building, Mapped PROVE Building' /\ Comparing'
  OBVIOUS
<1>1. /\ OfCall /\ policy' = policy /\ type_rules' = type_rules /\ todo = {}
      /\ i' = i /\ j' = j /\ i = 1 /\ j = 2
      /\ type_rules \in [Values -> Seq(NodeSet(Perms))]
  BY DEF Phases, Mapped, Building, Reading
<1>2. /\ Expanded(policy.te)' = Expanded(policy.te) /\ Expanded(policy.cond)' = Expanded(policy.cond)
      /\ Perms' = Perms /\ \A t : Nodes(t)' = Nodes(t)
  BY <1>1, OfPolicy, NodesOfPolicy
<1>3. CASE pc = "te"
  <2>1. pc' = "cond" /\ todo' = Expanded(policy.cond) /\ Lists(Expanded(policy.te))
    BY <1>1, <1>3 DEF Mapped, Building
  <2>2. Lists(Expanded(policy.te) \cup (Expanded(policy.cond) \ todo))'
    BY <2>1, <1>1, <1>2 DEF Lists
  <2> QED
    BY <2>1, <2>2, <1>1, <1>2 DEF Building, Comparing
<1>4. CASE pc = "cond"
  <2>1. pc' = "compare" /\ Lists(All)
    BY <1>1, <1>4 DEF Mapped, Building, All
  <2>2. ASSUME NEW t \in Types PROVE Canonical(t, type_rules[t])
    BY <2>1, <1>1, FullLists
  <2>3. ASSUME NEW t \in Types PROVE ~Spent(t)' /\ (Canonical(t, type_rules[t]))'
    <3>1. t \in Nat /\ t >= 1
      BY TypesArePositive DEF Values
    <3>2. ~(t < i) /\ ~Prior(t)
      BY <3>1, <1>1, TypesArePositive DEF Prior, Values
    <3>3. ~Spent(t)'
      BY <3>2, <1>1, <1>2 DEF Spent, Prior
    <3>4. (Canonical(t, type_rules[t]))'
      BY <2>2, <1>1, <1>2 DEF Canonical
    <3> QED
      BY <3>3, <3>4
  <2>4. 1 \in 1 .. NPrim /\ 2 \in 2 .. NPrim + 1
    BY PrimAssumption
  <2>5. Comparing'
    BY <2>3, <2>4, <1>1 DEF Comparing
  <2> QED
    BY <2>1, <2>5, <1>1, <1>2 DEF Building
<1> QED
  BY <1>3, <1>4 DEF Mapped


\* the list of a type in the row of which the comparison is, and that of the other
LEMMA RowIsCanonical ==
  ASSUME Comparing, pc = "compare", i \in Types, type_rules[i] # <<>>
  PROVE  ~Spent(i) /\ Canonical(i, type_rules[i]) /\ Nodes(i) # {}
<1>1. ~Spent(i) /\ Canonical(i, type_rules[i])
  BY DEF Comparing
<1>2. type_rules[i] \in Seq(NodeSet(Perms)) /\ ToSet(type_rules[i]) = Nodes(i)
  BY <1>1 DEF Canonical
<1>3. Len(type_rules[i]) # 0
  BY <1>2
<1>4. 1 \in DOMAIN type_rules[i]
  BY <1>2, <1>3
<1>5. type_rules[i][1] \in ToSet(type_rules[i])
  BY <1>4 DEF ToSet
<1> QED
  BY <1>1, <1>2, <1>5

LEMMA CanonicalIsUnique ==
  ASSUME NEW x, NEW y, NEW l1, NEW l2, Canonical(x, l1), Canonical(y, l2)
  PROVE  Same(l1, l2) <=> Nodes(x) = Nodes(y)
<1>1. /\ l1 \in Seq(NodeSet(Perms)) /\ Ascending(l1) /\ ToSet(l1) = Nodes(x)
      /\ l2 \in Seq(NodeSet(Perms)) /\ Ascending(l2) /\ ToSet(l2) = Nodes(y)
  BY DEF Canonical
<1>2. Same(l1, l2) <=> l1 = l2
  BY <1>1, SameIsEqual
<1>3. ToSet(l1) = ToSet(l2) => l1 = l2
  BY <1>1, AscendingIsUnique
<1> QED
  BY <1>1, <1>2, <1>3

LEMMA SameInRow ==
  ASSUME Building, Comparing, pc = "compare", i \in Types, type_rules[i] # <<>>, j \in Types
  PROVE  Same(type_rules[i], type_rules[j]) <=> Nodes(i) = Nodes(j)
<1>1. ~Spent(i) /\ Canonical(i, type_rules[i]) /\ Nodes(i) # {}
  BY RowIsCanonical
<1>2. i \in Nat /\ j \in Nat /\ i < j
  BY TypesArePositive DEF Comparing
<1>3. CASE ~Spent(j)
  <2>1. Canonical(j, type_rules[j])
    BY <1>3 DEF Comparing
  <2> QED
    BY <1>1, <2>1, CanonicalIsUnique
<1>4. CASE Spent(j)
  <2>1. type_rules[j] = <<>>
    BY <1>4 DEF Comparing
  <2>2. /\ type_rules[i] \in Seq(NodeSet(Perms)) /\ type_rules[j] \in Seq(NodeSet(Perms))
    BY TypesArePositive DEF Building
  <2>3. ~Same(type_rules[i], type_rules[j])
    BY <2>1, <2>2, SameIsEqual
  <2>4. PICK z \in Types : z < j /\ (z < i \/ (z = i /\ j < j)) /\ Nodes(z) = Nodes(j)
    BY <1>2, <1>4 DEF Spent, Prior
  <2>5. z < i /\ Nodes(z) = Nodes(j)
    BY <2>4, <1>2
  <2>6. Nodes(z) # Nodes(i)
    BY <1>1, <2>5 DEF Spent, Prior
  <2> QED
    BY <2>3, <2>5, <2>6
<1> QED
  BY <1>3, <1>4

LEMMA CompareBuilds == Phases /\ Building /\ Comparing /\ Compare => Building' /\ Comparing'
<1> SUFFICES ASSUME Phases, Building, Comparing, Compare PROVE Building' /\ Comparing'
  OBVIOUS
<1>1. /\ policy' = policy /\ pc' = pc /\ pc = "compare" /\ i' = i /\ j' = j + 1 /\ i < NPrim /\ j <= NPrim
      /\ type_rules[i] # <<>> /\ i \in Types
      /\ type_rules \in [Values -> Seq(NodeSet(Perms))]
  BY DEF Compare, Building
<1>2. Perms' = Perms /\ \A t : Nodes(t)' = Nodes(t)
  BY <1>1, OfPolicy, NodesOfPolicy
<1>3. i \in 1 .. NPrim /\ j \in i + 1 .. NPrim + 1 /\ j \in Values
  BY <1>1, PrimAssumption DEF Comparing, Values
<1>4. <<>> \in Seq(NodeSet(Perms))
  OBVIOUS
<1>5. /\ type_rules' \in [Values -> Seq(NodeSet(Perms))]
      /\ \A t \in Values : t # j => type_rules'[t] = type_rules[t]
      /\ type_rules'[j] \in {type_rules[j], <<>>}
      /\ j \in Types => (type_rules'[j] = IF Nodes(i) = Nodes(j) THEN <<>> ELSE type_rules[j])
  <2>1. CASE j \in Attributes
    BY <2>1, <1>1, <1>3, <1>4 DEF Compare, Types
  <2>2. CASE j \notin Attributes
    <3>1. j \in Types
      BY <2>2, <1>3 DEF Types
    <3>2. type_rules' = IF Same(type_rules[i], type_rules[j]) THEN [type_rules EXCEPT ![j] = <<>>] ELSE type_rules
      BY <2>2 DEF Compare, Freed
    <3>3. Same(type_rules[i], type_rules[j]) <=> Nodes(i) = Nodes(j)
      BY <1>1, <3>1, SameInRow
    <3> QED
      BY <3>1, <3>2, <3>3, <1>1, <1>3, <1>4
  <2> QED
    BY <2>1, <2>2
<1>6. ASSUME NEW t \in Types
      PROVE  IF Spent(t)' THEN type_rules'[t] = <<>> ELSE (Canonical(t, type_rules[t]))'
  <2>1. IF Spent(t) THEN type_rules[t] = <<>> ELSE Canonical(t, type_rules[t])
    BY <1>1 DEF Comparing
  <2>2. Spent(t)' <=> t < i \/ \E z \in Types : z < t /\ (z < i \/ (z = i /\ t < j + 1)) /\ Nodes(z) = Nodes(t)
    BY <1>1, <1>2 DEF Spent, Prior
  <2>3. Spent(t) <=> t < i \/ \E z \in Types : z < t /\ (z < i \/ (z = i /\ t < j)) /\ Nodes(z) = Nodes(t)
    BY DEF Spent, Prior
  <2>4. t \in Nat /\ t \in Values /\ \A z \in Types : z \in Nat
    BY TypesArePositive
  <2>5. CASE t # j
    <3>1. t < j + 1 <=> t < j
      BY <2>4, <2>5, <1>3
    <3>2. Spent(t)' <=> Spent(t)
      BY <2>2, <2>3, <3>1
    <3>3. type_rules'[t] = type_rules[t]
      BY <2>4, <2>5, <1>5
    <3> QED
      BY <2>1, <3>2, <3>3, <1>2 DEF Canonical
  <2>6. CASE t = j
    <3>1. j \in Types /\ i < j /\ i \in Nat /\ j \in Nat
      BY <2>4, <2>6, <1>3
    <3>2. Spent(t)' <=> Spent(t) \/ Nodes(i) = Nodes(t)
      <4>1. ~(t < i) /\ ~(t < j) /\ t < j + 1 /\ i < t
        BY <2>6, <3>1
      <4>2. Spent(t)' <=> \E z \in Types : z < t /\ (z < i \/ z = i) /\ Nodes(z) = Nodes(t)
        BY <2>2, <4>1
      <4>3. Spent(t) <=> \E z \in Types : z < t /\ z < i /\ Nodes(z) = Nodes(t)
        BY <2>3, <4>1
      <4> QED
        BY <4>1, <4>2, <4>3, <1>1
    <3>3. CASE Nodes(i) = Nodes(j)
      <4>1. type_rules'[t] = <<>> /\ Spent(t)'
        BY <3>1, <3>2, <3>3, <1>5, <2>6
      <4> QED
        BY <4>1
    <3>4. CASE Nodes(i) # Nodes(j)
      <4>1. type_rules'[t] = type_rules[t] /\ (Spent(t)' <=> Spent(t))
        BY <3>1, <3>2, <3>4, <1>5, <2>6
      <4> QED
        BY <4>1, <2>1, <1>2 DEF Canonical
    <3> QED
      BY <3>3, <3>4
  <2> QED
    BY <2>5, <2>6
<1>7. i' \in 1 .. NPrim /\ j' \in i' + 1 .. NPrim + 1
  <2>1. i \in Nat /\ j \in Nat /\ NPrim \in Nat /\ i >= 1 /\ j >= i + 1
    BY <1>3, PrimAssumption
  <2> QED
    BY <2>1, <1>1
<1>8. Comparing'
  BY <1>6, <1>7 DEF Comparing
<1> QED
  BY <1>1, <1>2, <1>5, <1>8 DEF Building


LEMMA NoNodesNoList ==
  ASSUME NEW t, NEW list, Canonical(t, list), Nodes(t) = {}
  PROVE  list = <<>>
<1>1. list \in Seq(NodeSet(Perms)) /\ ToSet(list) = {}
  BY DEF Canonical
<1>2. ASSUME Len(list) # 0 PROVE FALSE
  <2>1. 1 \in DOMAIN list
    BY <1>1, <1>2
  <2> QED
    BY <1>1, <2>1 DEF ToSet
<1> QED
  BY <1>1, <1>2

LEMMA RowIsFreed ==
  ASSUME Comparing, pc = "compare", i \in Types, j > NPrim \/ type_rules[i] = <<>>,
         NEW t \in Types, i < t, Nodes(i) = Nodes(t)
  PROVE  type_rules[t] = <<>>
<1>1. /\ i \in Nat /\ j \in Nat /\ t \in Nat /\ t <= NPrim /\ NPrim \in Nat
  BY TypesArePositive, PrimAssumption DEF Comparing, Values
<1>2. CASE j > NPrim
  <2>1. Prior(t)
    <3>1. t < j
      BY <1>1, <1>2
    <3> QED
      BY <3>1 DEF Prior
  <2> QED
    BY <2>1 DEF Comparing, Spent
<1>3. CASE type_rules[i] = <<>> /\ Spent(i)
  <2>1. PICK z \in Types : z < i /\ Nodes(z) = Nodes(i)
    BY <1>1, <1>3 DEF Spent, Prior
  <2>2. z < t
    <3>1. z \in Nat
      BY TypesArePositive
    <3>2. z < i /\ i < t
      BY <2>1
    <3> QED
      BY <1>1, <3>1, <3>2
  <2>3. Prior(t)
    BY <2>1, <2>2 DEF Prior
  <2> QED
    BY <2>3 DEF Comparing, Spent
<1>4. CASE type_rules[i] = <<>> /\ ~Spent(i)
  <2>1. Canonical(i, <<>>)
    BY <1>4 DEF Comparing
  <2>2. ToSet(<<>>) = {}
    BY DEF ToSet
  <2>3. Nodes(t) = {}
    BY <2>1, <2>2 DEF Canonical
  <2>4. CASE Spent(t)
    BY <2>4 DEF Comparing
  <2>5. CASE ~Spent(t)
    <3>1. Canonical(t, type_rules[t])
      BY <2>5 DEF Comparing
    <3> QED
      BY <3>1, <2>3, NoNodesNoList
  <2> QED
    BY <2>4, <2>5
<1> QED
  BY <1>2, <1>3, <1>4

LEMMA NextRowBuilds == Phases /\ Building /\ Comparing /\ NextRow => Building' /\ Comparing'
<1> SUFFICES ASSUME Phases, Building, Comparing, NextRow PROVE Building' /\ Comparing'
  OBVIOUS
<1>1. /\ policy' = policy /\ pc' = pc /\ pc = "compare" /\ i' = i + 1 /\ j' = i + 2 /\ i < NPrim
      /\ j > NPrim \/ type_rules[i] = <<>> \/ i \in Attributes
      /\ type_rules' = [type_rules EXCEPT ![i] = <<>>]
      /\ type_rules \in [Values -> Seq(NodeSet(Perms))]
  BY DEF NextRow, Building
<1>2. Perms' = Perms /\ \A t : Nodes(t)' = Nodes(t)
  BY <1>1, OfPolicy, NodesOfPolicy
<1>3. i \in 1 .. NPrim /\ j \in i + 1 .. NPrim + 1 /\ i \in Values /\ i \in Nat /\ NPrim \in Nat
  BY <1>1, PrimAssumption DEF Comparing, Values
<1>4. <<>> \in Seq(NodeSet(Perms))
  OBVIOUS
<1>5. /\ type_rules' \in [Values -> Seq(NodeSet(Perms))]
      /\ type_rules'[i] = <<>>
      /\ \A t \in Values : t # i => type_rules'[t] = type_rules[t]
  BY <1>1, <1>3, <1>4
<1>6. ASSUME NEW t \in Types
      PROVE  IF Spent(t)' THEN type_rules'[t] = <<>> ELSE (Canonical(t, type_rules[t]))'
  <2>1. IF Spent(t) THEN type_rules[t] = <<>> ELSE Canonical(t, type_rules[t])
    BY <1>1 DEF Comparing
  <2>2. Spent(t)' <=> t < i + 1 \/ \E z \in Types : z < t /\ (z < i + 1 \/ (z = i + 1 /\ t < i + 2)) /\ Nodes(z) = Nodes(t)
    BY <1>1, <1>2 DEF Spent, Prior
  <2>3. t \in Nat /\ t \in Values /\ \A z \in Types : z \in Nat
    BY TypesArePositive
  <2>4. CASE t < i
    <3>1. Spent(t) /\ Spent(t)' /\ t # i
      BY <2>2, <2>3, <2>4, <1>3 DEF Spent
    <3> QED
      BY <3>1, <2>1, <2>3, <1>5
  <2>5. CASE t = i
    <3>1. Spent(t)'
      BY <2>2, <2>3, <2>5, <1>3
    <3> QED
      BY <3>1, <2>5, <1>5
  <2>6. CASE t > i
    <3>1. type_rules'[t] = type_rules[t] /\ ~(t < i + 1) /\ ~(t < i)
      BY <2>3, <2>6, <1>3, <1>5
    <3>2. ASSUME Spent(t) PROVE Spent(t)'
      <4>1. PICK z \in Types : z < t /\ (z < i \/ z = i) /\ Nodes(z) = Nodes(t)
        BY <3>1, <3>2 DEF Spent, Prior
      <4>2. z < i + 1
        BY <4>1, <2>3, <1>3
      <4> QED
        BY <4>1, <4>2, <2>2
    <3>3. ASSUME Spent(t)' PROVE type_rules[t] = <<>>
      <4>1. PICK z \in Types : z < t /\ (z < i + 1 \/ (z = i + 1 /\ t < i + 2)) /\ Nodes(z) = Nodes(t)
        BY <3>1, <3>3, <2>2
      <4>2. z < i \/ z = i
        BY <4>1, <2>3, <1>3
      <4>3. CASE z < i
        <5>1. Spent(t)
          BY <4>1, <4>3 DEF Spent, Prior
        <5> QED
          BY <5>1, <2>1
      <4>4. CASE z = i
        <5>1. i \in Types /\ i < t /\ Nodes(i) = Nodes(t) /\ (j > NPrim \/ type_rules[i] = <<>>)
          BY <4>1, <4>4, <1>1 DEF Types
        <5> QED
          BY <5>1, <1>1, RowIsFreed
      <4> QED
        BY <4>2, <4>3, <4>4
    <3> QED
      BY <3>1, <3>2, <3>3, <2>1, <1>2 DEF Canonical
  <2> QED
    BY <2>3, <2>4, <2>5, <2>6, <1>3
<1>7. i' \in 1 .. NPrim /\ j' \in i' + 1 .. NPrim + 1
  BY <1>1, <1>3
<1>8. Comparing'
  BY <1>6, <1>7 DEF Comparing
<1> QED
  BY <1>1, <1>2, <1>5, <1>8 DEF Building

LEMMA NextBuilding == Phases /\ Building /\ Comparing /\ [Next]_vars => Building' /\ Comparing'
<1> SUFFICES ASSUME Phases, Building, Comparing, [Next]_vars PROVE Building' /\ Comparing'
  OBVIOUS
<1>1. CASE Main
  <2>1. /\ policy' = policy /\ type_rules' = type_rules /\ pc = "main"
        /\ pc' \in {"done", "te", "dups"} \cup Listing
    <3>1. request.component \in Components
      BY ComponentIsOne DEF Phases
    <3> QED
      BY <1>1, <3>1 DEF Main, Exit, Components, Listing
  <2>2. /\ Expanded(policy.te)' = Expanded(policy.te) /\ Perms' = Perms
    BY <2>1, OfPolicy
  <2>3. ASSUME pc' = "te" PROVE todo' = Expanded(policy.te)
    <3>1. ~(Unreadable \/ request.component = "none" \/ Misused)
      BY <1>1, <2>3 DEF Main, Exit
    <3>2. request.component = "typecmp"
      BY <1>1, <2>3, <3>1, ComponentIsOne DEF Main, Phases, Components
    <3> QED
      BY <1>1, <3>1, <3>2 DEF Main
  <2>4. ASSUME pc' = "te" PROVE Lists(Expanded(policy.te) \ todo)'
    <3>1. Lists({})
      BY <2>1, EmptyLists DEF Building
    <3>2. Expanded(policy.te)' \ todo' = {}
      BY <2>2, <2>3, <2>4
    <3> QED
      BY <3>1, <3>2, <2>1 DEF Lists
  <2>5. Building'
    BY <2>1, <2>2, <2>3, <2>4 DEF Building, Listing
  <2> QED
    BY <2>1, <2>5 DEF Comparing, Listing
<1>2. CASE MapRule
  <2>1. pc' # "compare"
    BY <1>2 DEF MapRule
  <2> QED
    BY <1>2, <2>1, MapRuleBuilds DEF Comparing
<1>3. CASE Mapped
  BY <1>3, MappedBuilds
<1>4. CASE Compare
  BY <1>4, CompareBuilds
<1>5. CASE NextRow
  BY <1>5, NextRowBuilds
<1>6. CASE Compared \/ DupsFound \/ FindDups \/ ListAllAttributes \/ NoName \/ ListAttribute \/ ListPermissive \/ ListBooleans
  <2>1. policy' = policy /\ type_rules' = type_rules /\ pc' \in {"done", "dups"}
    <3>1. CASE Compared
      BY <3>1 DEF Compared, Exit
    <3>2. CASE DupsFound
      BY <3>2 DEF DupsFound, Exit
    <3>3. CASE FindDups
      BY <3>3 DEF FindDups
    <3>4. CASE ListAllAttributes
      BY <3>4 DEF ListAllAttributes, List, Exit
    <3>5. CASE NoName
      BY <3>5 DEF NoName, Refuse, Exit
    <3>6. CASE ListAttribute
      BY <3>6 DEF ListAttribute, List, Refuse, Exit
    <3>7. CASE ListPermissive \/ ListBooleans
      BY <3>7 DEF ListPermissive, ListBooleans, List, Exit
    <3> QED
      BY <1>6, <3>1, <3>2, <3>3, <3>4, <3>5, <3>6, <3>7
  <2>2. Perms' = Perms
    BY <2>1, OfPolicy
  <2> QED
    BY <2>1, <2>2 DEF Building, Comparing
<1>7. CASE UNCHANGED vars
  <2>1. UNCHANGED <<policy, type_rules, pc, todo, i, j>>
    BY <1>7 DEF vars
  <2>2. /\ Perms' = Perms /\ \A t : Nodes(t)' = Nodes(t)
        /\ Expanded(policy.te)' = Expanded(policy.te) /\ Expanded(policy.cond)' = Expanded(policy.cond)
    BY <2>1, OfPolicy, NodesOfPolicy
  <2>3. Building'
    BY <2>1, <2>2 DEF Building, Lists
  <2>4. Comparing'
    BY <2>1, <2>2 DEF Comparing, Spent, Prior, Canonical
  <2> QED
    BY <2>3, <2>4
<1> QED
  BY <1>1, <1>2, <1>3, <1>4, <1>5, <1>6, <1>7 DEF Next

-----------------------------------------------------------------------------
(***************************************************************************)
(* What is reported.                                                       *)
(***************************************************************************)
Granted(s) == s.perms \subseteq Access(s.source, s.target, s.class)
ListOf(t, list) == list \in Seq(NodeSet(Perms)) /\ ToSet(list) \subseteq Nodes(t)

LEMMA ListsAreOfTypes ==
  ASSUME Building, Comparing, pc = "compare", NEW t \in Types
  PROVE  ListOf(t, type_rules[t])
<1>1. type_rules[t] \in Seq(NodeSet(Perms))
  BY TypesArePositive DEF Building
<1>2. CASE Spent(t)
  <2>1. type_rules[t] = <<>>
    BY <1>2 DEF Comparing
  <2>2. ToSet(<<>>) = {}
    BY DEF ToSet
  <2> QED
    BY <1>1, <2>1, <2>2 DEF ListOf
<1>3. CASE ~Spent(t)
  BY <1>1, <1>3 DEF Comparing, Canonical, ListOf
<1> QED
  BY <1>2, <1>3

LEMMA NodesOfList ==
  ASSUME NEW t \in Types, NEW list, ListOf(t, list), NEW p \in 1 .. Len(list)
  PROVE  list[p] \in NodeSet(Perms) /\ list[p] \in Nodes(t)
<1>1. list \in Seq(NodeSet(Perms)) /\ ToSet(list) \subseteq Nodes(t)
  BY DEF ListOf
<1>2. p \in DOMAIN list
  BY <1>1
<1>3. list[p] \in ToSet(list)
  BY <1>2 DEF ToSet
<1> QED
  BY <1>1, <1>2, <1>3

LEMMA NodeIsGranted ==
  ASSUME NEW t \in Types, NEW n \in NodeSet(Perms), n \in Nodes(t), NEW e, e \subseteq n.perms
  PROVE  Granted(ShownPart(n, t, e)) /\ Granted(Shown(n, t))
<1> DEFINE s == IF n.source = 0 THEN t ELSE n.source
           u == IF n.target = 0 THEN t ELSE n.target
           Out(perms) == [source |-> s, target |-> u, class |-> n.class, perms |-> perms]
<1>1. n.perms = Access(s, u, n.class)
  BY NodesOfKind
<1>2. Shown(n, t) = Out(n.perms)
  BY DEF Shown
<1>3. ShownPart(n, t, e) = Out(e)
  <2>1. [n EXCEPT !.perms = e] =
           [source |-> n.source, target |-> n.target, class |-> n.class, perms |-> e]
    BY PermsReplaced
  <2> QED
    BY <2>1 DEF ShownPart, Shown
<1>4. \A perms : Out(perms).perms = perms /\ Out(perms).source = s /\ Out(perms).target = u /\ Out(perms).class = n.class
  OBVIOUS
<1> HIDE DEF Out, s, u
<1> QED
  BY <1>1, <1>2, <1>3, <1>4 DEF Granted

LEMMA MatchIsGranted ==
  ASSUME NEW x \in Types, NEW y \in Types, NEW n \in NodeSet(Perms), n \in Nodes(x),
         NEW list, ListOf(y, list), NEW k \in 1 .. Len(list) + 1, NEW s \in Match(n, x, list, k, y)
  PROVE  Granted(s)
<1> DEFINE p == Place(n, list, k)
<1>1. list \in Seq(NodeSet(Perms))
  BY DEF ListOf
<1>2. p \in k .. Len(list) + 1
  BY <1>1, PlaceIsFirst
<1>3. /\ ~(p > Len(list))
      /\ \/ s = ShownPart(n, x, n.perms \ list[p].perms)
         \/ s = ShownPart(list[p], y, list[p].perms \ n.perms)
  BY DEF Match
<1>4. p \in 1 .. Len(list)
  BY <1>1, <1>2, <1>3
<1> HIDE DEF p
<1>5. list[p] \in NodeSet(Perms) /\ list[p] \in Nodes(y)
  BY <1>4, NodesOfList
<1>6. n.perms \ list[p].perms \subseteq n.perms /\ list[p].perms \ n.perms \subseteq list[p].perms
  OBVIOUS
<1>7. Granted(ShownPart(n, x, n.perms \ list[p].perms))
  BY <1>6, NodeIsGranted
<1>8. Granted(ShownPart(list[p], y, list[p].perms \ n.perms))
  BY <1>5, <1>6, NodeIsGranted
<1> QED
  BY <1>3, <1>7, <1>8

LEMMA DifferenceIsGranted ==
  ASSUME i \in Types, j \in Types, NEW l1, NEW l2, ListOf(i, l1), ListOf(j, l2),
         NEW s \in StartingWith(l1, l2)
  PROVE  Granted(s)
<1> DEFINE p == Differ(l1, l2)
           one == IF p > Len(l1) THEN {} ELSE {Shown(l1[p], i)}
           two == IF p > Len(l2) THEN {} ELSE {Shown(l2[p], j)}
<1>1. /\ l1 \in Seq(NodeSet(Perms)) /\ l2 \in Seq(NodeSet(Perms))
      /\ Len(l1) \in Nat /\ Len(l2) \in Nat
  BY DEF ListOf
<1>2. p \in 1 .. Len(l1) + 1
  BY <1>1, DifferIsFirst
<1>3. ASSUME ~(p > Len(l1))
      PROVE  p \in 1 .. Len(l1) /\ l1[p] \in NodeSet(Perms) /\ l1[p] \in Nodes(i)
  <2>1. p \in 1 .. Len(l1)
    BY <1>1, <1>2, <1>3
  <2> QED
    BY <2>1, NodesOfList
<1>4. ASSUME ~(p > Len(l2))
      PROVE  p \in 1 .. Len(l2) /\ l2[p] \in NodeSet(Perms) /\ l2[p] \in Nodes(j)
  <2>1. p \in 1 .. Len(l2)
    BY <1>1, <1>2, <1>4
  <2> QED
    BY <2>1, NodesOfList
<1>5. \/ s \in one \/ s \in two
      \/ one # {} /\ two # {} /\ (s \in Match(l1[p], i, l2, p, j) \/ s \in Match(l2[p], j, l1, p, i))
  BY DEF StartingWith
<1> HIDE DEF p
<1>6. CASE s \in one
  <2>1. ~(p > Len(l1)) /\ s = Shown(l1[p], i)
    BY <1>6
  <2> QED
    BY <2>1, <1>3, NodeIsGranted
<1>7. CASE s \in two
  <2>1. ~(p > Len(l2)) /\ s = Shown(l2[p], j)
    BY <1>7
  <2> QED
    BY <2>1, <1>4, NodeIsGranted
<1>8. CASE one # {} /\ two # {} /\ (s \in Match(l1[p], i, l2, p, j) \/ s \in Match(l2[p], j, l1, p, i))
  <2>1. ~(p > Len(l1)) /\ ~(p > Len(l2))
    BY <1>8
  <2>2. p \in 1 .. Len(l1) + 1 /\ p \in 1 .. Len(l2) + 1
    BY <2>1, <1>1, <1>3, <1>4
  <2>3. /\ l1[p] \in NodeSet(Perms) /\ l1[p] \in Nodes(i)
        /\ l2[p] \in NodeSet(Perms) /\ l2[p] \in Nodes(j)
    BY <2>1, <1>3, <1>4
  <2>4. CASE s \in Match(l1[p], i, l2, p, j)
    BY <2>2, <2>3, <2>4, MatchIsGranted
  <2>5. CASE s \in Match(l2[p], j, l1, p, i)
    BY <2>2, <2>3, <2>5, MatchIsGranted
  <2> QED
    BY <1>8, <2>4, <2>5
<1> QED
  BY <1>5, <1>6, <1>7, <1>8


RightReport(r) ==
  /\ (r.is = "equivalent") = Equivalent(r.i, r.j)
  /\ \A s \in r.shown : Granted(s)

LEMMA VerdictsStayRight ==
  ASSUME policy' = policy, VerdictsRight,
         \A r \in printed' : r \in printed \/ "is" \notin DOMAIN r \/ RightReport(r)
  PROVE  VerdictsRight'
<1> SUFFICES ASSUME NEW r \in printed', "is" \in DOMAIN r
             PROVE  (/\ (r.is = "equivalent") = (Alike(r.i, r.j) /\ ~Between(r.i, r.j))
                     /\ \A s \in r.shown : s.perms \subseteq Access(s.source, s.target, s.class))'
  BY DEF VerdictsRight
<1>1. RightReport(r)
  BY DEF VerdictsRight, RightReport, Equivalent, Granted
<1>2. /\ \A s, t, c : Access(s, t, c)' = Access(s, t, c)
      /\ Classes' = Classes
  BY OfPolicy
<1>3. (Alike(r.i, r.j))' = Alike(r.i, r.j) /\ (Between(r.i, r.j))' = Between(r.i, r.j)
  BY <1>2 DEF Alike, Between
<1> QED
  BY <1>1, <1>2, <1>3 DEF RightReport, Equivalent, Granted

\* the comparison reports what it was asked for, and nothing else
LEMMA CompareReports ==
  ASSUME Building, Comparing, Compare
  PROVE  /\ i \in Types /\ printed \subseteq printed'
         /\ \A r \in printed' : r \in printed \/ RightReport(r)
         /\ j \in Types => IF Nodes(i) = Nodes(j)
                           THEN Asked("e") => Report("equivalent", i, j, {}) \in printed'
                           ELSE Asked("d") => \E sh : Report("differ", i, j, sh) \in printed'
<1>1. /\ pc = "compare" /\ i \in Types /\ type_rules[i] # <<>> /\ j <= NPrim
  BY DEF Compare
<1>2. i \in Nat /\ j \in Nat /\ i < j /\ j \in Values
  BY <1>1, TypesArePositive, PrimAssumption DEF Comparing, Values
<1>3. CASE j \in Attributes
  BY <1>1, <1>3 DEF Compare, Types
<1>4. CASE j \notin Attributes
  <2> DEFINE same == Same(type_rules[i], type_rules[j])
             diff == StartingWith(type_rules[i], type_rules[j])
  <2>1. j \in Types /\ i # j
    BY <1>2, <1>4 DEF Types
  <2>2. same <=> Nodes(i) = Nodes(j)
    BY <1>1, <2>1, SameInRow
  <2>3. same <=> Equivalent(i, j)
    BY <1>1, <2>1, <2>2, SameNodes
  <2>4. \A s \in diff : Granted(s)
    <3>1. ListOf(i, type_rules[i]) /\ ListOf(j, type_rules[j])
      BY <1>1, <2>1, ListsAreOfTypes
    <3> QED
      BY <1>1, <2>1, <3>1, DifferenceIsGranted
  <2>5. printed' = printed \cup
                   (IF same /\ Asked("e") THEN {Report("equivalent", i, j, {})}
                    ELSE IF ~same /\ Asked("d") THEN {Report("differ", i, j, diff)} ELSE {})
    BY <1>4 DEF Compare
  <2>6. ASSUME same PROVE RightReport(Report("equivalent", i, j, {}))
    BY <2>3, <2>6 DEF RightReport, Report
  <2>7. ASSUME ~same PROVE RightReport(Report("differ", i, j, diff))
    <3>1. (Report("differ", i, j, diff).is = "equivalent") = FALSE
      BY DEF Report
    <3>2. Equivalent(Report("differ", i, j, diff).i, Report("differ", i, j, diff).j) = Equivalent(i, j)
      BY DEF Report
    <3>3. Report("differ", i, j, diff).shown = diff
      BY DEF Report
    <3>4. ~Equivalent(i, j)
      BY <2>3, <2>7
    <3>5. Equivalent(i, j) = FALSE
      BY <3>4 DEF Equivalent
    <3> QED
      BY <3>1, <3>2, <3>3, <3>5, <2>4 DEF RightReport
  <2> HIDE DEF same, diff
  <2>8. \A r \in printed' : r \in printed \/ RightReport(r)
    BY <2>5, <2>6, <2>7
  <2>9. IF Nodes(i) = Nodes(j)
        THEN Asked("e") => Report("equivalent", i, j, {}) \in printed'
        ELSE Asked("d") => \E sh : Report("differ", i, j, sh) \in printed'
    BY <2>2, <2>5
  <2> QED
    BY <1>1, <2>5, <2>8, <2>9
<1> QED
  BY <1>3, <1>4

LEMMA OthersReport ==
  ASSUME Main \/ MapRule \/ Mapped \/ NextRow \/ Compared \/ DupsFound \/ NoName \/ UNCHANGED vars
  PROVE  policy' = policy /\ printed' = printed
BY DEF Main, MapRule, Mapped, NextRow, Compared, DupsFound, NoName, Refuse, vars

LEMMA OthersList ==
  ASSUME FindDups \/ ListAllAttributes \/ ListAttribute \/ ListPermissive \/ ListBooleans
  PROVE  policy' = policy /\ \A r \in printed' : r \in printed \/ "is" \notin DOMAIN r
<1>1. CASE FindDups
  <2>1. \A r \in printed' : r \in printed \/ \E q, n : r = [rule |-> q, by |-> n]
    BY <1>1 DEF FindDups
  <2> QED
    BY <1>1, <2>1 DEF FindDups
<1>2. CASE ListAllAttributes \/ ListAttribute \/ ListPermissive \/ ListBooleans
  <2>1. policy' = policy /\ (printed' = printed \/ \E what : printed' = {[name |-> n] : n \in what})
    <3>6. policy' = policy
      BY <1>2 DEF ListAllAttributes, ListAttribute, ListPermissive, ListBooleans, Refuse, List
    <3>1. \A w : printed' = {[name |-> n] : n \in w} => \E what : printed' = {[name |-> n] : n \in what}
      OBVIOUS
    <3>2. CASE ListAllAttributes
      <4>1. printed' = {[name |-> n] : n \in Attributes}
        BY <3>2 DEF ListAllAttributes, List
      <4> QED
        BY <3>1, <4>1, <3>6
    <3>3. CASE ListAttribute
      <4>1. \/ printed' = printed
            \/ printed' = {[name |-> n] : n \in {NameAt(b) : b \in TypeAttrBits(FirstName)} \ {FirstName}}
            \/ printed' = {[name |-> n] : n \in {NameAt(b) : b \in AttrTypeMap(FirstName)}}
        BY <3>3 DEF ListAttribute, List, Refuse
      <4> QED
        BY <3>1, <4>1, <3>6
    <3>4. CASE ListPermissive
      <4>1. printed' = {[name |-> n] : n \in {Permissive(b) : b \in policy.permissive}}
        BY <3>4 DEF ListPermissive, List
      <4> QED
        BY <3>1, <4>1, <3>6
    <3>5. CASE ListBooleans
      <4>1. printed' = {[name |-> n] : n \in policy.bools}
        BY <3>5 DEF ListBooleans, List
      <4> QED
        BY <3>1, <4>1, <3>6
    <3> QED
      BY <1>2, <3>2, <3>3, <3>4, <3>5, <3>6
  <2>2. CASE printed' = printed
    BY <2>1, <2>2
  <2>3. CASE \E what : printed' = {[name |-> n] : n \in what}
    <3>1. PICK what : printed' = {[name |-> n] : n \in what}
      BY <2>3
    <3>2. \A n : DOMAIN [name |-> n] = {"name"}
      OBVIOUS
    <3> QED
      BY <2>1, <3>1, <3>2
  <2> QED
    BY <2>1, <2>2, <2>3
<1> QED
  BY <1>1, <1>2

LEMMA InitVerdicts == Init => VerdictsRight
BY DEF Init, VerdictsRight

LEMMA NextVerdicts == Building /\ Comparing /\ VerdictsRight /\ [Next]_vars => VerdictsRight'
<1> SUFFICES ASSUME Building, Comparing, VerdictsRight, [Next]_vars PROVE VerdictsRight'
  OBVIOUS
<1>1. policy' = policy /\ \A r \in printed' : r \in printed \/ "is" \notin DOMAIN r \/ RightReport(r)
  <2>1. CASE Compare
    <3>1. policy' = policy
      BY <2>1 DEF Compare
    <3>2. \A r \in printed' : r \in printed \/ RightReport(r)
      BY <2>1, CompareReports
    <3> QED
      BY <3>1, <3>2
  <2>2. CASE Main \/ MapRule \/ Mapped \/ NextRow \/ Compared \/ DupsFound \/ NoName \/ UNCHANGED vars
    BY <2>2, OthersReport
  <2>3. CASE FindDups \/ ListAllAttributes \/ ListAttribute \/ ListPermissive \/ ListBooleans
    BY <2>3, OthersList
  <2> QED
    BY <2>1, <2>2, <2>3 DEF Next
<1> QED
  BY <1>1, VerdictsStayRight

-----------------------------------------------------------------------------
(***************************************************************************)
(* No pair is lost.                                                        *)
(***************************************************************************)
FirstOfKind(x) == \A z \in Types : z < x => Nodes(z) # Nodes(x)
Accounted(x, y) ==
  Nodes(x) # {} /\ FirstOfKind(x) =>
    IF Nodes(x) = Nodes(y) THEN Asked("e") => <<x, y>> \in Reports("equivalent")
    ELSE Asked("d") => <<x, y>> \in Reports("differ")
Passed(x, y) == x < i \/ (x = i /\ y < j)
Accounts ==
  /\ pc = "compare"  => \A x, y \in Types : x < y /\ Passed(x, y) => Accounted(x, y)
  /\ Done("typecmp") => \A x, y \in Types : x < y => Accounted(x, y)

LEMMA StillAccounted ==
  ASSUME policy' = policy, request' = request, printed \subseteq printed',
         NEW x, NEW y, Accounted(x, y)
  PROVE  Accounted(x, y)'
<1>1. \A t : Nodes(t)' = Nodes(t)
  BY NodesOfPolicy
<1>2. Asked("e")' = Asked("e") /\ Asked("d")' = Asked("d")
  BY DEF Asked
<1>3. \A is : Reports(is) \subseteq Reports(is)'
  BY DEF Reports
<1> QED
  BY <1>1, <1>2, <1>3 DEF Accounted, FirstOfKind

LEMMA CompareAccounts == Building /\ Comparing /\ Accounts /\ Compare => Accounts'
<1> SUFFICES ASSUME Building, Comparing, Accounts, Compare PROVE Accounts'
  OBVIOUS
<1>1. /\ policy' = policy /\ request' = request /\ pc = "compare" /\ pc' = pc
      /\ i' = i /\ j' = j + 1 /\ i \in Types /\ type_rules[i] # <<>>
  BY DEF Compare
<1>2. printed \subseteq printed'
  BY CompareReports
<1>3. i \in Nat /\ j \in Nat
  BY <1>1, TypesArePositive, PrimAssumption DEF Comparing
<1>4. ASSUME NEW x \in Types, NEW y \in Types, x < y, Passed(x, y)' PROVE Accounted(x, y)'
  <2>1. x \in Nat /\ y \in Nat
    BY TypesArePositive
  <2>2. CASE Passed(x, y)
    <3>1. Accounted(x, y)
      BY <1>1, <1>4, <2>2 DEF Accounts
    <3> QED
      BY <3>1, <1>1, <1>2, StillAccounted
  <2>3. CASE ~Passed(x, y)
    <3>1. x = i /\ y = j
      BY <2>1, <2>3, <1>1, <1>3, <1>4 DEF Passed
    <3>2. IF Nodes(i) = Nodes(j)
          THEN Asked("e") => Report("equivalent", i, j, {}) \in printed'
          ELSE Asked("d") => \E sh : Report("differ", i, j, sh) \in printed'
      BY <3>1, CompareReports
    <3>3. IF Nodes(x) = Nodes(y)
          THEN Asked("e") => Report("equivalent", x, y, {}) \in printed'
          ELSE Asked("d") => \E sh : Report("differ", x, y, sh) \in printed'
      BY <3>1, <3>2
    <3>4. \A t : Nodes(t)' = Nodes(t)
      BY <1>1, NodesOfPolicy
    <3>5. Asked("e")' = Asked("e") /\ Asked("d")' = Asked("d")
      BY <1>1 DEF Asked
    <3>6. ASSUME NEW is, NEW sh, Report(is, x, y, sh) \in printed'
          PROVE  <<x, y>> \in Reports(is)'
      <4> DEFINE r == Report(is, x, y, sh)
      <4>1. "is" \in DOMAIN r /\ r.is = is /\ r.i = x /\ r.j = y
        BY DEF Report
      <4>2. r \in printed'
        BY <3>6
      <4> HIDE DEF r
      <4> QED
        BY <4>1, <4>2 DEF Reports
    <3> QED
      BY <3>3, <3>4, <3>5, <3>6 DEF Accounted
  <2> QED
    BY <2>2, <2>3
<1> QED
  BY <1>1, <1>4 DEF Accounts, Done

LEMMA NextRowAccounts == Building /\ Comparing /\ Accounts /\ NextRow => Accounts'
<1> SUFFICES ASSUME Building, Comparing, Accounts, NextRow PROVE Accounts'
  OBVIOUS
<1>1. /\ policy' = policy /\ request' = request /\ pc = "compare" /\ pc' = pc
      /\ i' = i + 1 /\ j' = i + 2 /\ printed' = printed
      /\ j > NPrim \/ type_rules[i] = <<>> \/ i \in Attributes
  BY DEF NextRow
<1>2. i \in Nat /\ j \in Nat /\ NPrim \in Nat
  BY <1>1, PrimAssumption DEF Comparing
<1>3. ASSUME NEW x \in Types, NEW y \in Types, x < y, Passed(x, y)' PROVE Accounted(x, y)'
  <2>1. x \in Nat /\ y \in Nat /\ y <= NPrim
    BY TypesArePositive, <1>2
  <2>2. x < i \/ x = i
    BY <1>1, <1>2, <1>3, <2>1 DEF Passed
  <2>3. CASE Passed(x, y)
    <3>1. Accounted(x, y)
      BY <1>1, <1>3, <2>3 DEF Accounts
    <3> QED
      BY <3>1, <1>1, StillAccounted
  <2>4. CASE ~Passed(x, y)
    <3>1. x = i /\ type_rules[i] = <<>> /\ i \in Types
      <4>1. x = i /\ ~(y < j)
        BY <2>2, <2>4 DEF Passed
      <4>2. ~(j > NPrim)
        BY <4>1, <2>1, <1>2
      <4> QED
        BY <4>1, <4>2, <1>1 DEF Types
    <3>2. Nodes(x) = {} \/ ~FirstOfKind(x)
      <4>1. CASE Spent(i)
        <5>1. PICK z \in Types : z < i /\ Nodes(z) = Nodes(i)
          BY <4>1, <1>2 DEF Spent, Prior
        <5> QED
          BY <5>1, <3>1 DEF FirstOfKind
      <4>2. CASE ~Spent(i)
        <5>1. Canonical(i, <<>>)
          BY <4>2, <3>1, <1>1 DEF Comparing
        <5>2. ToSet(<<>>) = {}
          BY DEF ToSet
        <5> QED
          BY <5>1, <5>2, <3>1 DEF Canonical
      <4> QED
        BY <4>1, <4>2
    <3>3. Accounted(x, y)
      BY <3>2 DEF Accounted
    <3> QED
      BY <3>3, <1>1, StillAccounted
  <2> QED
    BY <2>3, <2>4
<1> QED
  BY <1>1, <1>3 DEF Accounts, Done

LEMMA InitAccounts == Init => Accounts
BY DEF Init, Accounts, Done

LEMMA NextAccounts == Phases /\ Building /\ Comparing /\ Accounts /\ [Next]_vars => Accounts'
<1> SUFFICES ASSUME Phases, Building, Comparing, Accounts, [Next]_vars PROVE Accounts'
  OBVIOUS
<1>1. CASE Main
  <2>1. pc' # "compare" /\ status' # 0
    <3>1. request.component \in Components
      BY ComponentIsOne DEF Phases
    <3> QED
      BY <1>1, <3>1 DEF Main, Exit, Components, Phases, Running
  <2> QED
    BY <2>1 DEF Accounts, Done
<1>2. CASE MapRule
  BY <1>2 DEF MapRule, Accounts, Done
<1>3. CASE Mapped
  <2>1. i' = 1 /\ j' = 2 /\ pc' # "done"
    BY <1>3 DEF Mapped, Phases, Reading
  <2>2. ASSUME NEW x \in Types, NEW y \in Types, x < y PROVE ~Passed(x, y)'
    <3>1. x \in Nat /\ y \in Nat /\ x # 0
      BY TypesArePositive
    <3>2. ~(x < 1) /\ ~(x = 1 /\ y < 2)
      BY <3>1, <2>2
    <3> QED
      BY <3>2, <2>1 DEF Passed
  <2> QED
    BY <2>1, <2>2 DEF Accounts, Done
<1>4. CASE Compare
  BY <1>4, CompareAccounts
<1>5. CASE NextRow
  BY <1>5, NextRowAccounts
<1>6. CASE Compared
  <2>1. policy' = policy /\ request' = request /\ printed' = printed /\ pc = "compare" /\ pc' = "done" /\ i >= NPrim
    BY <1>6 DEF Compared, Exit
  <2>2. ASSUME NEW x \in Types, NEW y \in Types, x < y PROVE Accounted(x, y)'
    <3>1. x \in Nat /\ y \in Nat /\ y <= NPrim /\ NPrim \in Nat /\ i \in Nat
      BY TypesArePositive, PrimAssumption, <2>1 DEF Comparing
    <3>2. x < i
      BY <3>1, <2>1, <2>2
    <3>3. Accounted(x, y)
      BY <3>2, <2>1, <2>2 DEF Accounts, Passed
    <3> QED
      BY <3>3, <2>1, StillAccounted
  <2> QED
    BY <2>1, <2>2 DEF Accounts
<1>7. CASE FindDups \/ DupsFound \/ ListAllAttributes \/ NoName \/ ListAttribute \/ ListPermissive \/ ListBooleans
  <2>1. request' = request /\ pc' \in {"done", "dups"} /\ request.component # "typecmp"
    <3>1. CASE FindDups
      BY <3>1 DEF FindDups, Phases
    <3>2. CASE DupsFound
      BY <3>2 DEF DupsFound, Exit, Phases
    <3>3. CASE ListAllAttributes
      BY <3>3 DEF ListAllAttributes, List, Exit, Phases, Listing
    <3>4. CASE NoName
      BY <3>4 DEF NoName, Refuse, Exit, Phases, Listing
    <3>5. CASE ListAttribute
      BY <3>5 DEF ListAttribute, List, Refuse, Exit, Phases, Listing
    <3>6. CASE ListPermissive \/ ListBooleans
      BY <3>6 DEF ListPermissive, ListBooleans, List, Exit, Phases, Listing
    <3> QED
      BY <1>7, <3>1, <3>2, <3>3, <3>4, <3>5, <3>6
  <2> QED
    BY <2>1 DEF Accounts, Done
<1>8. CASE UNCHANGED vars
  <2>1. UNCHANGED <<policy, request, printed, pc, status, i, j>>
    BY <1>8 DEF vars
  <2>2. \A x, y : Accounted(x, y) => Accounted(x, y)'
    BY <2>1, StillAccounted
  <2> QED
    BY <2>1, <2>2 DEF Accounts, Done, Passed
<1> QED
  BY <1>1, <1>2, <1>3, <1>4, <1>5, <1>6, <1>7, <1>8 DEF Next

LEMMA AccountsArePairs == Accounts => PairsAccounted
<1> SUFFICES ASSUME Accounts, Done("typecmp"), NEW x \in Types, NEW y \in Types, x < y, HasRules(x),
                    \A z \in 1 .. x - 1 : z \in Types => ~(Alike(z, x) /\ ~Between(z, x))
             PROVE  IF Alike(x, y) /\ ~Between(x, y)
                    THEN Asked("e") => <<x, y>> \in Reports("equivalent")
                    ELSE Asked("d") => <<x, y>> \in Reports("differ")
  BY DEF PairsAccounted
<1>1. Accounted(x, y)
  BY DEF Accounts
<1>2. Nodes(x) # {}
  BY RulesAndNodes
<1>3. x \in Nat /\ y \in Nat /\ x # y
  BY TypesArePositive
<1>4. FirstOfKind(x)
  <2> SUFFICES ASSUME NEW z \in Types, z < x PROVE Nodes(z) # Nodes(x)
    BY DEF FirstOfKind
  <2>1. z \in 1 .. x - 1 /\ z # x
    <3>1. z \in Nat /\ z # 0
      BY TypesArePositive
    <3> QED
      BY <3>1, <1>3
  <2>2. ~Equivalent(z, x)
    BY <2>1 DEF Equivalent
  <2> QED
    BY <2>1, <2>2, SameNodes
<1>5. Nodes(x) = Nodes(y) <=> Alike(x, y) /\ ~Between(x, y)
  BY <1>3, SameNodes DEF Equivalent
<1> QED
  BY <1>1, <1>2, <1>4, <1>5 DEF Accounted

-----------------------------------------------------------------------------
(***************************************************************************)
(* The theorems.                                                           *)
(***************************************************************************)
TypecmpInv == Phases /\ Building /\ Comparing

LEMMA CanonicalLists == TypecmpInv => ListsCanonical
<1> SUFFICES ASSUME Building, Comparing, pc = "compare", NEW t \in Types
             PROVE  \/ /\ ToSet(type_rules[t]) = Nodes(t)
                       /\ \A p \in 1 .. Len(type_rules[t]) - 1 :
                            ~NotAfter(type_rules[t][p + 1], type_rules[t][p])
                    \/ type_rules[t] = <<>> /\ <<i, j>> # <<1, 2>>
  BY DEF TypecmpInv, ListsCanonical
<1>1. CASE Spent(t)
  <2>1. type_rules[t] = <<>>
    BY <1>1 DEF Comparing
  <2>2. <<i, j>> # <<1, 2>>
    <3> SUFFICES ASSUME i = 1, j = 2 PROVE FALSE
      OBVIOUS
    <3>1. t \in Nat /\ t # 0 /\ \A z \in Types : z \in Nat /\ z # 0
      BY TypesArePositive
    <3>2. PICK z \in Types : z < t /\ (z < 1 \/ (z = 1 /\ t < 2))
      BY <1>1, <3>1 DEF Spent, Prior
    <3> QED
      BY <3>1, <3>2
  <2> QED
    BY <2>1, <2>2
<1>2. CASE ~Spent(t)
  <2> DEFINE list == type_rules[t]
  <2>1. list \in Seq(NodeSet(Perms)) /\ Ascending(list) /\ ToSet(list) = Nodes(t)
    BY <1>2 DEF Comparing, Canonical
  <2> HIDE DEF list
  <2>2. ASSUME NEW p \in 1 .. Len(list) - 1 PROVE ~NotAfter(list[p + 1], list[p])
    <3>1. p \in 1 .. Len(list) /\ p + 1 \in 1 .. Len(list) /\ p < p + 1
      BY <2>1
    <3> QED
      BY <3>1, <2>1 DEF Ascending
  <2> QED
    BY <2>1, <2>2 DEF list
<1> QED
  BY <1>1, <1>2

LEMMA CanonicalInvariant == Spec => []TypecmpInv
<1>1. Init => TypecmpInv
  BY InitPhases, InitBuilding DEF TypecmpInv
<1>2. TypecmpInv /\ [Next]_vars => TypecmpInv'
  BY NextPhases, NextBuilding DEF TypecmpInv
<1> QED
  BY <1>1, <1>2, PTL DEF Spec

\* typecmp: in whatever order avtab_map visits the rules of the two tables, the
\* lists that analyze_types compares hold what the policy allows, one node for
\* each key in ascending order, until they are freed; two lists that are equal
\* node by node are then those of equivalent types.
THEOREM ListsAreAlwaysCanonical == Spec => []ListsCanonical
<1>1. TypecmpInv => ListsCanonical
  BY CanonicalLists
<1> QED
  BY <1>1, CanonicalInvariant, PTL

\* typecmp: a pair is displayed as equivalent if and only if nothing changes when
\* its types change places and no rule is between them, as different otherwise,
\* also when one of the lists has been freed; and what is displayed of a
\* difference is granted by the policy.
THEOREM VerdictsAreRight == Spec => []VerdictsRight
<1>1. Init => VerdictsRight
  BY InitVerdicts
<1>2. TypecmpInv /\ VerdictsRight /\ [Next]_vars => VerdictsRight'
  BY NextVerdicts DEF TypecmpInv
<1> QED
  BY <1>1, <1>2, CanonicalInvariant, PTL DEF Spec

\* typecmp: freeing the list of a type that was equivalent to an earlier one loses
\* no pair of a type that is the first of its kind.
THEOREM PairsAreAccounted == Spec => []PairsAccounted
<1>1. Init => Accounts
  BY InitAccounts
<1>2. TypecmpInv /\ Accounts /\ [Next]_vars => Accounts'
  BY NextAccounts DEF TypecmpInv
<1>3. Accounts => PairsAccounted
  BY AccountsArePairs
<1> QED
  BY <1>1, <1>2, <1>3, CanonicalInvariant, PTL DEF Spec

\* dups: what find_dups displays, whatever the order of the table, are the rules of
\* types that one of attributes makes superfluous, and no others.
THEOREM DuplicatesAreFound == Spec => []DupsRight
<1>1. Init => Phases /\ Duplicates
  BY InitPhases, InitDuplicates
<1>2. Phases /\ Duplicates /\ [Next]_vars => (Phases /\ Duplicates)'
  BY NextPhases, NextDuplicates
<1>3. Phases /\ Duplicates => DupsRight
  BY DuplicatesRight
<1> QED
  BY <1>1, <1>2, <1>3, PTL DEF Spec

\* attribute, permissive and booleans list what the policy declares: the two maps
\* that count from 0 and the one that counts from 1 are read as they are filled.
THEOREM ListingsAreRight == Spec => []ListedRight
<1>1. Init => Phases /\ ListedRight
  BY InitPhases, InitListed
<1>2. Phases /\ ListedRight /\ [Next]_vars => (Phases /\ ListedRight)'
  BY NextPhases, NextListed
<1> QED
  BY <1>1, <1>2, PTL DEF Spec

=============================================================================
