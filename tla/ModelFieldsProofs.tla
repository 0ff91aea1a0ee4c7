-------------------------- MODULE ModelFieldsProofs -------------------------
(***************************************************************************)
(* Proofs about ModelFields, for every set of models with any number of    *)
(* fields, any instances and any bounds.  Sorting a list again finds the   *)
(* same names whatever order ScanAll left them in; with that, IInv says    *)
(* what the columns of every query that was built have to do with the      *)
(* fields and the caches of the instances.                                 *)
(***************************************************************************)
EXTENDS ModelFields, FunctionTheorems, SequenceTheorems, WellFoundedInduction,
        TLAPS

-----------------------------------------------------------------------------
(***************************************************************************)
(* Sequences                                                               *)
(***************************************************************************)

\* What replaces induction below: a set of numbers has a smallest one.
LEMMA LeastNat ==
  ASSUME NEW T \in SUBSET Nat, T # {}
  PROVE  \E x \in T : \A y \in T : x <= y
<1> DEFINE R == {ss \in Nat \X Nat : ss[1] < ss[2]}
<1>1. IsWellFoundedOn(R, Nat)
  BY NatLessThanWellFounded DEF OpToRel
<1>2. PICK x \in T : \A y \in T : ~(<<y, x>> \in R)
  <2> HIDE DEF R
  <2> QED
    BY <1>1, WFMin, Zenon
<1>3. \A y \in T : ~(y < x)
  BY <1>2
<1> QED
  BY <1>3

\* The sequence that FlattenSeq builds up: its first k elements in one.
Flattening(s, f, m) == f = [k \in 1..m |-> IF k = 1 THEN s[k] ELSE f[k - 1] \o s[k]]

LEMMA FlatteningExists ==
  ASSUME NEW s, NEW n \in Nat
  PROVE  \E f : Flattening(s, f, n)
<1> DEFINE Bad == {m \in Nat : ~\E f : Flattening(s, f, m)}
<1>1. ASSUME Bad # {} PROVE FALSE
  <2>1. PICK m \in Bad : \A y \in Bad : m <= y
    BY <1>1, LeastNat
  <2>2. CASE m = 0
    <3>1. Flattening(s, [k \in 1..0 |-> k], 0)
      BY DEF Flattening
    <3> QED
      BY <2>1, <2>2, <3>1
  <2>3. CASE m # 0
    <3>1. m - 1 \in Nat /\ m - 1 \notin Bad
      BY <2>1, <2>3
    <3>2. PICK g : Flattening(s, g, m - 1)
      BY <3>1
    <3> DEFINE last == IF m = 1 THEN s[m] ELSE g[m - 1] \o s[m]
               f == [k \in 1..m |-> IF k = m THEN last ELSE g[k]]
    <3>3. \A k \in 1..(m - 1) : g[k] = IF k = 1 THEN s[k] ELSE g[k - 1] \o s[k]
      BY <3>1, <3>2 DEF Flattening
    <3>4. \A k \in 1..(m - 1) : f[k] = g[k]
      BY <2>1
    <3>5. ASSUME NEW k \in 1..m
          PROVE  f[k] = IF k = 1 THEN s[k] ELSE f[k - 1] \o s[k]
      <4>1. CASE k = m
        BY <2>1, <4>1, <3>4
      <4>2. CASE k # m
        <5>1. k \in 1..(m - 1) /\ (k # 1 => k - 1 \in 1..(m - 1))
          BY <2>1, <4>2
        <5> HIDE DEF f
        <5> QED
          BY <5>1, <3>3, <3>4
      <4> QED
        BY <4>1, <4>2
    <3>6. f = [k \in 1..m |-> f[k]]
      OBVIOUS
    <3>7. Flattening(s, f, m)
      <4> HIDE DEF f
      <4> QED
        BY <3>5, <3>6 DEF Flattening
    <3> QED
      BY <2>1, <3>7
  <2> QED
    BY <2>2, <2>3
<1> QED
  BY <1>1

\* FlattenSeq of a sequence of lists over X is a list over X.
LEMMA FlattenSeqType ==
  ASSUME NEW X, NEW s \in Seq(Seq(X))
  PROVE  FlattenSeq(s) \in Seq(X)
<1>1. CASE Len(s) = 0
  <2>1. s = <<>>
    BY <1>1
  <2> QED
    BY <2>1 DEF FlattenSeq
<1>2. CASE Len(s) # 0
  <2> DEFINE n == Len(s)
             f == CHOOSE g : Flattening(s, g, n)
  <2>0. n \in Nat \ {0} /\ \A k \in 1..n : s[k] \in Seq(X)
    BY <1>2
  <2>1. Flattening(s, f, n)
    BY <2>0, FlatteningExists
  <2>2. FlattenSeq(s) = f[n]
    BY <1>2 DEF FlattenSeq, Flattening
  <2> HIDE DEF f, n
  <2>3. \A k \in 1..n : f[k] = IF k = 1 THEN s[k] ELSE f[k - 1] \o s[k]
    BY <2>1 DEF Flattening
  <2> DEFINE Bad == {k \in 1..n : f[k] \notin Seq(X)}
  <2>4. ASSUME Bad # {} PROVE FALSE
    <3>0. Bad \in SUBSET Nat
      BY <2>0
    <3>1. PICK k \in Bad : \A y \in Bad : k <= y
      <4> HIDE DEF Bad
      <4> QED
        BY <2>4, <3>0, LeastNat
    <3>2. k = 1 \/ (k - 1 \in 1..n /\ k - 1 \notin Bad)
      BY <2>0, <3>1
    <3>3. k = 1 \/ f[k - 1] \in Seq(X)
      BY <3>2
    <3>4. k \in 1..n /\ s[k] \in Seq(X) /\ f[k] \notin Seq(X)
      BY <2>0, <3>1
    <3>5. CASE k = 1
      BY <2>3, <3>4, <3>5
    <3>6. CASE k # 1
      <4>1. f[k] = f[k - 1] \o s[k]
        BY <2>3, <3>4, <3>6
      <4> QED
        BY <3>3, <3>4, <3>6, <4>1
    <3> QED
      BY <3>5, <3>6
  <2> QED
    BY <2>0, <2>2, <2>4
<1> QED
  BY <1>1, <1>2

-----------------------------------------------------------------------------
(***************************************************************************)
(* Sorting                                                                 *)
(***************************************************************************)

\* What the steps below need of a bijection: its type and its inverse.
LEMMA Undoing ==
  ASSUME NEW D, NEW p \in Bijection(D, D)
  PROVE  /\ p \in [D -> D]
         /\ \E r \in Bijection(D, D) : r \in [D -> D] /\ \A k \in D : p[r[k]] = k
<1> DEFINE r == Inverse(p, D, D)
<1>1. r \in Bijection(D, D) /\ \A k \in D : r[p[k]] = k
  BY Fun_BijInverse
<1>2. p \in [D -> D] /\ r \in [D -> D] /\ \A k \in D : \E j \in D : p[j] = k
  BY <1>1, Fun_BijectionProperties
<1> HIDE DEF r
<1>3. \A k \in D : p[r[k]] = k
  BY <1>1, <1>2
<1> QED
  BY <1>1, <1>2, <1>3

\* A list has the rearrangements of any of its rearrangements.
LEMMA SameRearrangements ==
  ASSUME NEW s, NEW t \in Rearrangements(s)
  PROVE  DOMAIN t = DOMAIN s /\ Rearrangements(t) = Rearrangements(s)
<1> DEFINE D == DOMAIN s
<1>1. PICK p \in Bijection(D, D) : t = [k \in D |-> s[p[k]]]
  BY DEF Rearrangements
<1>2. PICK r \in Bijection(D, D) : r \in [D -> D] /\ \A k \in D : p[r[k]] = k
  BY <1>1, Undoing
<1>3. DOMAIN t = D
  BY <1>1
<1>4. ASSUME NEW u \in Rearrangements(t) PROVE u \in Rearrangements(s)
  <2>1. PICK q \in Bijection(D, D) : u = [k \in D |-> t[q[k]]]
    BY <1>3 DEF Rearrangements
  <2>2. p \in [D -> D] /\ q \in [D -> D]
    BY <1>1, <2>1, Undoing
  <2> DEFINE pq == [k \in D |-> p[q[k]]]
  <2>3. pq \in Bijection(D, D)
    BY <1>1, <2>1, Fun_BijTransitive
  <2>4. u = [k \in D |-> s[pq[k]]]
    BY <1>1, <2>1, <2>2
  <2> QED
    BY <2>3, <2>4 DEF Rearrangements
<1>5. ASSUME NEW u \in Rearrangements(s) PROVE u \in Rearrangements(t)
  <2>1. PICK q \in Bijection(D, D) : u = [k \in D |-> s[q[k]]]
    BY DEF Rearrangements
  <2>2. p \in [D -> D] /\ q \in [D -> D]
    BY <1>1, <2>1, Undoing
  <2> DEFINE rq == [k \in D |-> r[q[k]]]
  <2>3. rq \in Bijection(D, D)
    BY <1>2, <2>1, Fun_BijTransitive
  <2>4. u = [k \in D |-> t[rq[k]]]
    BY <1>1, <1>2, <2>1, <2>2
  <2> QED
    BY <1>3, <2>3, <2>4 DEF Rearrangements
<1> QED
  BY <1>3, <1>4, <1>5

\* A list is one of its own rearrangements, and they are lists like it.
LEMMA SelfRearranged ==
  ASSUME NEW D, NEW R, NEW s \in [D -> R]
  PROVE  s \in Rearrangements(s)
<1>1. DOMAIN s = D
  OBVIOUS
<1> DEFINE id == [k \in D |-> k]
<1>2. id \in Bijection(D, D)
  BY Fun_IsBij
<1>3. s = [k \in D |-> s[id[k]]]
  OBVIOUS
<1> QED
  BY <1>1, <1>2, <1>3 DEF Rearrangements

LEMMA RearrangedType ==
  ASSUME NEW D, NEW R, NEW s \in [D -> R], NEW t \in Rearrangements(s)
  PROVE  t \in [D -> R]
<1>1. PICK p \in Bijection(D, D) : t = [k \in D |-> s[p[k]]]
  BY DEF Rearrangements
<1>2. p \in [D -> D]
  BY <1>1, Fun_BijectionProperties
<1> QED
  BY <1>1, <1>2

\* Two elements of a list can change places.
LEMMA Swap ==
  ASSUME NEW s, NEW j \in DOMAIN s, NEW k \in DOMAIN s
  PROVE  [x \in DOMAIN s |-> s[IF x = k THEN j ELSE IF x = j THEN k ELSE x]]
           \in Rearrangements(s)
<1> DEFINE D == DOMAIN s
           p == [x \in D |-> IF x = k THEN j ELSE IF x = j THEN k ELSE x]
<1>1. p \in [D -> D] /\ \A a, b \in D : p[a] = p[b] => a = b
  OBVIOUS
<1>2. \A y \in D : p[p[y]] = y
  OBVIOUS
<1>3. p \in Bijection(D, D)
  BY <1>1, <1>2, Fun_IsBij
<1> QED
  BY <1>3 DEF Rearrangements

\* The first m of n names are in their places.
Settled(t, m, n) == \A a \in 1..m, b \in 1..n : a <= b => t[a] <= t[b]

\* One step of a selection sort.
LEMMA SettleOneMore ==
  ASSUME NEW n \in Nat, NEW t \in [1..n -> Nat], NEW m \in 1..n, Settled(t, m - 1, n)
  PROVE  \E u \in Rearrangements(t) : Settled(u, m, n)
<1> DEFINE rest == {t[b] : b \in m..n}
<1>1. rest \in SUBSET Nat /\ rest # {}
  OBVIOUS
<1>2. PICK v \in rest : \A y \in rest : v <= y
  <2> HIDE DEF rest
  <2> QED
    BY <1>1, LeastNat
<1>3. PICK j \in m..n : t[j] = v
  BY <1>2
<1> DEFINE p(x) == IF x = m THEN j ELSE IF x = j THEN m ELSE x
           u == [x \in 1..n |-> t[p(x)]]
<1>4. u \in Rearrangements(t)
  <2>1. DOMAIN t = 1..n /\ j \in DOMAIN t /\ m \in DOMAIN t
    OBVIOUS
  <2>2. [x \in DOMAIN t |-> t[p(x)]] \in Rearrangements(t)
    BY <2>1, Swap
  <2> QED
    BY <2>1, <2>2
<1>5. ASSUME NEW a \in 1..m, NEW b \in 1..n, a <= b PROVE u[a] <= u[b]
  <2>1. p(b) \in a..n /\ p(b) \in 1..n /\ u[b] = t[p(b)]
    BY <1>5
  <2>2. CASE a = m
    <3>1. u[a] = v /\ t[p(b)] \in rest
      BY <1>3, <2>1, <2>2
    <3> QED
      BY <1>2, <2>1, <3>1
  <2>3. CASE a # m
    <3>1. a \in 1..(m - 1) /\ u[a] = t[a]
      BY <2>3
    <3> QED
      BY <2>1, <3>1 DEF Settled
  <2> QED
    BY <2>2, <2>3
<1> QED
  BY <1>4, <1>5 DEF Settled

\* Every list of names can be sorted.
LEMMA SortExists ==
  ASSUME NEW n \in Nat, NEW s \in [1..n -> Nat]
  PROVE  \E t \in Rearrangements(s) : Ascending(t)
<1> DEFINE Bad == {m \in 0..n : ~\E t \in Rearrangements(s) : Settled(t, m, n)}
<1>1. ASSUME Bad # {} PROVE FALSE
  <2>1. Bad \in SUBSET Nat
    OBVIOUS
  <2>2. PICK m \in Bad : \A y \in Bad : m <= y
    <3> HIDE DEF Bad
    <3> QED
      BY <1>1, <2>1, LeastNat
  <2>3. CASE m = 0
    <3>1. s \in Rearrangements(s) /\ Settled(s, 0, n)
      BY SelfRearranged DEF Settled
    <3> QED
      BY <2>2, <2>3, <3>1
  <2>4. CASE m # 0
    <3>1. m \in 1..n /\ m - 1 \in 0..n /\ m - 1 \notin Bad
      BY <2>2, <2>4
    <3>2. PICK t \in Rearrangements(s) : Settled(t, m - 1, n)
      BY <3>1
    <3>3. t \in [1..n -> Nat] /\ Rearrangements(t) = Rearrangements(s)
      BY <3>2, RearrangedType, SameRearrangements
    <3>4. \E u \in Rearrangements(s) : Settled(u, m, n)
      BY <3>1, <3>2, <3>3, SettleOneMore
    <3> QED
      BY <2>2, <3>4
  <2> QED
    BY <2>3, <2>4
<1>2. PICK t \in Rearrangements(s) : Settled(t, n, n)
  <2>1. n \in 0..n
    OBVIOUS
  <2>2. n \notin Bad
    BY <1>1
  <2> QED
    BY <2>1, <2>2
<1>3. t \in [1..n -> Nat]
  BY <1>2, RearrangedType
<1> QED
  BY <1>2, <1>3 DEF Ascending, Settled

\* Every element of a list has a place of its own in a rearrangement.
LEMMA Places ==
  ASSUME NEW D, NEW t, DOMAIN t = D, NEW u \in Rearrangements(t)
  PROVE  \E q : /\ \A b \in D : q[b] \in D
                /\ \A a, b \in D : q[a] = q[b] => a = b
                /\ \A b \in D : u[q[b]] = t[b]
<1>1. PICK p \in Bijection(D, D) : u = [x \in D |-> t[p[x]]]
  BY DEF Rearrangements
<1>2. PICK q \in Bijection(D, D) : q \in [D -> D] /\ \A b \in D : p[q[b]] = b
  BY Undoing
<1>3. \A a, b \in D : q[a] = q[b] => a = b
  BY <1>2
<1>4. \A b \in D : q[b] \in D /\ u[q[b]] = t[b]
  BY <1>1, <1>2
<1> QED
  BY <1>3, <1>4

\* The pigeonhole principle: k numbers do not fit below k.
LEMMA NoRoom ==
  ASSUME NEW k \in Nat \ {0}, NEW q, \A b \in 1..k : q[b] \in 1..(k - 1),
         \A a, b \in 1..k : q[a] = q[b] => a = b
  PROVE  FALSE
<1> DEFINE f == [b \in 1..k |-> q[b]]
<1>1. f \in [1..k -> 1..(k - 1)] /\ \A a, b \in 1..k : f[a] = f[b] => a = b
  OBVIOUS
<1>2. f \in Injection(1..k, 1..(k - 1))
  <2> HIDE DEF f
  <2> QED
    BY <1>1, Fun_IsInj
<1>3. k <= k - 1
  BY <1>2, Fun_NatInjLeq DEF ExistsInjection
<1> QED
  BY <1>3

\* No element of an ascending list is below the one that another ascending list
\* of the same names has there: the names up to it would not find room.
LEMMA NotBelow ==
  ASSUME NEW n \in Nat, NEW t \in [1..n -> Nat], NEW u \in Rearrangements(t),
         Ascending(t), Ascending(u), NEW k \in 1..n
  PROVE  u[k] <= t[k]
<1>0. u \in [1..n -> Nat]
  BY RearrangedType
<1> SUFFICES ASSUME t[k] < u[k] PROVE FALSE
  BY <1>0
<1> DEFINE D == 1..n
<1>1. PICK q : /\ \A b \in D : q[b] \in D
               /\ \A a, b \in D : q[a] = q[b] => a = b
               /\ \A b \in D : u[q[b]] = t[b]
  <2>1. DOMAIN t = D
    OBVIOUS
  <2> HIDE DEF D
  <2> QED
    BY ONLY <2>1, u \in Rearrangements(t), Places, SMTT(30)
<1>2. ASSUME NEW b \in 1..k PROVE q[b] \in 1..(k - 1)
  <2>0. b \in D /\ b <= k
    OBVIOUS
  <2>1. q[b] \in D /\ u[q[b]] = t[b]
    BY ONLY <1>1, <2>0, Zenon
  <2>2. t[b] <= t[k]
    BY <2>0 DEF Ascending
  <2>3. k <= q[b] => u[k] <= u[q[b]]
    <3> DEFINE qb == q[b]
    <3>1. qb \in 1..n
      BY <2>1
    <3> HIDE DEF qb
    <3>2. k <= qb => u[k] <= u[qb]
      BY <1>0, <3>1 DEF Ascending
    <3> QED
      BY <3>2 DEF qb
  <2>4. t[b] \in Nat /\ t[k] \in Nat /\ u[k] \in Nat
    BY <1>0, <2>0
  <2> QED
    BY <2>1, <2>2, <2>3, <2>4
<1>3. \A a, b \in 1..k : q[a] = q[b] => a = b
  <2>1. \A a \in 1..k : a \in D
    OBVIOUS
  <2> QED
    BY ONLY <1>1, <2>1, Zenon
<1>4. k \in Nat \ {0}
  OBVIOUS
<1> QED
  BY ONLY <1>2, <1>3, <1>4, NoRoom

\* Sorting has one result, whatever the order of equal names.
LEMMA AscendingIsUnique ==
  ASSUME NEW n \in Nat, NEW t \in [1..n -> Nat], NEW u \in Rearrangements(t),
         Ascending(t), Ascending(u)
  PROVE  u = t
<1>1. u \in [1..n -> Nat]
  BY RearrangedType
<1>2. t \in Rearrangements(u)
  BY SameRearrangements, SelfRearranged
<1>3. ASSUME NEW k \in 1..n PROVE u[k] = t[k]
  <2>1. u[k] <= t[k] /\ t[k] <= u[k]
    BY <1>1, <1>2, NotBelow
  <2> QED
    BY <1>1, <2>1
<1> QED
  BY <1>1, <1>3

\* What Sort returns: a list with the same names, in ascending order, which no
\* other ascending list of these names differs from.
LEMMA SortProperties ==
  ASSUME NEW n \in Nat, NEW s \in [1..n -> Nat]
  PROVE  /\ Sort(s) \in [1..n -> Nat]
         /\ Sort(s) \in Rearrangements(s)
         /\ Ascending(Sort(s))
         /\ \A t \in Rearrangements(s) :
              /\ Sort(t) = Sort(s)
              /\ Ascending(t) => t = Sort(s)
<1>1. Sort(s) \in Rearrangements(s) /\ Ascending(Sort(s))
  BY SortExists DEF Sort
<1>2. Sort(s) \in [1..n -> Nat] /\ \A t \in Rearrangements(s) : t \in [1..n -> Nat]
  BY <1>1, RearrangedType
<1>3. ASSUME NEW t \in Rearrangements(s) PROVE Rearrangements(t) = Rearrangements(s)
  BY SameRearrangements
<1>4. ASSUME NEW t \in Rearrangements(s) PROVE Sort(t) = Sort(s)
  BY <1>3 DEF Sort
<1>5. ASSUME NEW t \in Rearrangements(s), Ascending(t) PROVE t = Sort(s)
  <2>1. t \in Rearrangements(Sort(s))
    BY <1>1, <1>3
  <2> QED
    BY <1>1, <1>2, <1>5, <2>1, AscendingIsUnique
<1> QED
  BY <1>1, <1>2, <1>4, <1>5

-----------------------------------------------------------------------------
(***************************************************************************)
(* Columns and Scan as functions of an order                               *)
(***************************************************************************)

\* The names that Columns and Scan look up, and the columns they come to when the
\* cache was built in the given order: whatever order mf.Fields has by then.
NamesOf(m, selection) ==
  Sort(IF selection # <<>> THEN selection ELSE [f \in DOMAIN m |-> m[f].GQL])

ColumnsOf(m, order, selection) ==
  SQLOf(m, Named(m, order, NamesOf(m, selection))) \o SQLOf(m, Anonymous(m, order))

\* The columns of SelectAll.
SortedColumns(m) == Sort([f \in DOMAIN m |-> m[f].SQL])

LEMMA ModelType ==
  ASSUME NEW m \in Models
  PROVE  /\ Len(m) \in Nat
         /\ DOMAIN m = 1..Len(m)
         /\ \A f \in DOMAIN m : m[f].SQL \in Nat /\ m[f].GQL \in Nat
<1>1. m \in Seq([SQL : Nat, GQL : Nat])
  BY ModelsAssumption
<1>2. Len(m) \in Nat /\ DOMAIN m = 1..Len(m)
  BY <1>1
<1>3. \A f \in DOMAIN m : m[f] \in [SQL : Nat, GQL : Nat]
  BY <1>1, <1>2, ElementOfSeq
<1> QED
  BY <1>2, <1>3

\* An order is a rearrangement of the declared one, and so are the names in it.
LEMMA OrderType ==
  ASSUME NEW m \in Models, NEW order \in Orders(m)
  PROVE  /\ order \in [DOMAIN m -> DOMAIN m]
         /\ [k \in DOMAIN m |-> m[order[k]].GQL]
              \in Rearrangements([f \in DOMAIN m |-> m[f].GQL])
         /\ SQLOf(m, order) \in Rearrangements([f \in DOMAIN m |-> m[f].SQL])
<1>1. order \in Bijection(DOMAIN m, DOMAIN m)
  BY DEF Orders
<1>2. order \in [DOMAIN m -> DOMAIN m]
  BY <1>1, Undoing
<1> DEFINE names == [f \in DOMAIN m |-> m[f].GQL]
           columns == [f \in DOMAIN m |-> m[f].SQL]
<1>3. DOMAIN names = DOMAIN m /\ DOMAIN columns = DOMAIN m /\ DOMAIN order = DOMAIN m
  BY <1>2
<1>4. [k \in DOMAIN m |-> m[order[k]].GQL] = [k \in DOMAIN m |-> names[order[k]]]
  BY <1>2
<1>5. SQLOf(m, order) = [k \in DOMAIN m |-> columns[order[k]]]
  BY <1>2, <1>3 DEF SQLOf
<1> HIDE DEF names, columns
<1>6. /\ [k \in DOMAIN m |-> names[order[k]]] \in Rearrangements(names)
      /\ [k \in DOMAIN m |-> columns[order[k]]] \in Rearrangements(columns)
  BY <1>1, <1>3 DEF Rearrangements
<1> QED
  BY <1>2, <1>4, <1>5, <1>6 DEF names, columns

\* Sorting the fields yields an order again, and a rearrangement of the fields
\* whose columns ascend has the columns of SelectAll.
LEMMA BySQLProperties ==
  ASSUME NEW m \in Models, NEW order \in Orders(m), NEW new \in BySQL(m, order)
  PROVE  new \in Orders(m) /\ SQLOf(m, new) = SortedColumns(m)
<1> DEFINE D == DOMAIN m
<1>1. order \in Bijection(D, D) /\ DOMAIN order = D
  BY OrderType DEF Orders
<1>2. PICK p \in Bijection(D, D) : new = [k \in D |-> order[p[k]]]
  BY <1>1 DEF BySQL, Rearrangements
<1>3. new \in Orders(m)
  BY <1>1, <1>2, Fun_BijTransitive DEF Orders
<1>4. SQLOf(m, new) \in Rearrangements([f \in D |-> m[f].SQL])
  BY <1>3, OrderType
<1>5. Ascending(SQLOf(m, new))
  BY DEF BySQL
<1>6. Len(m) \in Nat /\ [f \in D |-> m[f].SQL] \in [1..Len(m) -> Nat]
  BY ModelType
<1> QED
  BY <1>3, <1>4, <1>5, <1>6, SortProperties DEF SortedColumns

\* The columns of SelectAll are the same whatever order the cache was built in.
LEMMA SortOfSQL ==
  ASSUME NEW m \in Models, NEW order \in Orders(m)
  PROVE  Sort(SQLOf(m, order)) = SortedColumns(m) /\ SortedColumns(m) \in Seq(Nat)
<1>1. Len(m) \in Nat /\ [f \in DOMAIN m |-> m[f].SQL] \in [1..Len(m) -> Nat]
  BY ModelType
<1>2. SQLOf(m, order) \in Rearrangements([f \in DOMAIN m |-> m[f].SQL])
  BY OrderType
<1> QED
  BY <1>1, <1>2, SortProperties DEF SortedColumns

\* The names are a list, the same in every order of the fields.
LEMMA NamesOfProperties ==
  ASSUME NEW m \in Models, NEW selection \in Seq(Nat)
  PROVE  /\ NamesOf(m, selection) \in Seq(Nat)
         /\ \A order \in Orders(m) :
              NamesOf(m, selection) =
                Sort(IF selection # <<>> THEN selection
                     ELSE [k \in DOMAIN order |-> m[order[k]].GQL])
<1> DEFINE names == [f \in DOMAIN m |-> m[f].GQL]
<1>1. Len(m) \in Nat /\ names \in [1..Len(m) -> Nat]
  BY ModelType
<1>2. Len(selection) \in Nat /\ selection \in [1..Len(selection) -> Nat]
  OBVIOUS
<1>3. ASSUME NEW order \in Orders(m)
      PROVE  Sort([k \in DOMAIN order |-> m[order[k]].GQL]) = Sort(names)
  <2>1. DOMAIN order = DOMAIN m
    BY OrderType
  <2> DEFINE listed == [k \in DOMAIN order |-> m[order[k]].GQL]
  <2>2. listed \in Rearrangements(names)
    BY <2>1, OrderType
  <2> HIDE DEF names, listed
  <2>3. Sort(listed) = Sort(names)
    BY <1>1, <2>2, SortProperties
  <2> QED
    BY <2>3 DEF names, listed
<1>4. NamesOf(m, selection) \in Seq(Nat)
  <2>1. Sort(names) \in [1..Len(m) -> Nat]
    <3> HIDE DEF names
    <3> QED
      BY <1>1, SortProperties
  <2>2. Sort(selection) \in [1..Len(selection) -> Nat]
    BY <1>2, SortProperties
  <2>3. \A n \in Nat : \A t \in [1..n -> Nat] : t \in Seq(Nat)
    BY SeqDef
  <2>4. Sort(names) \in Seq(Nat) /\ Sort(selection) \in Seq(Nat)
    <3> HIDE DEF names
    <3> QED
      BY ONLY <1>1, <1>2, <2>1, <2>2, <2>3, Zenon
  <2> QED
    BY <2>4 DEF NamesOf
<1> QED
  BY <1>3, <1>4 DEF NamesOf

LEMMA HavingType ==
  ASSUME NEW m \in Models, NEW order \in Orders(m), NEW name
  PROVE  Having(m, order, name) \in Seq(DOMAIN m)
<1> DEFINE D == DOMAIN m
           list(k) == IF m[order[k]].GQL = name THEN <<order[k]>> ELSE <<>>
           lists == [k \in DOMAIN order |-> list(k)]
<1>1. Len(m) \in Nat /\ DOMAIN order = 1..Len(m) /\ \A k \in 1..Len(m) : order[k] \in D
  <2>1. Len(m) \in Nat /\ D = 1..Len(m) /\ order \in [D -> D]
    BY ModelType, OrderType
  <2> HIDE DEF D
  <2> QED
    BY <2>1
<1>2. <<>> \in Seq(D) /\ \A f \in D : <<f>> \in Seq(D)
  <2> HIDE DEF D
  <2> QED
    OBVIOUS
<1>3. \A k \in 1..Len(m) : list(k) \in Seq(D)
  <2> HIDE DEF D
  <2> QED
    BY <1>1, <1>2
<1>4. lists \in Seq(Seq(D))
  <2> HIDE DEF list, D
  <2>1. lists \in [1..Len(m) -> Seq(D)]
    BY <1>1, <1>3
  <2> HIDE DEF lists
  <2> QED
    BY <1>1, <2>1, SeqDef
<1> QED
  BY <1>4, FlattenSeqType DEF Having

\* Named and Anonymous list fields of the model.
LEMMA NamedType ==
  ASSUME NEW m \in Models, NEW order \in Orders(m), NEW names \in Seq(Nat)
  PROVE  Named(m, order, names) \in Seq(DOMAIN m) /\ Anonymous(m, order) \in Seq(DOMAIN m)
<1> DEFINE D == DOMAIN m
           list(k) == GQL(m, order, names[k])
           lists == [k \in DOMAIN names |-> list(k)]
<1>1. Len(names) \in Nat /\ DOMAIN names = 1..Len(names)
  OBVIOUS
<1>2. \A k : list(k) \in Seq(D)
  <2> TAKE k
  <2>1. Having(m, order, names[k]) \in Seq(D)
    BY HavingType
  <2>2. <<>> \in Seq(D)
    OBVIOUS
  <2> HIDE DEF D
  <2> QED
    BY <2>1, <2>2 DEF GQL
<1>3. lists \in Seq(Seq(D))
  <2> HIDE DEF list, D
  <2>1. lists \in [1..Len(names) -> Seq(D)]
    BY <1>1, <1>2
  <2> HIDE DEF lists
  <2> QED
    BY <1>1, <2>1, SeqDef
<1> QED
  BY <1>3, FlattenSeqType, HavingType DEF Named, Anonymous

\* The columns of two lists of fields after each other.
LEMMA SQLOfConcat ==
  ASSUME NEW m \in Models, NEW a \in Seq(DOMAIN m), NEW b \in Seq(DOMAIN m)
  PROVE  /\ SQLOf(m, a) \o SQLOf(m, b) \in Seq(Nat)
         /\ SQLOf(m, a \o b) = SQLOf(m, a) \o SQLOf(m, b)
<1> DEFINE D == DOMAIN m
           column(f) == m[f].SQL
<1>1. \A f \in D : column(f) \in Nat
  BY ModelType
<1>2. \A s \in Seq(D) : SQLOf(m, s) = [k \in 1..Len(s) |-> column(s[k])]
  BY DEF SQLOf
<1> HIDE DEF D, column
<1>3. a \in Seq(D) /\ b \in Seq(D) /\ a \o b \in Seq(D)
  BY DEF D
<1>4. ASSUME NEW s \in Seq(D)
      PROVE  SQLOf(m, s) \in Seq(Nat) /\ Len(SQLOf(m, s)) = Len(s)
  <2>1. Len(s) \in Nat /\ \A k \in 1..Len(s) : s[k] \in D
    BY ElementOfSeq
  <2>2. SQLOf(m, s) = [k \in 1..Len(s) |-> column(s[k])]
    BY <1>2
  <2>3. SQLOf(m, s) \in [1..Len(s) -> Nat]
    BY ONLY <1>1, <2>1, <2>2
  <2>4. Len(SQLOf(m, s)) = Len(s)
    BY <2>1, <2>2
  <2>5. SQLOf(m, s) \in Seq(Nat)
    BY ONLY <2>1, <2>3, IsASeq
  <2> QED
    BY <2>4, <2>5
<1>5. /\ SQLOf(m, a) \in Seq(Nat) /\ SQLOf(m, b) \in Seq(Nat)
      /\ Len(SQLOf(m, a)) = Len(a) /\ Len(SQLOf(m, b)) = Len(b)
      /\ SQLOf(m, a \o b) \in Seq(Nat) /\ Len(SQLOf(m, a \o b)) = Len(a \o b)
  BY <1>3, <1>4
<1>6. /\ Len(a) \in Nat /\ Len(b) \in Nat /\ Len(a \o b) = Len(a) + Len(b)
      /\ SQLOf(m, a) \o SQLOf(m, b) \in Seq(Nat)
      /\ Len(SQLOf(m, a) \o SQLOf(m, b)) = Len(a) + Len(b)
  <2> DEFINE sa == SQLOf(m, a)
             sb == SQLOf(m, b)
  <2>1. sa \in Seq(Nat) /\ sb \in Seq(Nat) /\ Len(sa) = Len(a) /\ Len(sb) = Len(b)
    BY <1>5
  <2> HIDE DEF sa, sb
  <2>2. sa \o sb \in Seq(Nat)
    BY ONLY <2>1
  <2>3. Len(sa \o sb) = Len(sa) + Len(sb)
    BY ONLY <2>1, ConcatProperties, Zenon
  <2>4. Len(a) \in Nat /\ Len(b) \in Nat /\ Len(a \o b) = Len(a) + Len(b)
    BY ONLY <1>3
  <2> QED
    BY <2>1, <2>2, <2>3, <2>4 DEF sa, sb
<1>7. ASSUME NEW k \in 1..(Len(a) + Len(b))
      PROVE  SQLOf(m, a \o b)[k] = (SQLOf(m, a) \o SQLOf(m, b))[k]
  <2>1. /\ SQLOf(m, a \o b)[k] = column((a \o b)[k])
        /\ \A j \in 1..Len(a) : SQLOf(m, a)[j] = column(a[j])
        /\ \A j \in 1..Len(b) : SQLOf(m, b)[j] = column(b[j])
    <3>1. ASSUME NEW s \in Seq(D)
          PROVE  \A j \in 1..Len(s) : SQLOf(m, s)[j] = column(s[j])
      <4>1. SQLOf(m, s) = [j \in 1..Len(s) |-> column(s[j])]
        BY <1>2
      <4> QED
        BY ONLY <4>1
    <3> QED
      BY ONLY <1>3, <1>6, <3>1, k \in 1..(Len(a) + Len(b)), Zenon
  <2>2. (SQLOf(m, a) \o SQLOf(m, b))[k] =
          IF k <= Len(a) THEN SQLOf(m, a)[k] ELSE SQLOf(m, b)[k - Len(a)]
    <3> DEFINE sa == SQLOf(m, a)
               sb == SQLOf(m, b)
    <3>1. sa \in Seq(Nat) /\ sb \in Seq(Nat) /\ Len(sa) = Len(a) /\ Len(sb) = Len(b)
      BY <1>5
    <3> HIDE DEF sa, sb
    <3>2. (sa \o sb)[k] = IF k <= Len(a) THEN sa[k] ELSE sb[k - Len(a)]
      BY <3>1, ConcatProperties
    <3> QED
      BY <3>2 DEF sa, sb
  <2>3. (a \o b)[k] = IF k <= Len(a) THEN a[k] ELSE b[k - Len(a)]
    BY <1>3, ConcatProperties
  <2>4. k \in Nat /\ (k <= Len(a) => k \in 1..Len(a))
          /\ (~(k <= Len(a)) => k - Len(a) \in 1..Len(b))
    BY <1>6
  <2> QED
    BY ONLY <2>1, <2>2, <2>3, <2>4
<1> QED
  BY <1>5, <1>6, <1>7, SeqEqual

LEMMA SelectionsType ==
  ASSUME model \in Models
  PROVE  Selections \subseteq Seq(Nat)
<1>1. GQLNames \cup {0} \subseteq Nat
  BY ModelType DEF GQLNames
<1>2. Selections \subseteq UNION {[1..n -> Nat] : n \in Nat}
  BY <1>1, MaxSelectedAssumption DEF Selections, BoundedSeq, SeqOf
<1> QED
  BY <1>2, SeqDef

-----------------------------------------------------------------------------
(***************************************************************************)
(* The invariant                                                           *)
(***************************************************************************)

\* The cache of an instance that ScanAll did not sort first is in the declared
\* order.
OrderInv == \A i \in Instances \ sorted : Built(i) = AsDeclared(model)

\* Every query has the columns of its way, from a cache that does not change any
\* more (one without fields is never built, and has one order only).
QueryInv ==
  \A q \in queries :
    /\ DOMAIN model = {} \/ cache[q.by] # <<>>
    /\ q.columns = IF q.all THEN SortedColumns(model)
                   ELSE ColumnsOf(model, Built(q.by), q.for)

IInv == MappingTypeOK /\ OrderInv /\ QueryInv

\* What Columns and Scan compute depends on the order of the cache alone, and
\* they agree on it.
LEMMA ColumnsAre ==
  ASSUME MappingTypeOK, NEW i \in Instances, NEW selection \in Seq(Nat)
  PROVE  /\ Columns(i, selection) = ColumnsOf(model, Built(i), selection)
         /\ Columns(i, selection) \in Seq(Nat)
         /\ SQLOf(model, Scan(i, selection)) = ColumnsOf(model, Built(i), selection)
<1>1. model \in Models /\ fields[i] \in Orders(model) /\ Built(i) \in Orders(model)
  BY DEF MappingTypeOK, Built
<1>2. Names(i, selection) = NamesOf(model, selection)
  BY <1>1, NamesOfProperties DEF Names
<1>3. NamesOf(model, selection) \in Seq(Nat)
  BY <1>1, NamesOfProperties
<1> DEFINE named == Named(model, Built(i), NamesOf(model, selection))
           others == Anonymous(model, Built(i))
<1>4. named \in Seq(DOMAIN model) /\ others \in Seq(DOMAIN model)
  BY <1>1, <1>3, NamedType
<1>5. /\ SQLOf(model, named) \o SQLOf(model, others) \in Seq(Nat)
      /\ SQLOf(model, named \o others) = SQLOf(model, named) \o SQLOf(model, others)
  <2> HIDE DEF named, others
  <2> QED
    BY <1>1, <1>4, SQLOfConcat
<1> QED
  BY <1>2, <1>5 DEF Columns, Scan, ColumnsOf

\* Building a cache does not change the order it is built in, and a model without
\* fields has only one.
LEMMA BuiltProperties ==
  ASSUME MappingTypeOK, NEW i \in Instances
  PROVE  /\ Built(i) \in Orders(model)
         /\ DOMAIN model = {} \/ Built(i) # <<>>
         /\ DOMAIN model = {} => \A order \in Orders(model) : order = Built(i)
<1>1. model \in Models /\ Built(i) \in Orders(model)
  BY DEF MappingTypeOK, Built
<1>2. \A order \in Orders(model) : order \in [DOMAIN model -> DOMAIN model]
  BY <1>1, OrderType
<1>3. DOMAIN model = {} \/ Built(i) # <<>>
  <2>1. DOMAIN Built(i) = DOMAIN model
    BY <1>1, <1>2
  <2>2. Built(i) = <<>> => DOMAIN Built(i) = {}
    OBVIOUS
  <2> QED
    BY <2>1, <2>2
<1>4. ASSUME DOMAIN model = {}, NEW order \in Orders(model) PROVE order = Built(i)
  BY <1>1, <1>2, <1>4
<1> QED
  BY <1>1, <1>3, <1>4

LEMMA InvInit == MappingInit => IInv
<1> SUFFICES ASSUME MappingInit PROVE IInv
  OBVIOUS
<1>1. model \in Models /\ AsDeclared(model) \in Orders(model)
  BY Fun_IsBij DEF MappingInit, AsDeclared, Orders
<1>2. MappingTypeOK
  BY <1>1 DEF MappingInit, MappingTypeOK
<1>3. OrderInv
  BY DEF MappingInit, OrderInv, Built
<1>4. QueryInv
  BY DEF MappingInit, QueryInv
<1> QED
  BY <1>2, <1>3, <1>4 DEF IInv

\* A step that builds the cache of an instance and maybe adds a query of it.
LEMMA BuildingPreserves ==
  ASSUME IInv, NEW i \in Instances,
         cache' = [cache EXCEPT ![i] = Built(i)],
         UNCHANGED <<model, fields, sorted>>,
         \A q \in queries' \ queries :
           /\ q \in [all : BOOLEAN, by : {i}, for : Seq(Nat), columns : Seq(Nat)]
           /\ q.columns = IF q.all THEN SortedColumns(model)
                          ELSE ColumnsOf(model, Built(i), q.for)
  PROVE  IInv'
<1> USE DEF IInv
<1>1. \A j \in Instances : Built(j)' = Built(j)
  BY DEF MappingTypeOK, Built
<1>2. cache \in [Instances -> Orders(model) \cup {<<>>}] /\ Built(i) \in Orders(model)
  BY BuiltProperties DEF MappingTypeOK
<1>3. MappingTypeOK'
  <2>1. queries' \subseteq
          [all : BOOLEAN, by : Instances, for : Seq(Nat), columns : Seq(Nat)]
    BY DEF MappingTypeOK
  <2>2. cache' \in [Instances -> Orders(model) \cup {<<>>}]
    BY <1>2
  <2> QED
    BY <2>1, <2>2 DEF MappingTypeOK
<1>4. OrderInv'
  BY <1>1 DEF OrderInv
<1>5. QueryInv'
  <2> SUFFICES ASSUME NEW q \in queries'
               PROVE  /\ DOMAIN model = {} \/ cache'[q.by] # <<>>
                      /\ q.columns = IF q.all THEN SortedColumns(model)
                                     ELSE ColumnsOf(model, Built(q.by)', q.for)
    BY DEF QueryInv
  <2>1. q.by \in Instances
    BY <1>3 DEF MappingTypeOK
  <2>2. DOMAIN model = {} \/ cache'[i] # <<>>
    BY <1>2, BuiltProperties
  <2>3. CASE q \in queries
    <3>1. DOMAIN model = {} \/ cache[q.by] # <<>>
      BY <2>3 DEF QueryInv
    <3>2. q.by # i => cache'[q.by] = cache[q.by]
      BY <1>2, <2>1
    <3>3. DOMAIN model = {} \/ cache'[q.by] # <<>>
      BY <2>2, <3>1, <3>2
    <3>4. q.columns = IF q.all THEN SortedColumns(model)
                      ELSE ColumnsOf(model, Built(q.by), q.for)
      BY <2>3 DEF QueryInv
    <3> QED
      BY <1>1, <2>1, <3>3, <3>4
  <2>4. CASE q \notin queries
    <3>1. /\ q.by = i
          /\ q.columns = IF q.all THEN SortedColumns(model)
                         ELSE ColumnsOf(model, Built(i), q.for)
      BY <2>4
    <3> QED
      BY <1>1, <2>2, <3>1
  <2> QED
    BY <2>3, <2>4
<1> QED
  BY <1>3, <1>4, <1>5

LEMMA SelectingPreserves ==
  ASSUME IInv, NEW i \in Instances, NEW selection \in Selections, Selecting(i, selection)
  PROVE  IInv'
<1> DEFINE query == [all |-> FALSE, by |-> i, for |-> selection,
                     columns |-> Columns(i, selection)]
<1>1. selection \in Seq(Nat)
  BY SelectionsType DEF IInv, MappingTypeOK
<1>2. /\ Columns(i, selection) = ColumnsOf(model, Built(i), selection)
      /\ Columns(i, selection) \in Seq(Nat)
  BY <1>1, ColumnsAre DEF IInv
<1>3. /\ query \in [all : BOOLEAN, by : {i}, for : Seq(Nat), columns : Seq(Nat)]
      /\ ~query.all /\ query.columns = ColumnsOf(model, Built(i), query.for)
  BY <1>1, <1>2
<1>4. \A q \in queries' \ queries : q = query
  BY DEF Selecting
<1>5. cache' = [cache EXCEPT ![i] = Built(i)] /\ UNCHANGED <<model, fields, sorted>>
  BY DEF Selecting
<1> HIDE DEF query
<1> QED
  BY <1>3, <1>4, <1>5, BuildingPreserves

LEMMA SelectingAllPreserves ==
  ASSUME IInv, NEW i \in Instances, SelectingAll(i)
  PROVE  IInv'
<1> DEFINE query == [all |-> TRUE, by |-> i, for |-> <<>>, columns |-> AllColumns(i)]
<1>1. AllColumns(i) = SortedColumns(model) /\ SortedColumns(model) \in Seq(Nat)
  BY BuiltProperties, SortOfSQL DEF IInv, MappingTypeOK, AllColumns
<1>2. /\ query \in [all : BOOLEAN, by : {i}, for : Seq(Nat), columns : Seq(Nat)]
      /\ query.all /\ query.columns = SortedColumns(model)
  BY <1>1
<1>3. \A q \in queries' \ queries : q = query
  BY DEF SelectingAll
<1>4. cache' = [cache EXCEPT ![i] = Built(i)] /\ UNCHANGED <<model, fields, sorted>>
  BY DEF SelectingAll
<1> HIDE DEF query
<1> QED
  BY <1>2, <1>3, <1>4, BuildingPreserves

LEMMA ScanningPreserves ==
  ASSUME IInv, NEW i \in Instances, Scanning(i)
  PROVE  IInv'
<1>1. /\ cache' = [cache EXCEPT ![i] = Built(i)]
      /\ UNCHANGED <<model, fields, queries, sorted>>
  BY DEF Scanning
<1> QED
  BY <1>1, BuildingPreserves

\* Sorting the fields of an instance is noticed by a cache that is built later,
\* and there is no query of that instance yet.
LEMMA ScanningAllPreserves ==
  ASSUME IInv, NEW i \in Instances, ScanningAll(i)
  PROVE  IInv'
<1> USE DEF IInv
<1>1. PICK order \in BySQL(model, fields[i]) : fields' = [fields EXCEPT ![i] = order]
  BY DEF ScanningAll
<1>2. /\ sorted' = IF cache[i] = <<>> THEN sorted \cup {i} ELSE sorted
      /\ UNCHANGED <<model, cache, queries>>
  BY DEF ScanningAll
<1>3. model \in Models /\ fields[i] \in Orders(model)
  BY DEF MappingTypeOK
<1>4. order \in Orders(model)
  BY <1>1, <1>3, BySQLProperties
<1>5. MappingTypeOK'
  BY <1>1, <1>2, <1>4 DEF MappingTypeOK
<1>6. \A j \in Instances : cache[j] # <<>> \/ j # i => Built(j)' = Built(j)
  BY <1>1, <1>2 DEF MappingTypeOK, Built
<1>7. OrderInv'
  BY <1>2, <1>6 DEF OrderInv
<1>8. QueryInv'
  <2> SUFFICES ASSUME NEW q \in queries PROVE Built(q.by)' = Built(q.by)
    BY <1>2 DEF QueryInv
  <2>1. q.by \in Instances
    BY DEF MappingTypeOK
  <2>2. CASE cache[q.by] # <<>>
    BY <1>6, <2>1, <2>2
  <2>3. CASE cache[q.by] = <<>>
    <3>1. DOMAIN model = {}
      BY <2>3 DEF QueryInv
    <3>2. Built(q.by)' \in Orders(model)
      BY <1>2, <1>5, <2>1 DEF MappingTypeOK, Built
    <3> QED
      BY <2>1, <3>1, <3>2, BuiltProperties
  <2> QED
    BY <2>2, <2>3
<1> QED
  BY <1>5, <1>7, <1>8

LEMMA InvNext == IInv /\ [MappingNext]_mappingVars => IInv'
<1> SUFFICES ASSUME IInv, [MappingNext]_mappingVars PROVE IInv'
  OBVIOUS
<1>1. ASSUME NEW i \in Instances, NEW selection \in Selections, Selecting(i, selection)
      PROVE  IInv'
  BY <1>1, SelectingPreserves
<1>2. ASSUME NEW i \in Instances, SelectingAll(i) PROVE IInv'
  BY <1>2, SelectingAllPreserves
<1>3. ASSUME NEW i \in Instances, Scanning(i) PROVE IInv'
  BY <1>3, ScanningPreserves
<1>4. ASSUME NEW i \in Instances, ScanningAll(i) PROVE IInv'
  BY <1>4, ScanningAllPreserves
<1>5. CASE UNCHANGED mappingVars
  BY <1>5 DEF mappingVars, IInv, MappingTypeOK, OrderInv, QueryInv, Built
<1> QED
  BY <1>1, <1>2, <1>3, <1>4, <1>5 DEF MappingNext

LEMMA Invariance == MappingSpec => []IInv
  BY InvInit, InvNext, PTL DEF MappingSpec

-----------------------------------------------------------------------------
(***************************************************************************)
(* The theorems                                                            *)
(***************************************************************************)

\* sort.Slice leaves mf.Fields an order of all the fields, every cache is built
\* from one, and a query has a column for each name it looks up (database/ql.go,
\* database/sq.go).
THEOREM MappingTypeCorrect == MappingSpec => []MappingTypeOK
<1>1. IInv => MappingTypeOK
  BY DEF IInv
<1> QED
  BY <1>1, Invariance, PTL

\* Columns and Scan agree, on one instance always and on two unless ScanAll
\* sorted one of them before its cache was built: with any number of fields,
\* names that repeat and fields without one.
THEOREM RowsFit == MappingSpec => []ScanFitsColumns
<1>1. ASSUME IInv PROVE ScanFitsColumns
  <2> SUFFICES ASSUME NEW q \in queries, NEW i \in Instances, ~q.all,
                      i = q.by \/ {i, q.by} \cap sorted = {}
               PROVE  SQLOf(model, Scan(i, q.for)) = q.columns
    BY DEF ScanFitsColumns
  <2>1. q.by \in Instances /\ q.for \in Seq(Nat)
    BY <1>1 DEF IInv, MappingTypeOK
  <2>2. q.columns = ColumnsOf(model, Built(q.by), q.for)
    BY <1>1 DEF IInv, QueryInv
  <2>3. Built(i) = Built(q.by)
    BY <1>1, <2>1 DEF IInv, OrderInv
  <2>4. SQLOf(model, Scan(i, q.for)) = ColumnsOf(model, Built(i), q.for)
    BY <1>1, <2>1, ColumnsAre DEF IInv
  <2> QED
    BY <2>2, <2>3, <2>4
<1> QED
  BY <1>1, Invariance, PTL

\* Nothing is left out of a sequence that is flattened one by one.
LEMMA FlattenSingles ==
  ASSUME NEW X, NEW s \in Seq(X)
  PROVE  FlattenSeq([k \in DOMAIN s |-> <<s[k]>>]) = s
<1> DEFINE t == [k \in DOMAIN s |-> <<s[k]>>]
           n == Len(s)
<1>0. /\ n \in Nat /\ DOMAIN s = 1..n /\ \A k \in 1..n : s[k] \in X
      /\ DOMAIN t = 1..n /\ Len(t) = n /\ \A k \in 1..n : t[k] = <<s[k]>>
  <2>1. n \in Nat /\ DOMAIN s = 1..n /\ \A k \in 1..n : s[k] \in X
    OBVIOUS
  <2>2. DOMAIN t = 1..n /\ \A k \in 1..n : t[k] = <<s[k]>>
    BY <2>1
  <2> HIDE DEF t
  <2>3. Len(t) = n
    BY <2>1, <2>2, LenProperties
  <2> QED
    BY <2>1, <2>2, <2>3
<1> HIDE DEF t
<1>1. CASE n = 0
  <2>1. s = <<>> /\ t = <<>>
    BY <1>0, <1>1 DEF t
  <2> QED
    BY <2>1 DEF FlattenSeq, t
<1>2. CASE n # 0
  <2> DEFINE f == CHOOSE g : Flattening(t, g, n)
             Prefix(k) == /\ f[k] \in Seq(X) /\ Len(f[k]) = k
                          /\ \A j \in 1..k : f[k][j] = s[j]
  <2>1. Flattening(t, f, n)
    BY <1>0, FlatteningExists
  <2>2. FlattenSeq(t) = f[n]
    BY <1>0, <1>2 DEF FlattenSeq, Flattening
  <2> HIDE DEF f
  <2>3. \A k \in 1..n : f[k] = IF k = 1 THEN <<s[k]>> ELSE f[k - 1] \o <<s[k]>>
    BY <1>0, <2>1 DEF Flattening
  <2> DEFINE Bad == {k \in 1..n : ~Prefix(k)}
  <2>4. ASSUME Bad # {} PROVE FALSE
    <3>0. Bad \in SUBSET Nat
      BY <1>0
    <3>1. PICK k \in Bad : \A y \in Bad : k <= y
      <4> HIDE DEF Bad
      <4> QED
        BY <2>4, <3>0, LeastNat
    <3>2. k \in 1..n /\ s[k] \in X /\ ~Prefix(k)
      BY <1>0, <3>1
    <3>3. CASE k = 1
      <4>1. f[1] = <<s[1]>> /\ s[1] \in X
        BY <2>3, <3>2, <3>3, Zenon
      <4>2. f[1] \in Seq(X) /\ Len(f[1]) = 1 /\ f[1][1] = s[1]
        BY <4>1
      <4>3. \A j \in 1..1 : j = 1
        OBVIOUS
      <4> QED
        BY <3>2, <3>3, <4>2, <4>3, Zenon
    <3>4. CASE k # 1
      <4>1. k - 1 \in 1..n /\ k - 1 \notin Bad
        BY <1>0, <3>1, <3>2, <3>4
      <4>2. Prefix(k - 1)
        BY <4>1
      <4>3. f[k] = f[k - 1] \o <<s[k]>>
        BY <2>3, <3>2, <3>4
      <4>4. f[k] \in Seq(X) /\ Len(f[k]) = k /\ f[k][k] = s[k]
            /\ \A j \in 1..(k - 1) : f[k][j] = f[k - 1][j]
        BY <1>0, <3>2, <4>2, <4>3
      <4>5. \A j \in 1..k : j = k \/ j \in 1..(k - 1)
        BY <1>0, <3>2
      <4> QED
        BY <3>2, <4>2, <4>4, <4>5
    <3> QED
      BY <3>3, <3>4
  <2>5. Prefix(n)
    BY <1>0, <1>2, <2>4
  <2>6. f[n] = s
    BY <1>0, <2>5, SeqEqual
  <2> QED
    BY <2>2, <2>6 DEF t
<1> QED
  BY <1>1, <1>2

\* What ScanAll returns belongs to fields with a column, and is all of them, in
\* their order, when each field has one.
LEMMA DestinationsProperties ==
  ASSUME NEW m \in Models, NEW order \in Orders(m)
  PROVE  /\ Destinations(m, order) \in Seq({f \in DOMAIN m : m[f].SQL # 0})
         /\ (\A f \in DOMAIN m : m[f].SQL # 0) => Destinations(m, order) = order
<1> DEFINE Nth(k) == IF m[order[k]].SQL # 0 THEN <<order[k]>> ELSE <<>>
           Kept == {f \in DOMAIN m : m[f].SQL # 0}
<1>1. /\ Len(m) \in Nat /\ DOMAIN m = 1..Len(m)
      /\ order \in [DOMAIN m -> DOMAIN m] /\ order \in Seq(DOMAIN m)
      /\ DOMAIN order = 1..Len(m)
  <2>1. Len(m) \in Nat /\ DOMAIN m = 1..Len(m) /\ order \in [DOMAIN m -> DOMAIN m]
    BY ModelType, OrderType
  <2> QED
    BY <2>1, SeqDef
<1>2. Destinations(m, order) \in Seq(Kept)
  <2>1. \A k \in 1..Len(m) : Nth(k) \in Seq(Kept)
    <3> SUFFICES ASSUME NEW k \in 1..Len(m) PROVE Nth(k) \in Seq(Kept)
      OBVIOUS
    <3>1. order[k] \in DOMAIN m
      BY <1>1
    <3>2. CASE m[order[k]].SQL # 0
      <4>1. order[k] \in Kept
        BY <3>1, <3>2
      <4> HIDE DEF Kept
      <4> QED
        BY <3>2, <4>1
    <3>3. CASE m[order[k]].SQL = 0
      BY <3>3
    <3> QED
      BY <3>2, <3>3
  <2> HIDE DEF Nth, Kept
  <2>2. [k \in DOMAIN order |-> Nth(k)] \in Seq(Seq(Kept))
    BY <1>1, <2>1, SeqDef
  <2>3. FlattenSeq([k \in DOMAIN order |-> Nth(k)]) \in Seq(Kept)
    BY <2>2, FlattenSeqType
  <2> QED
    BY <2>3 DEF Destinations, Nth
<1>3. ASSUME \A f \in DOMAIN m : m[f].SQL # 0 PROVE Destinations(m, order) = order
  <2>1. \A k \in DOMAIN order : Nth(k) = <<order[k]>>
    BY <1>1, <1>3
  <2>2. [k \in DOMAIN order |-> Nth(k)] = [k \in DOMAIN order |-> <<order[k]>>]
    <3> HIDE DEF Nth
    <3> QED
      BY <2>1
  <2>3. FlattenSeq([k \in DOMAIN order |-> <<order[k]>>]) = order
    BY <1>1, FlattenSingles
  <2> QED
    BY <2>2, <2>3 DEF Destinations
<1> QED
  BY <1>2, <1>3

\* SelectAll has a column for every field, the empty one included.
LEMMA EmptyColumn ==
  ASSUME NEW m \in Models, NEW order \in Orders(m), NEW list \in Seq(DOMAIN m),
         SQLOf(m, list) = SQLOf(m, order), NEW f \in DOMAIN m
  PROVE  \E k \in DOMAIN list : m[list[k]].SQL = m[f].SQL
<1>1. order \in Bijection(DOMAIN m, DOMAIN m) /\ DOMAIN order = DOMAIN m
  BY OrderType DEF Orders
<1>2. PICK k \in DOMAIN m : order[k] = f
  BY <1>1 DEF Bijection, Surjection
<1>3. DOMAIN list = DOMAIN order
  BY DEF SQLOf
<1>4. \A j \in DOMAIN order : m[list[j]].SQL = m[order[j]].SQL
  BY <1>3 DEF SQLOf
<1> QED
  BY <1>1, <1>2, <1>3, <1>4

\* ScanAll sorts the fields into the order of the columns of SelectAll, on any
\* instance and whatever was called on it before, though sort.Slice is not
\* stable; only a field without a column spoils it.
THEOREM AllRowsFit == MappingSpec => ScanAllFitsSelectAll
<1> DEFINE HasColumns == \A f \in DOMAIN model : model[f].SQL # 0
           Fits == \A i \in Instances, q \in queries :
                     q.all /\ ScanningAll(i) =>
                       (SQLOf(model, Destinations(model, fields'[i])) = q.columns
                          <=> HasColumns)
<1>1. ASSUME IInv PROVE Fits
  <2> SUFFICES ASSUME NEW i \in Instances, NEW q \in queries, q.all, ScanningAll(i)
               PROVE  SQLOf(model, Destinations(model, fields'[i])) = q.columns
                        <=> HasColumns
    OBVIOUS
  <2>1. model \in Models /\ fields[i] \in Orders(model) /\ i \in DOMAIN fields
    BY <1>1 DEF IInv, MappingTypeOK
  <2>2. PICK order \in BySQL(model, fields[i]) : fields' = [fields EXCEPT ![i] = order]
    BY DEF ScanningAll
  <2>3. order \in Orders(model) /\ SQLOf(model, order) = SortedColumns(model)
    BY <2>1, BySQLProperties
  <2>4. q.columns = SortedColumns(model) /\ fields'[i] = order
    BY <1>1, <2>1, <2>2 DEF IInv, QueryInv
  <2>5. /\ Destinations(model, order) \in Seq({f \in DOMAIN model : model[f].SQL # 0})
        /\ HasColumns => Destinations(model, order) = order
    BY <2>1, <2>3, DestinationsProperties
  <2>6. ASSUME SQLOf(model, Destinations(model, order)) = SQLOf(model, order),
               NEW f \in DOMAIN model
        PROVE  model[f].SQL # 0
    <3>1. PICK list : list = Destinations(model, order)
      OBVIOUS
    <3>2. /\ list \in Seq(DOMAIN model)
          /\ \A k \in DOMAIN list : model[list[k]].SQL # 0
      BY <2>5, <3>1
    <3>3. \E k \in DOMAIN list : model[list[k]].SQL = model[f].SQL
      BY <2>1, <2>3, <2>6, <3>1, <3>2, EmptyColumn
    <3> QED
      BY <3>2, <3>3
  <2> QED
    BY <2>3, <2>4, <2>5, <2>6
<1>2. IInv /\ [MappingNext]_mappingVars => [Fits]_mappingVars
  BY <1>1
<1>3. [][Fits]_mappingVars => ScanAllFitsSelectAll
  BY DEF ScanAllFitsSelectAll
<1> QED
  BY <1>2, <1>3, Invariance, PTL DEF MappingSpec
=============================================================================
