-------------------------- MODULE ScanService_proofs --------------------------
(***************************************************************************)
(* The promises of the scans of a running bot, for any number of symbols   *)
(* and days and whatever the market data are: the active tickers are the   *)
(* candidates that rose most, leaders and laggards are those of connected  *)
(* groups, a float is asked for once, and a session does not begin with    *)
(* the ranking of an earlier day when its own day has one.                 *)
(***************************************************************************)
EXTENDS ScanService, FiniteSetTheorems, TLAPS

-----------------------------------------------------------------------------
(* Least and greatest elements, and induction over an interval.  The library *)
(* states induction of an operator; here it is stated of a set.              *)

\* A nonempty finite set of integers has a least element ...
LEMMA LeastElement ==
  ASSUME NEW T, T \subseteq Int, IsFiniteSet(T), T # {}
  PROVE  \E x \in T : \A y \in T : x <= y
<1> DEFINE F == {{y \in T : y <= x} : x \in T}
<1>1. F \in SUBSET (SUBSET T) /\ F # {}
  OBVIOUS
<1>2. F \subseteq FiniteSubsetsOf(T)
  BY <1>1, FS_Subset DEF FiniteSubsetsOf
<1> HIDE DEF F
<1>3. PICK A \in F : \A B \in F : ~(<<B, A>> \in StrictSubsetOrdering(T))
  BY <1>1, <1>2, FS_StrictSubsetOrderingWellFounded, WFMin
<1> USE DEF F
<1>4. PICK x \in T : A = {y \in T : y <= x}
  OBVIOUS
<1>5. ASSUME NEW y \in T, y < x PROVE FALSE
  <2> DEFINE B == {z \in T : z <= y}
  <2>a. B \in F
    OBVIOUS
  <2>b. x \in A /\ \A z \in T : z \in B => z \in A
    BY <1>4, <1>5
  <2>c. x \notin B
    BY <1>5
  <2>1. B \in F /\ B \subseteq A /\ x \in A /\ x \notin B
    BY <2>a, <2>b, <2>c
  <2> HIDE DEF B, F
  <2>2. <<B, A>> \in StrictSubsetOrdering(T)
    BY <1>1, <2>1 DEF StrictSubsetOrdering
  <2>3. QED
    BY <1>3, <2>1, <2>2
<1>6. QED
  BY <1>5

\* ... and a greatest one.
LEMMA GreatestElement ==
  ASSUME NEW T, T \subseteq Int, IsFiniteSet(T), T # {}
  PROVE  \E x \in T : \A y \in T : x >= y
<1> DEFINE F == {{y \in T : y >= x} : x \in T}
<1>1. F \in SUBSET (SUBSET T) /\ F # {}
  OBVIOUS
<1>2. F \subseteq FiniteSubsetsOf(T)
  BY <1>1, FS_Subset DEF FiniteSubsetsOf
<1> HIDE DEF F
<1>3. PICK A \in F : \A B \in F : ~(<<B, A>> \in StrictSubsetOrdering(T))
  BY <1>1, <1>2, FS_StrictSubsetOrderingWellFounded, WFMin
<1> USE DEF F
<1>4. PICK x \in T : A = {y \in T : y >= x}
  OBVIOUS
<1>5. ASSUME NEW y \in T, y > x PROVE FALSE
  <2> DEFINE B == {z \in T : z >= y}
  <2>a. B \in F
    OBVIOUS
  <2>b. x \in A /\ \A z \in T : z \in B => z \in A
    BY <1>4, <1>5
  <2>c. x \notin B
    BY <1>5
  <2>1. B \in F /\ B \subseteq A /\ x \in A /\ x \notin B
    BY <2>a, <2>b, <2>c
  <2> HIDE DEF B, F
  <2>2. <<B, A>> \in StrictSubsetOrdering(T)
    BY <1>1, <2>1 DEF StrictSubsetOrdering
  <2>3. QED
    BY <1>3, <2>1, <2>2
<1>6. QED
  BY <1>5

\* Induction over an interval, stated of a set.
LEMMA Upward ==
  ASSUME NEW a \in Int, NEW b \in Int, NEW S, a \in S,
         \A k \in a..b : k + 1 \in a..b /\ k \in S => k + 1 \in S
  PROVE  \A k \in a..b : k \in S
<1> DEFINE T == {k \in a..b : k \notin S}
<1> SUFFICES ASSUME T # {} PROVE FALSE
  OBVIOUS
<1>1. IsFiniteSet(T) /\ T \subseteq Int
  BY FS_Interval, FS_Subset
<1>2. PICK x \in T : \A y \in T : x <= y
  BY <1>1, LeastElement
<1>3. x # a /\ x - 1 \in a..b /\ x - 1 \notin T
  BY <1>2
<1>4. QED
  BY <1>2, <1>3

LEMMA MinOfTwo ==
  ASSUME NEW a \in Int, NEW b \in Int
  PROVE  Min({a, b}) = IF a <= b THEN a ELSE b
<1> DEFINE m == IF a <= b THEN a ELSE b
<1>1. m \in {a, b} /\ \A y \in {a, b} : m <= y
  OBVIOUS
<1>2. \A x \in {a, b} : (\A y \in {a, b} : x <= y) => x = m
  OBVIOUS
<1>3. QED
  BY <1>1, <1>2 DEF Min

LEMMA MinIsLeast ==
  ASSUME NEW T, T \subseteq Int, IsFiniteSet(T), T # {}
  PROVE  Min(T) \in T
BY LeastElement DEF Min

-----------------------------------------------------------------------------
(* The union-find.  Its trees are a forest, in which following the parents   *)
(* is a function; each union keeps it one, and joins two trees.              *)

\* The parents p form a forest: every tree has the root that r names, and the
\* depth d falls on the way to it.
Forest(p, r, d, D) ==
  /\ p \in [D -> D] /\ r \in [D -> D] /\ d \in [D -> Nat]
  /\ \A x \in D : /\ r[p[x]] = r[x] /\ p[r[x]] = r[x]
                  /\ p[x] = x => r[x] = x
                  /\ p[x] # x => d[p[x]] < d[x]

Finds(p, f) == f = [j \in DOMAIN p |-> IF p[j] = j THEN j ELSE f[p[j]]]

LEMMA RootUnfolds ==
  ASSUME NEW p, NEW i
  PROVE  Root(p, i) = (CHOOSE f : Finds(p, f))[i]
BY DEF Root, Finds

\* In a forest, following the parents has one outcome.
LEMMA FindsAgree ==
  ASSUME NEW D, NEW p, NEW r, NEW d, Forest(p, r, d, D), NEW f, Finds(p, f), NEW i \in D
  PROVE  f[i] = r[i]
<1> DEFINE S == {k \in Nat : \A x \in D : d[x] <= k => f[x] = r[x]}
<1>1. DOMAIN p = D /\ \A x \in D : p[x] \in D /\ r[x] \in D /\ d[x] \in Nat
  BY DEF Forest
<1>2. \A x \in D : f[x] = IF p[x] = x THEN x ELSE f[p[x]]
  BY <1>1, Zenon DEF Finds
<1>3. ASSUME NEW x \in D, p[x] # x => f[p[x]] = r[p[x]]
      PROVE  f[x] = r[x]
  BY <1>2, <1>3 DEF Forest
<1>4. 0 \in S
  BY <1>1, <1>3 DEF Forest
<1>5. ASSUME NEW k \in S PROVE k + 1 \in S
  <2> SUFFICES ASSUME NEW x \in D, d[x] <= k + 1 PROVE f[x] = r[x]
    OBVIOUS
  <2>1. p[x] # x => d[p[x]] <= k
    BY <1>1 DEF Forest
  <2>2. QED
    BY <1>1, <1>3, <2>1
<1> HIDE DEF S
<1>6. \A k \in 0..d[i] : k \in S
  BY <1>1, <1>4, <1>5, Upward
<1>7. QED
  BY <1>1, <1>6 DEF S

LEMMA RootIs ==
  ASSUME NEW D, NEW p, NEW r, NEW d, Forest(p, r, d, D), NEW i \in D
  PROVE  Root(p, i) = r[i]
<1>1. DOMAIN p = D /\ DOMAIN r = D
  BY DEF Forest
<1>2. \A x \in D : r[x] = IF p[x] = x THEN x ELSE r[p[x]]
  BY DEF Forest
<1>3. r = [x \in D |-> r[x]]
  BY DEF Forest
<1>4. Finds(p, r)
  BY <1>1, <1>2, <1>3 DEF Finds
<1>5. Finds(p, CHOOSE f : Finds(p, f))
  BY <1>4
<1> DEFINE up == CHOOSE f : Finds(p, f)
<1> HIDE DEF up
<1>6. up[i] = r[i]
  BY <1>5, FindsAgree DEF up
<1>7. QED
  BY <1>6, RootUnfolds DEF up

\* Whatever else it is, the root function of a forest is that of Root.
LEMMA UnionForest ==
  ASSUME NEW D, NEW p, NEW r, NEW d, Forest(p, r, d, D), NEW i \in D, NEW j \in D
  PROVE  \E s, e :
           /\ Forest(Union(p, i, j), s, e, D)
           /\ s = [x \in D |-> IF r[x] = r[i] THEN r[j] ELSE r[x]]
<1> DEFINE s == [x \in D |-> IF r[x] = r[i] THEN r[j] ELSE r[x]]
           e == [x \in D |-> IF r[x] = r[i] /\ r[i] # r[j]
                             THEN d[x] + d[r[j]] + 1 ELSE d[x]]
           q == [p EXCEPT ![r[i]] = r[j]]
<1>1. Union(p, i, j) = q
  <2>1. Root(p, i) = r[i] /\ Root(p, j) = r[j]
    BY RootIs
  <2>2. QED
    BY <2>1 DEF Union
<1>2. \A x \in D : /\ p[x] \in D /\ r[x] \in D /\ d[x] \in Nat
                   /\ r[p[x]] = r[x] /\ p[r[x]] = r[x] /\ r[r[x]] = r[x]
                   /\ p[x] = x => r[x] = x
                   /\ p[x] # x => d[p[x]] < d[x]
  BY DEF Forest
<1>3. q \in [D -> D] /\ s \in [D -> D]
  BY <1>2 DEF Forest
<1>4. e \in [D -> Nat]
  BY <1>2
<1>5. \A x \in D : /\ q[x] = IF x = r[i] THEN r[j] ELSE p[x]
                   /\ s[x] = IF r[x] = r[i] THEN r[j] ELSE r[x]
                   /\ e[x] = IF r[x] = r[i] /\ r[i] # r[j]
                             THEN d[x] + d[r[j]] + 1 ELSE d[x]
  BY DEF Forest
<1> HIDE DEF q, s, e
<1>6. ASSUME NEW x \in D
      PROVE  /\ s[q[x]] = s[x] /\ q[s[x]] = s[x]
             /\ q[x] = x => s[x] = x
             /\ q[x] # x => e[q[x]] < e[x]
  <2>1. s[q[x]] = s[x]
    BY <1>2, <1>5
  <2>2. q[s[x]] = s[x]
    BY <1>2, <1>5
  <2>3. q[x] = x => s[x] = x
    BY <1>2, <1>5
  <2>4. q[x] # x => e[q[x]] < e[x]
    BY <1>2, <1>5
  <2>5. QED
    BY <2>1, <2>2, <2>3, <2>4
<1>7. Forest(q, s, e, D)
  BY <1>3, <1>4, <1>6 DEF Forest
<1>8. QED
  BY <1>1, <1>7 DEF s

Alike(states, alike, i, j) == {states[i].symbol, states[j].symbol} \in alike

\* A set that holds with an index all that are alike.
Closed(S, states, alike) ==
  \A k \in S, l \in DOMAIN states : {states[k].symbol, states[l].symbol} \in alike => l \in S

\* p joins the indexes that were compared and are alike, and none that some
\* closed set tells apart.
Groups(p, r, states, alike, compared) ==
  /\ \E d : Forest(p, r, d, DOMAIN states)
  /\ \A S \in SUBSET DOMAIN states : Closed(S, states, alike) =>
       \A x \in S, y \in DOMAIN states : r[y] = r[x] => y \in S
  /\ \A x, y \in DOMAIN states :
       <<x, y>> \in compared /\ Alike(states, alike, x, y) => r[x] = r[y]

Grouped(p, states, alike, compared) ==
  \E r : Groups(p, r, states, alike, compared)

LEMMA UnionGroups ==
  ASSUME NEW states, NEW alike, NEW compared, NEW p, Grouped(p, states, alike, compared),
         NEW i \in DOMAIN states, NEW j \in DOMAIN states, Alike(states, alike, i, j)
  PROVE  Grouped(Union(p, i, j), states, alike, compared \cup {<<i, j>>})
<1> DEFINE D == DOMAIN states
<1>1. PICK r : Groups(p, r, states, alike, compared)
  BY DEF Grouped
<1>2. PICK d : Forest(p, r, d, D)
  BY <1>1 DEF Groups
<1>3. PICK s, e : /\ Forest(Union(p, i, j), s, e, D)
                  /\ s = [x \in D |-> IF r[x] = r[i] THEN r[j] ELSE r[x]]
  BY <1>2, UnionForest
<1>4. ASSUME NEW S \in SUBSET D, Closed(S, states, alike),
             NEW x \in S, NEW y \in D, s[y] = s[x]
      PROVE  y \in S
  <2>1. i \in S <=> j \in S
    <3>1. Alike(states, alike, j, i)
      BY DEF Alike
    <3>2. QED
      BY <1>4, <3>1 DEF Closed, Alike
  <2>2. \A u \in S, v \in D : r[v] = r[u] => v \in S
    BY <1>1, <1>4 DEF Groups
  <2>3. QED
    BY <1>3, <1>4, <2>1, <2>2
<1>5. ASSUME NEW x \in D, NEW y \in D,
             <<x, y>> \in compared \cup {<<i, j>>}, Alike(states, alike, x, y)
      PROVE  s[x] = s[y]
  <2>1. CASE <<x, y>> \in compared
    BY <1>1, <1>3, <1>5, <2>1 DEF Groups
  <2>2. CASE x = i /\ y = j
    BY <1>3, <2>2
  <2>3. QED
    BY <1>5, <2>1, <2>2
<1>6. Groups(Union(p, i, j), s, states, alike, compared \cup {<<i, j>>})
  BY <1>3, <1>4, <1>5 DEF Groups
<1>7. QED
  BY <1>6 DEF Grouped

\* What is not alike need not be joined.
LEMMA SkipGroups ==
  ASSUME NEW states, NEW alike, NEW compared, NEW p, Grouped(p, states, alike, compared),
         NEW i, NEW j, ~Alike(states, alike, i, j)
  PROVE  Grouped(p, states, alike, compared \cup {<<i, j>>})
<1>1. PICK r : Groups(p, r, states, alike, compared)
  BY DEF Grouped
<1>2. Groups(p, r, states, alike, compared \cup {<<i, j>>})
  BY <1>1 DEF Groups
<1>3. QED
  BY <1>2 DEF Grouped

-----------------------------------------------------------------------------
(* The inner loop *)

JoinStep(parent, states, alike, i, j, before) ==
  IF j = i THEN parent
  ELSE IF {states[i].symbol, states[j].symbol} \in alike
  THEN Union(before, i, j) ELSE before

\* g is the inner loop of row i up to m.
Joins(parent, states, alike, i, m, g) ==
  g = [j \in i..m |-> JoinStep(parent, states, alike, i, j, g[j - 1])]

LEMMA JoinsExist ==
  ASSUME NEW parent, NEW states, NEW alike, NEW i \in Int, NEW n \in Int, i <= n
  PROVE  \E g : Joins(parent, states, alike, i, n, g)
<1> DEFINE S == {m \in Int : \E g : Joins(parent, states, alike, i, m, g)}
           Step(j, before) == JoinStep(parent, states, alike, i, j, before)
<1>1. i \in S
  <2> DEFINE g == [j \in i..i |-> parent]
  <2>1. g = [j \in i..i |-> Step(j, g[j - 1])]
    BY DEF JoinStep
  <2> HIDE DEF g
  <2>2. QED
    BY <2>1 DEF Joins
<1>2. ASSUME NEW k \in i..n, k \in S PROVE k + 1 \in S
  <2>1. PICK g : Joins(parent, states, alike, i, k, g)
    BY <1>2
  <2> DEFINE h == [j \in i..(k + 1) |-> IF j <= k THEN g[j] ELSE Step(j, g[k])]
  <2>2. ASSUME NEW j \in i..(k + 1) PROVE h[j] = Step(j, h[j - 1])
    <3>1. CASE j = i
      <4>1. \A before : Step(j, before) = parent
        BY <3>1 DEF JoinStep
      <4>2. h[j] = g[j] /\ g[j] = Step(j, g[j - 1])
        BY <1>2, <2>1, <3>1 DEF Joins
      <4>3. QED
        BY <4>1, <4>2
    <3>2. CASE j # i /\ j <= k
      <4>1. h[j] = g[j] /\ h[j - 1] = g[j - 1]
        BY <1>2, <3>2
      <4>2. g[j] = Step(j, g[j - 1])
        BY <2>1, <3>2 DEF Joins
      <4>3. QED
        BY <4>1, <4>2
    <3>3. CASE j = k + 1
      <4>1. h[j] = Step(j, g[k]) /\ h[j - 1] = g[k]
        BY <1>2, <3>3
      <4>2. QED
        BY <4>1
    <3>4. QED
      BY <3>1, <3>2, <3>3
  <2>3. h = [j \in i..(k + 1) |-> h[j]]
    OBVIOUS
  <2> HIDE DEF h
  <2>4. Joins(parent, states, alike, i, k + 1, h)
    BY <2>2, <2>3, Zenon DEF Joins
  <2>5. QED
    BY <1>2, <2>4
<1> HIDE DEF S
<1>3. \A k \in i..n : k \in S
  <2>1. \A k \in i..n : k + 1 \in i..n /\ k \in S => k + 1 \in S
    BY <1>2
  <2>2. QED
    BY <1>1, <2>1, Upward
<1>4. QED
  BY <1>3 DEF S

\* Row i is compared with all that follow.
RowOf(i, n) == {<<i, j>> : j \in (i + 1)..n}

LEMMA JoinRowGroups ==
  ASSUME NEW states, NEW alike, NEW compared, NEW p, NEW n \in Nat,
         Len(states) = n, DOMAIN states = 1..n, NEW i \in 1..n,
         Grouped(p, states, alike, compared)
  PROVE  Grouped(JoinRow(p, states, alike, i), states, alike, compared \cup RowOf(i, n))
<1> DEFINE g == CHOOSE q : Joins(p, states, alike, i, n, q)
           S == {m \in Int : Grouped(g[m], states, alike, compared \cup RowOf(i, m))}
<1>0. i \in Int /\ n \in Int /\ i <= n
  OBVIOUS
<1>1. JoinRow(p, states, alike, i) = g[n]
  BY DEF JoinRow, Joins, JoinStep
<1>2. Joins(p, states, alike, i, n, g)
  <2>1. \E q : Joins(p, states, alike, i, n, q)
    BY <1>0, JoinsExist
  <2>2. QED
    BY <2>1
<1> HIDE DEF g
<1>3. \A j \in i..n : g[j] = JoinStep(p, states, alike, i, j, g[j - 1])
  BY <1>2, Zenon DEF Joins
<1>4. i \in S
  <2>1. g[i] = p
    <3>1. i \in i..n
      BY <1>0
    <3>2. \A before : JoinStep(p, states, alike, i, i, before) = p
      BY DEF JoinStep
    <3>3. QED
      BY <1>3, <3>1, <3>2
  <2>2. compared \cup RowOf(i, i) = compared
    BY DEF RowOf
  <2>3. Grouped(g[i], states, alike, compared \cup RowOf(i, i))
    BY <2>1, <2>2
  <2>4. QED
    BY <1>0, <2>3
<1>5. ASSUME NEW k \in i..n, k + 1 \in i..n, k \in S PROVE k + 1 \in S
  <2>1. g[k + 1] = JoinStep(p, states, alike, i, k + 1, g[k])
    BY <1>3, <1>5
  <2>2. g[k + 1] = IF Alike(states, alike, i, k + 1) THEN Union(g[k], i, k + 1) ELSE g[k]
    BY <2>1 DEF JoinStep, Alike
  <2>3. compared \cup RowOf(i, k + 1) = (compared \cup RowOf(i, k)) \cup {<<i, k + 1>>}
    BY DEF RowOf
  <2>4. i \in DOMAIN states /\ k + 1 \in DOMAIN states
    BY <1>5
  <2>5. Grouped(g[k], states, alike, compared \cup RowOf(i, k))
    BY <1>5
  <2>6. CASE Alike(states, alike, i, k + 1)
    <3>1. Grouped(Union(g[k], i, k + 1), states, alike,
                  (compared \cup RowOf(i, k)) \cup {<<i, k + 1>>})
      BY <2>4, <2>5, <2>6, UnionGroups
    <3>2. g[k + 1] = Union(g[k], i, k + 1)
      BY <2>2, <2>6
    <3>3. Grouped(g[k + 1], states, alike, compared \cup RowOf(i, k + 1))
      BY <2>3, <3>1, <3>2
    <3>4. QED
      BY <3>3
  <2>7. CASE ~Alike(states, alike, i, k + 1)
    BY <2>2, <2>3, <2>5, <2>7, SkipGroups
  <2>8. QED
    BY <2>6, <2>7
<1> HIDE DEF S
<1>6. \A k \in i..n : k \in S
  <2>1. \A k \in i..n : k + 1 \in i..n /\ k \in S => k + 1 \in S
    BY <1>5
  <2>2. QED
    BY <1>0, <1>4, <2>1, Upward
<1>7. QED
  BY <1>0, <1>1, <1>6 DEF S

-----------------------------------------------------------------------------
(* The outer loop *)

RowStep(states, alike, i, before) ==
  IF i = 0 THEN [k \in DOMAIN states |-> k] ELSE JoinRow(before, states, alike, i)

\* g is the outer loop up to row m.
Rows(states, alike, m, g) ==
  g = [i \in 0..m |-> RowStep(states, alike, i, g[i - 1])]

LEMMA RowsExist ==
  ASSUME NEW states, NEW alike, NEW n \in Nat
  PROVE  \E g : Rows(states, alike, n, g)
<1> DEFINE S == {m \in Int : \E g : Rows(states, alike, m, g)}
           Step(i, before) == RowStep(states, alike, i, before)
<1>1. 0 \in S
  <2> DEFINE g == [i \in 0..0 |-> [k \in DOMAIN states |-> k]]
  <2>1. g = [i \in 0..0 |-> Step(i, g[i - 1])]
    BY DEF RowStep
  <2> HIDE DEF g
  <2>2. QED
    BY <2>1 DEF Rows
<1>2. ASSUME NEW m \in 0..n, m \in S PROVE m + 1 \in S
  <2>1. PICK g : Rows(states, alike, m, g)
    BY <1>2
  <2> DEFINE h == [i \in 0..(m + 1) |-> IF i <= m THEN g[i] ELSE Step(i, g[m])]
  <2>2. ASSUME NEW i \in 0..(m + 1) PROVE h[i] = Step(i, h[i - 1])
    <3>1. CASE i = 0
      <4>1. \A before : Step(i, before) = [k \in DOMAIN states |-> k]
        BY <3>1 DEF RowStep
      <4>2. h[i] = g[i] /\ g[i] = Step(i, g[i - 1])
        BY <2>1, <3>1 DEF Rows
      <4>3. QED
        BY <4>1, <4>2
    <3>2. CASE i # 0 /\ i <= m
      <4>1. h[i] = g[i] /\ h[i - 1] = g[i - 1]
        BY <3>2
      <4>2. g[i] = Step(i, g[i - 1])
        BY <2>1, <3>2 DEF Rows
      <4>3. QED
        BY <4>1, <4>2
    <3>3. CASE i = m + 1
      <4>1. h[i] = Step(i, g[m]) /\ h[i - 1] = g[m]
        BY <3>3
      <4>2. QED
        BY <4>1
    <3>4. QED
      BY <3>1, <3>2, <3>3
  <2>3. h = [i \in 0..(m + 1) |-> h[i]]
    OBVIOUS
  <2> HIDE DEF h
  <2>4. Rows(states, alike, m + 1, h)
    BY <2>2, <2>3, Zenon DEF Rows
  <2>5. QED
    BY <2>4
<1> HIDE DEF S
<1>3. \A m \in 0..n : m \in S
  <2>1. \A m \in 0..n : m + 1 \in 0..n /\ m \in S => m + 1 \in S
    BY <1>2
  <2>2. QED
    BY <1>1, <2>1, Upward
<1>4. QED
  BY <1>3 DEF S

\* The pairs that the first m rows compare.
Compared(m, n) == {q \in (1..n) \X (1..n) : q[1] <= m /\ q[1] < q[2]}

LEMMA ClustersGroups ==
  ASSUME NEW states, NEW alike, NEW n \in Nat, Len(states) = n, DOMAIN states = 1..n
  PROVE  Grouped(Clusters(states, alike), states, alike, Compared(n, n))
<1> DEFINE g == CHOOSE q : Rows(states, alike, n, q)
           S == {m \in Int : Grouped(g[m], states, alike, Compared(m, n))}
<1>1. Clusters(states, alike) = g[n]
  BY DEF Clusters, Rows, RowStep
<1>2. Rows(states, alike, n, g)
  <2>1. \E q : Rows(states, alike, n, q)
    BY RowsExist
  <2>2. QED
    BY <2>1
<1> HIDE DEF g
<1>3. \A i \in 0..n : g[i] = RowStep(states, alike, i, g[i - 1])
  BY <1>2, Zenon DEF Rows
<1>4. 0 \in S
  <2> DEFINE D == DOMAIN states
             p == [k \in D |-> k]
             d == [k \in D |-> 0]
  <2>1. g[0] = p
    <3>1. \A before : RowStep(states, alike, 0, before) = p
      BY DEF RowStep
    <3>2. 0 \in 0..n
      OBVIOUS
    <3>3. QED
      BY <1>3, <3>1, <3>2
  <2>2. Forest(p, p, d, D)
    BY DEF Forest
  <2>3. Compared(0, n) = {}
    BY DEF Compared
  <2>4. Groups(p, p, states, alike, {})
    BY <2>2 DEF Groups
  <2>5. Grouped(g[0], states, alike, Compared(0, n))
    BY <2>1, <2>3, <2>4 DEF Grouped
  <2>6. QED
    BY <2>5
<1>5. ASSUME NEW m \in 0..n, m + 1 \in 0..n, m \in S PROVE m + 1 \in S
  <2>1. g[m + 1] = RowStep(states, alike, m + 1, g[m])
    BY <1>3, <1>5
  <2>2. g[m + 1] = JoinRow(g[m], states, alike, m + 1)
    BY <2>1 DEF RowStep
  <2>3. m + 1 \in 1..n /\ Grouped(g[m], states, alike, Compared(m, n))
    BY <1>5
  <2>4. Grouped(g[m + 1], states, alike, Compared(m, n) \cup RowOf(m + 1, n))
    BY <2>2, <2>3, JoinRowGroups
  <2>5. Compared(m + 1, n) = Compared(m, n) \cup RowOf(m + 1, n)
    BY <2>3 DEF Compared, RowOf
  <2>6. Grouped(g[m + 1], states, alike, Compared(m + 1, n))
    BY <2>4, <2>5
  <2>7. QED
    BY <2>6
<1> HIDE DEF S
<1>6. \A m \in 0..n : m \in S
  <2>1. \A m \in 0..n : m + 1 \in 0..n /\ m \in S => m + 1 \in S
    BY <1>5
  <2>2. QED
    BY <1>4, <2>1, Upward
<1>7. QED
  BY <1>1, <1>6 DEF S

-----------------------------------------------------------------------------
(* The roles *)

Members(states, alike, i) ==
  {j \in DOMAIN states :
     Root(Clusters(states, alike), j) = Root(Clusters(states, alike), i)}

Best(states, M) ==
  Min({j \in M : \A k \in M : LeaderScore(states[j]) >= LeaderScore(states[k])})

\* The union-find finds the connected groups.
LEMMA MembersAreLinked ==
  ASSUME NEW states, NEW alike, NEW n \in Nat, Len(states) = n, DOMAIN states = 1..n,
         NEW i \in 1..n
  PROVE  Members(states, alike, i) = Linked(states, alike, i)
<1> DEFINE p == Clusters(states, alike)
           D == DOMAIN states
<1>1. PICK r : Groups(p, r, states, alike, Compared(n, n))
  BY ClustersGroups DEF Grouped
<1>2. \A x \in D : Root(p, x) = r[x]
  <2>1. PICK d : Forest(p, r, d, D)
    BY <1>1 DEF Groups
  <2>2. QED
    BY <2>1, RootIs
<1> DEFINE C == {j \in D : r[j] = r[i]}
<1>3. Members(states, alike, i) = C
  BY <1>2 DEF Members
<1>4. Closed(C, states, alike)
  <2> SUFFICES ASSUME NEW k \in C, NEW l \in D, Alike(states, alike, k, l)
               PROVE  r[l] = r[i]
    BY DEF Closed, Alike
  <2>1. Alike(states, alike, l, k)
    BY DEF Alike
  <2>2. <<k, l>> \in Compared(n, n) \/ <<l, k>> \in Compared(n, n) \/ k = l
    BY DEF Compared
  <2>3. r[k] = r[l]
    BY <1>1, <2>1, <2>2 DEF Groups
  <2>4. QED
    BY <2>3
<1>5. ASSUME NEW j \in Linked(states, alike, i) PROVE j \in C
  <2>1. C \in SUBSET D /\ i \in C
    OBVIOUS
  <2>2. \A S \in SUBSET D : i \in S /\ Closed(S, states, alike) => j \in S
    BY DEF Linked, Closed
  <2> HIDE DEF C
  <2>3. QED
    BY <1>4, <2>1, <2>2
<1>6. ASSUME NEW j \in C PROVE j \in Linked(states, alike, i)
  <2>1. \A S \in SUBSET D : Closed(S, states, alike) => (i \in S => j \in S)
    BY <1>1 DEF Groups
  <2>2. QED
    BY <2>1 DEF Linked, Closed
<1>7. QED
  BY <1>3, <1>5, <1>6

\* Of a group with scores there is a first best.
LEMMA BestIsBest ==
  ASSUME NEW states, NEW n \in Nat, NEW M \in SUBSET (1..n), M # {},
         \A j \in M : LeaderScore(states[j]) \in Int
  PROVE  /\ Best(states, M) \in M
         /\ \A k \in M : LeaderScore(states[Best(states, M)]) >= LeaderScore(states[k])
<1> DEFINE Top1 == {j \in M : \A k \in M : LeaderScore(states[j]) >= LeaderScore(states[k])}
           score == [j \in M |-> LeaderScore(states[j])]
           T == {score[j] : j \in M}
<1>1. IsFiniteSet(M) /\ M \subseteq Int
  <2>1. IsFiniteSet(1..n)
    BY FS_Interval
  <2>2. IsFiniteSet(M)
    BY <2>1, FS_Subset
  <2>3. QED
    BY <2>2
<1>2. IsFiniteSet(T) /\ T \subseteq Int /\ T # {}
  <2>1. score \in Surjection(M, T)
    BY DEF Surjection
  <2>2. IsFiniteSet(T)
    BY <1>1, <2>1, FS_Surjection
  <2>3. QED
    BY <2>2
<1>3. PICK x \in T : \A y \in T : x >= y
  BY <1>2, GreatestElement
<1>4. PICK j \in M : x = score[j]
  BY <1>3
<1>5. j \in Top1
  BY <1>3, <1>4
<1>6. IsFiniteSet(Top1) /\ Top1 \subseteq Int
  BY <1>1, FS_Subset
<1> HIDE DEF Top1
<1>7. Min(Top1) \in Top1
  BY <1>5, <1>6, MinIsLeast
<1>8. Best(states, M) = Min(Top1)
  BY DEF Best, Top1
<1>9. QED
  BY <1>7, <1>8 DEF Top1

LEMMA RoleOf ==
  ASSUME NEW states, NEW alike, NEW i \in DOMAIN states
  PROVE  AssignRoles(states, alike)[i] =
           IF Cardinality(Members(states, alike, i)) = 1 THEN "standalone"
           ELSE IF i = Best(states, Members(states, alike, i)) THEN "leader"
           ELSE IF states[i].has_news THEN "laggard" ELSE "standalone"
BY Zenon DEF AssignRoles, Members, Best

LEMMA RolesOfGroups ==
  ASSUME NEW states, NEW alike, NEW n \in Nat, Len(states) = n, DOMAIN states = 1..n,
         \A j \in 1..n : LeaderScore(states[j]) \in Int
  PROVE  GroupsHaveRoles(states, alike)
<1> DEFINE role == AssignRoles(states, alike)
<1> SUFFICES ASSUME NEW i \in 1..n
             PROVE  LET L == Linked(states, alike, i)
                    IN  /\ (\E j \in L : role[j] = "leader") <=> Cardinality(L) > 1
                        /\ role[i] = "leader" =>
                             \A j \in L \ {i} :
                               /\ role[j] # "leader"
                               /\ LeaderScore(states[i]) >= LeaderScore(states[j])
                        /\ role[i] = "laggard" => states[i].has_news
                        /\ role[i] = "standalone" /\ Cardinality(L) > 1 => ~states[i].has_news
  BY Zenon DEF GroupsHaveRoles
<1> DEFINE L == Linked(states, alike, i)
           b == Best(states, L)
<1>1. L = Members(states, alike, i) /\ i \in L /\ L \in SUBSET (1..n)
  <2>1. L = Members(states, alike, i)
    BY MembersAreLinked
  <2>2. QED
    BY <2>1 DEF Members
<1>2. \A j \in L : Members(states, alike, j) = L
  BY <1>1 DEF Members
<1>3. b \in L /\ \A k \in L : LeaderScore(states[b]) >= LeaderScore(states[k])
  BY <1>1, BestIsBest
<1>4. \A j \in L : role[j] = IF Cardinality(L) = 1 THEN "standalone"
                             ELSE IF j = b THEN "leader"
                             ELSE IF states[j].has_news THEN "laggard" ELSE "standalone"
  BY <1>1, <1>2, RoleOf
<1>5. IsFiniteSet(L) /\ Cardinality(L) \in Nat /\ Cardinality(L) # 0
  <2>1. IsFiniteSet(1..n)
    BY FS_Interval
  <2>2. IsFiniteSet(L)
    BY <1>1, <2>1, FS_Subset
  <2>3. Cardinality(L) \in Nat /\ (Cardinality(L) = 0 <=> L = {})
    BY <2>2, FS_EmptySet, FS_CardinalityType
  <2>4. QED
    BY <1>1, <2>2, <2>3
<1> HIDE DEF role, L, b
<1>6. (\E j \in L : role[j] = "leader") <=> Cardinality(L) > 1
  BY <1>3, <1>4, <1>5
<1>7. role[i] = "leader" =>
        \A j \in L \ {i} :
          role[j] # "leader" /\ LeaderScore(states[i]) >= LeaderScore(states[j])
  BY <1>1, <1>3, <1>4
<1>8. role[i] = "laggard" => states[i].has_news
  BY <1>1, <1>4
<1>9. role[i] = "standalone" /\ Cardinality(L) > 1 => ~states[i].has_news
  <2> SUFFICES ASSUME role[i] = "standalone", Cardinality(L) > 1, states[i].has_news
               PROVE  FALSE
    OBVIOUS
  <2>1. i = b
    BY <1>1, <1>4
  <2>2. QED
    BY <1>3, <1>4, <2>1
<1>10. QED
  BY <1>6, <1>7, <1>8, <1>9 DEF role, L

-----------------------------------------------------------------------------
(* The active tickers *)

\* Who is sorted earlier has fewer before.
LEMMA AheadShrinks ==
  ASSUME NEW states, NEW n \in Nat, NEW M \in SUBSET (1..n),
         \A i \in M : states[i].pct_change \in Int,
         NEW i \in M, NEW j \in Ahead(states, M, i)
  PROVE  /\ Cardinality(Ahead(states, M, j)) \in Nat
         /\ Cardinality(Ahead(states, M, i)) \in Nat
         /\ Cardinality(Ahead(states, M, j)) < Cardinality(Ahead(states, M, i))
<1> DEFINE A == Ahead(states, M, i)
           B == Ahead(states, M, j)
<1>1. IsFiniteSet(1..n)
  BY FS_Interval
<1>2. A \in SUBSET (1..n) /\ j \in M /\ i \in Int /\ j \in Int
  <2>1. A \subseteq M /\ j \in A
    BY DEF Ahead
  <2> HIDE DEF A
  <2>2. A \in SUBSET (1..n) /\ j \in M
    BY <2>1
  <2>3. i \in Int /\ j \in Int
    BY <2>2
  <2>4. QED
    BY <2>2, <2>3
<1>3. IsFiniteSet(A)
  BY <1>1, <1>2, FS_Subset
<1>4. B \subseteq A
  <2> SUFFICES ASSUME NEW k \in M, k \in B PROVE k \in A
    BY DEF Ahead
  <2>1. /\ k \in Int /\ states[k].pct_change \in Int
        /\ states[i].pct_change \in Int /\ states[j].pct_change \in Int
    BY <1>2
  <2>2. QED
    BY <1>2, <2>1 DEF Ahead
<1>5. j \in A /\ j \notin B
  BY <1>2 DEF Ahead
<1> HIDE DEF A, B
<1>6. IsFiniteSet(B) /\ Cardinality(B) <= Cardinality(A) /\ Cardinality(A) # Cardinality(B)
  BY <1>3, <1>4, <1>5, FS_Subset
<1>7. Cardinality(A) \in Nat /\ Cardinality(B) \in Nat
  BY <1>3, <1>6, FS_CardinalityType
<1>8. QED
  BY <1>6, <1>7 DEF A, B

\* The places of a list are 0, 1, ... without a gap or a tie.
LEMMA Places ==
  ASSUME NEW states, NEW n \in Nat, NEW M \in SUBSET (1..n),
         \A i \in M : states[i].pct_change \in Int
  PROVE  LET place == [i \in M |-> Cardinality(Ahead(states, M, i))]
         IN  /\ IsFiniteSet(M) /\ Cardinality(M) \in Nat
             /\ place \in Bijection(M, 0..(Cardinality(M) - 1))
<1> DEFINE place == [i \in M |-> Cardinality(Ahead(states, M, i))]
           c == Cardinality(M)
<1>1. IsFiniteSet(1..n)
  BY FS_Interval
<1>2. IsFiniteSet(M)
  BY <1>1, FS_Subset
<1>3. c \in Nat
  BY <1>2, FS_CardinalityType
<1>4. ASSUME NEW i \in M PROVE place[i] \in 0..(c - 1)
  <2> DEFINE A == Ahead(states, M, i)
  <2>1. A \subseteq M /\ i \in M /\ i \notin A
    BY DEF Ahead
  <2> HIDE DEF A
  <2>2. IsFiniteSet(A) /\ Cardinality(A) <= c /\ c # Cardinality(A)
    BY <1>2, <2>1, FS_Subset
  <2>3. Cardinality(A) \in Nat
    BY <2>2, FS_CardinalityType
  <2>4. Cardinality(A) \in 0..(c - 1)
    BY <1>3, <2>2, <2>3
  <2>5. QED
    BY <2>4 DEF A
<1>5. ASSUME NEW i \in M, NEW j \in M, i # j PROVE place[i] # place[j]
  <2>1. \A k \in M : k \in Int
    OBVIOUS
  <2>2. i \in Ahead(states, M, j) \/ j \in Ahead(states, M, i)
    BY <1>5, <2>1 DEF Ahead
  <2>3. Cardinality(Ahead(states, M, i)) # Cardinality(Ahead(states, M, j))
    <3>1. CASE i \in Ahead(states, M, j)
      <4>1. /\ Cardinality(Ahead(states, M, i)) \in Nat
            /\ Cardinality(Ahead(states, M, j)) \in Nat
            /\ Cardinality(Ahead(states, M, i)) < Cardinality(Ahead(states, M, j))
        BY <3>1, AheadShrinks
      <4>2. QED
        BY <4>1
    <3>2. CASE j \in Ahead(states, M, i)
      <4>1. /\ Cardinality(Ahead(states, M, j)) \in Nat
            /\ Cardinality(Ahead(states, M, i)) \in Nat
            /\ Cardinality(Ahead(states, M, j)) < Cardinality(Ahead(states, M, i))
        BY <3>2, AheadShrinks
      <4>2. QED
        BY <4>1
    <3>3. QED
      BY <2>2, <3>1, <3>2
  <2>4. QED
    BY <2>3
<1>6. place \in [M -> 0..(c - 1)]
  BY <1>4
<1> HIDE DEF place
<1>7. place \in Injection(M, 0..(c - 1))
  BY <1>5, <1>6 DEF Injection, IsInjective
<1>8. IsFiniteSet(0..(c - 1)) /\ Cardinality(0..(c - 1)) = c
  BY <1>3, FS_Interval
<1>9. place \in Surjection(M, 0..(c - 1))
  BY <1>7, <1>8, FS_Injection
<1>10. QED
  BY <1>2, <1>3, <1>7, <1>9 DEF Bijection, place

\* The active tickers are as many as there is room for, and the first.
LEMMA TopOfList ==
  ASSUME NEW states, NEW n \in Nat, NEW M \in SUBSET (1..n),
         \A i \in M : states[i].pct_change \in Int, NEW a \in Nat
  PROVE  /\ IsFiniteSet(M) /\ Cardinality(M) \in Nat
         /\ Top(states, M, a) \subseteq M
         /\ Cardinality(Top(states, M, a)) = IF a <= Cardinality(M) THEN a ELSE Cardinality(M)
         /\ \A i \in Top(states, M, a), j \in M \ Top(states, M, a) :
              states[i].pct_change >= states[j].pct_change
<1> DEFINE place == [i \in M |-> Cardinality(Ahead(states, M, i))]
           c == Cardinality(M)
           T == Top(states, M, a)
           m == IF a <= c THEN a ELSE c
<1>1. IsFiniteSet(M) /\ c \in Nat /\ place \in Bijection(M, 0..(c - 1))
  BY Places
<1>2. T = {i \in M : place[i] < a}
  BY DEF Top
<1>3. \A i \in T, j \in M \ T : states[i].pct_change >= states[j].pct_change
  <2> SUFFICES ASSUME NEW i \in T, NEW j \in M \ T,
                      ~(states[i].pct_change >= states[j].pct_change)
               PROVE  FALSE
    OBVIOUS
  <2>1. i \in M /\ j \in M /\ place[i] < a /\ ~(place[j] < a)
    BY <1>2
  <2>2. j \in Ahead(states, M, i)
    BY <2>1 DEF Ahead
  <2>3. place[j] < place[i] /\ place[j] \in Nat /\ place[i] \in Nat
    BY <2>1, <2>2, AheadShrinks
  <2>4. QED
    BY <2>1, <2>3
<1> HIDE DEF place, T
<1>4. \A i \in M : place[i] \in 0..(c - 1)
  BY <1>1 DEF Bijection, Injection, IsInjective
<1>5. \A k \in 0..(c - 1) : \E i \in M : place[i] = k
  BY <1>1 DEF Bijection, Surjection
<1>6. \A i, j \in M : place[i] = place[j] => i = j
  BY <1>1 DEF Bijection, Injection, IsInjective
<1> DEFINE f == [i \in T |-> place[i]]
<1> HIDE DEF c
<1>7. m \in Nat /\ m <= c /\ m <= a
  BY <1>1
<1>8. f \in [T -> 0..(m - 1)]
  <2>1. ASSUME NEW i \in T PROVE place[i] \in 0..(m - 1)
    <3>1. place[i] \in 0..(c - 1) /\ place[i] < a
      BY <1>2, <1>4
    <3>2. QED
      BY <1>1, <3>1
  <2>2. QED
    BY <2>1
<1>9. \A k \in 0..(m - 1) : \E i \in T : f[i] = k
  BY <1>1, <1>2, <1>5, <1>7
<1>10. \A i, j \in T : f[i] = f[j] => i = j
  BY <1>2, <1>6
<1> HIDE DEF f, m
<1>11. f \in Injection(T, 0..(m - 1)) /\ f \in Surjection(T, 0..(m - 1))
  BY <1>8, <1>9, <1>10 DEF Injection, IsInjective, Surjection
<1>12. IsFiniteSet(0..(m - 1)) /\ Cardinality(0..(m - 1)) = m
  BY <1>7, FS_Interval
<1>13. Cardinality(T) = m
  BY <1>11, <1>12, FS_Injection
<1>14. T \subseteq M
  BY <1>2
<1>15. QED
  BY <1>1, <1>3, <1>13, <1>14 DEF T, m, c

\* A list of candidates, each symbol once.
TickerStates ==
  [symbol : Int, pct_change : Int, favor : Int, has_news : BOOLEAN, tradable : BOOLEAN]

Distinct(list) == \A i, j \in DOMAIN list : list[i].symbol = list[j].symbol => i = j

LEMMA ListFacts ==
  ASSUME NEW list \in Seq(TickerStates)
  PROVE  /\ Len(list) \in Nat /\ DOMAIN list = 1..Len(list)
         /\ \A i \in 1..Len(list) :
              /\ list[i] \in TickerStates
              /\ list[i].symbol \in Int /\ list[i].pct_change \in Int
              /\ list[i].favor \in Int /\ list[i].has_news \in BOOLEAN
              /\ list[i].tradable \in BOOLEAN
<1>1. Len(list) \in Nat /\ DOMAIN list = 1..Len(list)
  OBVIOUS
<1>2. \A i \in 1..Len(list) : list[i] \in TickerStates
  OBVIOUS
<1>3. \A s \in TickerStates :
        /\ s.symbol \in Int /\ s.pct_change \in Int /\ s.favor \in Int
        /\ s.has_news \in BOOLEAN /\ s.tradable \in BOOLEAN
  BY DEF TickerStates
<1>4. QED
  BY <1>1, <1>2, <1>3

LEMMA SameCount ==
  ASSUME NEW list \in Seq(TickerStates), Distinct(list),
         NEW I \in SUBSET (DOMAIN list)
  PROVE  Cardinality({list[i] : i \in I}) = Cardinality(I)
<1> DEFINE T == {list[i] : i \in I}
           f == [i \in I |-> list[i]]
<1>1. f \in [I -> T] /\ \A t \in T : \E i \in I : f[i] = t
  OBVIOUS
<1>2. \A i, j \in I : f[i] = f[j] => i = j
  BY DEF Distinct
<1> HIDE DEF f, T
<1>3. f \in Bijection(I, T)
  BY <1>1, <1>2 DEF Bijection, Injection, IsInjective, Surjection
<1>4. IsFiniteSet(I)
  <2>1. DOMAIN list = 1..Len(list) /\ Len(list) \in Nat
    BY ListFacts
  <2>2. IsFiniteSet(1..Len(list))
    BY <2>1, FS_Interval
  <2>3. QED
    BY <2>1, <2>2, FS_Subset
<1>5. ExistsBijection(I, T)
  BY <1>3 DEF ExistsBijection
<1>6. QED
  BY <1>4, <1>5, FS_Bijection DEF T

\* ActiveAreTheMovers of one list.
Movers(list, movers) ==
  LET tradable == {s \in ToSet(list) : s.tradable}
      moving == {s \in tradable : s.symbol \in movers}
      pool == IF moving # {} THEN moving ELSE tradable
      top == {s \in ToSet(list) : s.symbol \in ActiveSet(list, movers, {}, Cfg)}
  IN  /\ top \subseteq pool
      /\ Cardinality(top) = Min({Cfg.active_tickers_n, Cardinality(pool)})
      /\ \A s \in top, t \in pool \ top : s.pct_change >= t.pct_change

LEMMA ListMovers ==
  ASSUME NEW list \in Seq(TickerStates), Distinct(list), NEW movers
  PROVE  Movers(list, movers)
<1> DEFINE tradable == {s \in ToSet(list) : s.tradable}
           moving == {s \in tradable : s.symbol \in movers}
           pool == IF moving # {} THEN moving ELSE tradable
           top == {s \in ToSet(list) : s.symbol \in ActiveSet(list, movers, {}, Cfg)}
           D == DOMAIN list
           P == Pool(list, movers)
           T == Top(list, P, Cfg.active_tickers_n)
           a == Cfg.active_tickers_n
<1>1. ToSet(list) = {list[i] : i \in D}
  BY DEF ToSet
<1>2. Len(list) \in Nat /\ D = 1..Len(list) /\ \A i \in D : list[i].pct_change \in Int
  BY ListFacts
<1>3. P \in SUBSET D
  BY DEF Pool, Tradable
<1>4. a \in Nat
  BY ScanAssumption DEF IsScannerConfig
<1>5. /\ IsFiniteSet(P) /\ Cardinality(P) \in Nat /\ T \subseteq P
      /\ Cardinality(T) = IF a <= Cardinality(P) THEN a ELSE Cardinality(P)
      /\ \A i \in T, j \in P \ T : list[i].pct_change >= list[j].pct_change
  <2> HIDE DEF P, a
  <2>1. P \in SUBSET (1..Len(list)) /\ \A i \in P : list[i].pct_change \in Int
    BY <1>2, <1>3
  <2>2. QED
    BY <1>2, <1>4, <2>1, TopOfList DEF a
<1>6. pool = {list[i] : i \in P}
  <2>1. tradable = {list[i] : i \in Tradable(list)}
    BY <1>1 DEF Tradable
  <2> DEFINE both == {i \in Tradable(list) : list[i].symbol \in movers}
  <2>2. moving = {list[i] : i \in both}
    BY <2>1
  <2>3. moving # {} => movers # {}
    OBVIOUS
  <2>4. moving # {} <=> both # {}
    BY <2>2
  <2>5. P = IF movers # {} /\ both # {} THEN both ELSE Tradable(list)
    BY DEF Pool
  <2> HIDE DEF tradable, moving, both, P
  <2>6. QED
    BY <2>1, <2>2, <2>3, <2>4, <2>5
<1>7. top = {list[i] : i \in T}
  <2>1. ActiveSet(list, movers, {}, Cfg) = {list[i].symbol : i \in T}
    BY DEF ActiveSet, TopN
  <2>2. T \subseteq D
    BY <1>3, <1>5
  <2> HIDE DEF T, D
  <2>3. ASSUME NEW i \in D
        PROVE  list[i].symbol \in {list[j].symbol : j \in T} <=> i \in T
    BY <2>2 DEF Distinct, D
  <2>4. top = {s \in {list[i] : i \in D} : s.symbol \in {list[j].symbol : j \in T}}
    BY <1>1, <2>1
  <2> HIDE DEF top
  <2>5. QED
    BY <2>2, <2>3, <2>4
<1> HIDE DEF tradable, moving, pool, top, P, T, D
<1>8. Cardinality(top) = Cardinality(T) /\ Cardinality(pool) = Cardinality(P)
  BY <1>3, <1>5, <1>6, <1>7, SameCount DEF D
<1>9. top \subseteq pool
  BY <1>5, <1>6, <1>7
<1>10. Cardinality(top) = Min({a, Cardinality(pool)})
  BY <1>4, <1>5, <1>8, MinOfTwo
<1>11. \A s \in top, t \in pool \ top : s.pct_change >= t.pct_change
  BY <1>5, <1>6, <1>7
<1>12. QED
  BY <1>9, <1>10, <1>11 DEF Movers, tradable, moving, pool, top

-----------------------------------------------------------------------------
(* The lists that the scans make *)

\* What the market data client can return of a symbol.
QuoteType == [bars : BOOLEAN, price : Nat, prev_close : Nat, volume : Nat, favor : Nat]

\* Every scan has found each symbol at most once, all of them before the one it
\* is at.
Listed ==
  /\ pc \in [Callers -> {"idle", "next", "asking", "done", "ranking"}]
  /\ at \in [Callers -> Int]
  /\ quote \in [Callers -> QuoteType]
  /\ found \in [Callers -> Seq(TickerStates)]
  /\ \A c \in Callers :
       /\ Distinct(found[c])
       /\ \A i \in DOMAIN found[c] : found[c][i].symbol < at[c]

LEMMA CandidateType ==
  ASSUME NEW s \in Int, NEW q \in QuoteType, NEW shares, NEW news \in BOOLEAN
  PROVE  /\ Candidate(s, q, shares, news, Cfg) \in TickerStates
         /\ Candidate(s, q, shares, news, Cfg).symbol = s
<1>1. q.price \in Nat /\ q.prev_close \in Nat /\ q.favor \in Nat
  BY DEF QuoteType
<1>2. GapPct(q.price, q.prev_close) \in Int
  <2>1. CASE q.prev_close = 0
    BY <2>1 DEF GapPct
  <2>2. CASE q.prev_close # 0
    <3>1. q.prev_close > 0 /\ (q.price - q.prev_close) * 100 \in Int
      BY <1>1, <2>2
    <3>2. QED
      BY <1>1, <2>2, <3>1 DEF GapPct
  <2>3. QED
    BY <2>1, <2>2
<1>3. (shares # UnknownFloat \/ Cfg.include_unknown_float) \in BOOLEAN
  OBVIOUS
<1> HIDE DEF GapPct
<1>4. QED
  BY <1>1, <1>2, <1>3 DEF Candidate, TickerStates

LEMMA AppendListed ==
  ASSUME NEW list \in Seq(TickerStates), NEW n \in Int, Distinct(list),
         \A i \in DOMAIN list : list[i].symbol < n,
         NEW s \in TickerStates, s.symbol = n
  PROVE  /\ Append(list, s) \in Seq(TickerStates) /\ Distinct(Append(list, s))
         /\ \A i \in DOMAIN Append(list, s) : Append(list, s)[i].symbol < n + 1
<1> DEFINE more == Append(list, s)
           m == Len(list)
<1>1. /\ m \in Nat /\ DOMAIN list = 1..m
      /\ \A i \in 1..m : list[i] \in TickerStates /\ list[i].symbol \in Int
  BY ListFacts
<1>2. /\ more \in Seq(TickerStates) /\ DOMAIN more = 1..(m + 1)
      /\ \A i \in 1..(m + 1) : more[i] = IF i <= m THEN list[i] ELSE s
  BY <1>1
<1> HIDE DEF more, m
<1>3. \A i \in 1..(m + 1) : more[i].symbol < n + 1 /\ (more[i].symbol = n => i = m + 1)
  BY <1>1, <1>2
<1>4. ASSUME NEW i \in 1..(m + 1), NEW j \in 1..(m + 1), more[i].symbol = more[j].symbol
      PROVE  i = j
  <2>1. CASE i <= m /\ j <= m
    BY <1>1, <1>2, <1>4, <2>1 DEF Distinct
  <2>2. CASE ~(i <= m /\ j <= m)
    BY <1>1, <1>2, <1>3, <1>4, <2>2
  <2>3. QED
    BY <2>1, <2>2
<1>5. QED
  BY <1>2, <1>3, <1>4 DEF Distinct, more

LEMMA EvaluatedListed ==
  ASSUME Listed, NEW c \in Callers, NEW passed \in BOOLEAN, NEW q, passed => q \in QuoteType,
         NEW shares, Evaluated(c, passed, q, shares), quote' \in [Callers -> QuoteType]
  PROVE  Listed'
<1> DEFINE more == Append(found[c], Candidate(at[c], q, shares, FALSE, Cfg))
<1>1. /\ at' = [at EXCEPT ![c] = at[c] + 1]
      /\ pc' = [pc EXCEPT ![c] = IF at[c] = N THEN "done" ELSE "next"]
      /\ \/ found' = found
         \/ passed /\ found' = [found EXCEPT ![c] = more]
  BY DEF Evaluated
<1>2. at[c] \in Int /\ found[c] \in Seq(TickerStates)
  BY DEF Listed
<1>3. at' \in [Callers -> Int]
  BY <1>1, <1>2 DEF Listed
<1>4. pc' \in [Callers -> {"idle", "next", "asking", "done", "ranking"}]
  BY <1>1 DEF Listed
<1>5. \A d \in Callers : at[d] \in Int /\ (d # c => at'[d] = at[d]) /\ at'[c] = at[c] + 1
  BY <1>1 DEF Listed
<1>6. CASE found' = found
  <2>1. ASSUME NEW d \in Callers
        PROVE  \A i \in DOMAIN found[d] : found[d][i].symbol < at'[d]
    <3>1. \A i \in DOMAIN found[d] : found[d][i].symbol \in Int
      BY ListFacts DEF Listed
    <3>2. \A i \in DOMAIN found[d] : found[d][i].symbol < at[d]
      BY DEF Listed
    <3>3. QED
      BY <1>5, <3>1, <3>2
  <2>2. QED
    BY <1>3, <1>4, <1>6, <2>1 DEF Listed
<1>7. CASE passed /\ found' = [found EXCEPT ![c] = more]
  <2>1. /\ Candidate(at[c], q, shares, FALSE, Cfg) \in TickerStates
        /\ Candidate(at[c], q, shares, FALSE, Cfg).symbol = at[c]
    BY <1>2, <1>7, CandidateType
  <2>2. /\ more \in Seq(TickerStates) /\ Distinct(more)
        /\ \A i \in DOMAIN more : more[i].symbol < at[c] + 1
    BY <1>2, <2>1, AppendListed DEF Listed
  <2> HIDE DEF more
  <2>3. found' \in [Callers -> Seq(TickerStates)]
    BY <1>7, <2>2 DEF Listed
  <2>4. \A d \in Callers : found'[d] = IF d = c THEN more ELSE found[d]
    BY <1>7 DEF Listed
  <2>5. ASSUME NEW d \in Callers
        PROVE  /\ Distinct(found'[d])
               /\ \A i \in DOMAIN found'[d] : found'[d][i].symbol < at'[d]
    BY <1>5, <2>2, <2>4 DEF Listed
  <2>6. QED
    BY <1>3, <1>4, <2>3, <2>5 DEF Listed
<1>8. QED
  BY <1>1, <1>6, <1>7

\* A call begins and ends with an empty list.
LEMMA EmptyListed ==
  ASSUME Listed, NEW c \in Callers, NEW p \in {"next", "idle"},
         pc' = [pc EXCEPT ![c] = p], at' = [at EXCEPT ![c] = 1],
         found' = [found EXCEPT ![c] = << >>], quote' = quote
  PROVE  Listed'
<1>1. << >> \in Seq(TickerStates) /\ Distinct(<< >>) /\ DOMAIN << >> = {}
  BY DEF Distinct
<1>2. found' \in [Callers -> Seq(TickerStates)]
  BY <1>1 DEF Listed
<1>3. \A d \in Callers : found'[d] = (IF d = c THEN << >> ELSE found[d])
                         /\ at'[d] = IF d = c THEN 1 ELSE at[d]
  BY DEF Listed
<1>4. \A d \in Callers :
        Distinct(found'[d]) /\ \A i \in DOMAIN found'[d] : found'[d][i].symbol < at'[d]
  BY <1>1, <1>3 DEF Listed
<1>5. QED
  BY <1>2, <1>4 DEF Listed

LEMMA NoQuoteType == NoQuote \in QuoteType
BY DEF NoQuote, QuoteType

LEMMA InitListed == Init => Listed
<1> SUFFICES ASSUME Init PROVE Listed
  OBVIOUS
<1>1. << >> \in Seq(TickerStates) /\ Distinct(<< >>) /\ DOMAIN << >> = {}
  BY DEF Distinct
<1>2. \A c \in Callers : found[c] = << >>
  BY DEF Init
<1>3. found \in [Callers -> Seq(TickerStates)] /\ quote \in [Callers -> QuoteType]
  BY <1>1, NoQuoteType DEF Init
<1>4. QED
  BY <1>1, <1>2, <1>3 DEF Init, Listed

LEMMA StepListed ==
  ASSUME Listed, [Next]_vars
  PROVE  Listed'
<1>1. ASSUME UNCHANGED scan PROVE Listed'
  BY <1>1 DEF Listed, scan
<1>2. ASSUME NEW c \in Callers, Begin(c) PROVE Listed'
  <2>1. /\ pc' = [pc EXCEPT ![c] = "next"] /\ at' = [at EXCEPT ![c] = 1]
        /\ found' = [found EXCEPT ![c] = << >>] /\ quote' = quote
    BY <1>2 DEF Begin
  <2>2. QED
    BY <2>1, EmptyListed
<1>3. ASSUME NEW c \in Callers, Return(c) PROVE Listed'
  <2>1. /\ pc' = [pc EXCEPT ![c] = "idle"] /\ at' = [at EXCEPT ![c] = 1]
        /\ found' = [found EXCEPT ![c] = << >>] /\ quote' = quote
    BY <1>3 DEF Return
  <2>2. QED
    BY <2>1, EmptyListed
<1>4. ASSUME NEW c \in Callers, Write(c) PROVE Listed'
  <2>1. CASE Return(c)
    BY <1>3, <2>1
  <2>2. CASE pc' = [pc EXCEPT ![c] = "ranking"] /\ UNCHANGED <<at, quote, found>>
    BY <2>2 DEF Listed
  <2>3. QED
    BY <1>4, <2>1, <2>2 DEF Write, Written
<1>5. ASSUME NEW c \in Callers, at[c] \in Symbols, NEW q \in Quotes[at[c]],
             Drop(c, q) \/ Hit(c, q) \/ Miss(c, q)
      PROVE  Listed'
  <2>1. q \in QuoteType
    BY <1>5, ScanAssumption DEF Symbols, QuoteType
  <2>2. CASE Drop(c, q)
    BY <2>2, EvaluatedListed DEF Drop, Listed
  <2>3. CASE Hit(c, q)
    <3>1. Evaluated(c, TRUE, q, IF HasKey THEN cache[at[c]] ELSE UnknownFloat)
          /\ quote' = quote
      BY <2>3 DEF Hit
    <3>2. QED
      BY <2>1, <3>1, EvaluatedListed DEF Listed
  <2>4. CASE Miss(c, q)
    <3>1. /\ quote' = [quote EXCEPT ![c] = q] /\ pc' = [pc EXCEPT ![c] = "asking"]
          /\ UNCHANGED <<at, found>>
      BY <2>4 DEF Miss
    <3>2. QED
      BY <2>1, <3>1 DEF Listed
  <2>5. QED
    BY <1>5, <2>2, <2>3, <2>4
<1>6. ASSUME NEW c \in Callers, NEW shares, Answer(c, shares) PROVE Listed'
  <2>1. quote[c] \in QuoteType /\ quote' = [quote EXCEPT ![c] = NoQuote]
        /\ Evaluated(c, TRUE, quote[c], shares)
    BY <1>6 DEF Answer, Listed
  <2>2. quote' \in [Callers -> QuoteType]
    BY <2>1, NoQuoteType DEF Listed
  <2>3. QED
    BY <2>1, <2>2, EvaluatedListed
<1>7. CASE UNCHANGED vars
  BY <1>1, <1>7 DEF vars
<1>8. CASE Tick \/ NoScan
  BY <1>1, <1>8 DEF Tick, NoScan
<1>9. CASE Rank
  <2>1. Return("session") /\ "session" \in Callers
    BY <1>9 DEF Rank, Callers
  <2>2. QED
    BY <1>3, <2>1
<1>10. QED
  BY <1>2, <1>4, <1>5, <1>6, <1>7, <1>8, <1>9 DEF Next

LEMMA ListedInvariance == Spec => []Listed
BY InitListed, StepListed, PTL DEF Spec

\* The active tickers of every scan are the tradable candidates that rose most,
\* as many as the setting asks for or as there are, and movers alone when there
\* is one: the float filter comes before the cut, ties and a short list take
\* nothing away (scanner.py:272-303).
THEOREM MoversAreActive == Spec => []ActiveAreTheMovers
<1>1. ASSUME Listed PROVE ActiveAreTheMovers
  <2> SUFFICES ASSUME NEW c \in Callers, NEW movers \in SUBSET Symbols
               PROVE  Movers(found[c], movers)
    BY Zenon DEF ActiveAreTheMovers, Movers
  <2>1. found[c] \in Seq(TickerStates) /\ Distinct(found[c])
    BY <1>1 DEF Listed
  <2>2. QED
    BY <2>1, ListMovers
<1>2. QED
  BY <1>1, ListedInvariance, PTL

LEMMA NewsType ==
  ASSUME NEW s \in TickerStates, NEW b \in BOOLEAN
  PROVE  [s EXCEPT !.has_news = b] \in TickerStates
BY DEF TickerStates

LEMMA ListRoles ==
  ASSUME NEW list \in Seq(TickerStates), NEW alike, NEW news,
         NEW states, states = [i \in DOMAIN list |->
                                 [list[i] EXCEPT !.has_news = list[i].symbol \in news]]
  PROVE  GroupsHaveRoles(states, alike)
<1> DEFINE n == Len(list)
<1>1. /\ n \in Nat /\ DOMAIN list = 1..n
      /\ \A j \in 1..n : list[j] \in TickerStates
  BY ListFacts
<1>2. DOMAIN states = 1..n
  BY <1>1
<1>3. ASSUME NEW j \in 1..n PROVE states[j] \in TickerStates
  <2>1. (list[j].symbol \in news) \in BOOLEAN
    OBVIOUS
  <2>2. states[j] = [list[j] EXCEPT !.has_news = list[j].symbol \in news]
    BY <1>1
  <2>3. [list[j] EXCEPT !.has_news = list[j].symbol \in news] \in TickerStates
    BY <1>1, <2>1, NewsType, Zenon
  <2>4. QED
    BY <2>2, <2>3
<1>4. Len(states) = n
  <2>1. states \in Seq(TickerStates)
    BY <1>1, <1>2, <1>3
  <2>2. QED
    BY <1>1, <1>2, <2>1
<1>5. \A j \in 1..n : LeaderScore(states[j]) \in Int
  <2>1. \A s \in TickerStates : LeaderScore(s) \in Int
    BY DEF TickerStates, LeaderScore
  <2>2. QED
    BY <1>3, <2>1
<1> HIDE DEF n
<1>6. QED
  BY <1>1, <1>2, <1>4, <1>5, RolesOfGroups

\* Whatever symbols move alike, the union-find of the leaders pass gives exactly
\* the connected groups, each with one leader that has the highest score of it;
\* news alone makes the others of a group laggards (leaders.py:26-80).
THEOREM RolesAreRight == Spec => []RolesAgree
<1>1. ASSUME Listed PROVE RolesAgree
  <2>1. \A c \in Callers : found[c] \in Seq(TickerStates)
    BY <1>1 DEF Listed
  <2>2. QED
    BY <2>1, ListRoles DEF RolesAgree
<1>2. QED
  BY <1>1, ListedInvariance, PTL

-----------------------------------------------------------------------------
(* Types.  A float is only asked for while a scan is at a symbol, and a scan *)
(* has found nothing but symbols: so the table and the ranking list symbols. *)

Placed ==
  /\ TypeOK
  /\ \A c \in Callers :
       /\ pc[c] = "asking" => at[c] \in Symbols
       /\ \A i \in DOMAIN found[c] : found[c][i].symbol \in Symbols

LEMMA Bounds ==
  N \in Nat /\ MaxScans \in Nat /\ DayLength \in Nat \ {0} /\ Days \in Nat \ {0}
BY ScanAssumption

LEMMA InitPlaced == Init => Placed
<1> SUFFICES ASSUME Init PROVE Placed
  OBVIOUS
<1>1. 1 \in 1..Days /\ 0 \in 0..(DayLength - 1) /\ 1 \in 1..(N + 1) /\ 0 \in 0..Days
      /\ 0 \in 0..MaxScans
  BY Bounds
<1>2. TypeOK
  BY <1>1 DEF Init, TypeOK
<1>3. QED
  BY <1>2 DEF Init, Placed

LEMMA EvaluatedPlaced ==
  ASSUME Listed, Placed, NEW c \in Callers, at[c] \in Symbols, NEW passed, NEW q, NEW shares,
         Evaluated(c, passed, q, shares)
  PROVE  /\ pc' \in [Callers -> {"idle", "next", "asking", "done", "ranking"}]
         /\ at' \in [Callers -> 1..(N + 1)]
         /\ \A d \in Callers :
              /\ pc'[d] = "asking" => at'[d] \in Symbols
              /\ \A i \in DOMAIN found'[d] : found'[d][i].symbol \in Symbols
<1> DEFINE s == Candidate(at[c], q, shares, FALSE, Cfg)
           more == Append(found[c], s)
<1>1. PICK p \in {"done", "next"} :
        pc' = [pc EXCEPT ![c] = p] /\ at' = [at EXCEPT ![c] = at[c] + 1]
  BY DEF Evaluated
<1>2. at[c] + 1 \in 1..(N + 1)
  BY Bounds DEF Symbols
<1>3. ASSUME NEW d \in Callers, pc'[d] = "asking" PROVE at'[d] \in Symbols
  BY <1>1, <1>3 DEF Placed, TypeOK
<1>4. s.symbol = at[c]
  BY DEF Candidate
<1> HIDE DEF s
<1>5. found' = found \/ found' = [found EXCEPT ![c] = more]
  BY DEF Evaluated, s
<1>6. ASSUME NEW i \in DOMAIN more PROVE more[i].symbol \in Symbols
  <2>1. Len(found[c]) \in Nat /\ DOMAIN found[c] = 1..Len(found[c])
    BY DEF Listed
  <2>2. i \in 1..(Len(found[c]) + 1)
        /\ more[i] = IF i <= Len(found[c]) THEN found[c][i] ELSE s
    BY <1>6, <2>1 DEF Listed
  <2>3. QED
    BY <1>4, <2>1, <2>2 DEF Placed
<1> HIDE DEF more
<1>7. ASSUME NEW d \in Callers, NEW i \in DOMAIN found'[d]
      PROVE  found'[d][i].symbol \in Symbols
  BY <1>5, <1>6, <1>7 DEF Placed, Listed
<1>8. QED
  BY <1>1, <1>2, <1>3, <1>7 DEF Placed, TypeOK

LEMMA ActiveSymbols ==
  ASSUME Placed, NEW c \in Callers PROVE Active(c) \subseteq Symbols
BY DEF Placed, Active, ActiveSet, TopN, Top, Pool, Tradable

LEMMA NewRowsType ==
  ASSUME Placed, NEW c \in Callers, NEW r \in NewRows(c)
  PROVE  r.symbol \in Symbols /\ r.active \in BOOLEAN /\ r.day \in 1..Days
<1>1. PICK s \in ToSet(found[c]) :
        r = [symbol |-> s.symbol, active |-> s.symbol \in Active(c), day |-> day]
  BY DEF NewRows
<1>2. s.symbol \in Symbols
  BY DEF Placed, ToSet
<1>3. (s.symbol \in Active(c)) \in BOOLEAN
  OBVIOUS
<1> HIDE DEF Active
<1>4. QED
  BY <1>1, <1>2, <1>3 DEF Placed, TypeOK

LEMMA RankingType ==
  ASSUME Placed, NEW active \in SUBSET Symbols,
         NEW r \in Ranking({[symbol |-> s, day |-> day] : s \in active}, rows)
  PROVE  r.symbol \in Symbols /\ r.day \in 1..Days
BY DEF Placed, TypeOK, Ranking

LEMMA ScanPlaced ==
  ASSUME Listed, Placed, NEW c \in Callers, at[c] \in Symbols, NEW q,
         Drop(c, q) \/ Hit(c, q) \/ Miss(c, q)
  PROVE  Placed'
<1>1. CASE Drop(c, q) \/ Hit(c, q)
  <2>1. /\ UNCHANGED <<clock, begun, float, table, ranked, scans>>
        /\ \E passed, shares : Evaluated(c, passed, q, shares)
    BY <1>1, Zenon DEF Drop, Hit
  <2>2. QED
    BY <2>1, EvaluatedPlaced DEF Placed, TypeOK, clock, float, table
<1>2. CASE Miss(c, q)
  <2>1. /\ lookups' \in [Symbols -> Nat]
        /\ UNCHANGED <<clock, at, begun, found, cache, table, ranked, scans>>
    BY <1>2 DEF Miss, Placed, TypeOK
  <2>2. pc' = [pc EXCEPT ![c] = "asking"]
    BY <1>2 DEF Miss
  <2>3. TypeOK'
    BY <2>1, <2>2 DEF Placed, TypeOK, clock, table
  <2>4. QED
    BY <2>1, <2>2, <2>3 DEF Placed, TypeOK
<1>3. QED
  BY <1>1, <1>2

LEMMA AnswerPlaced ==
  ASSUME Listed, Placed, NEW c \in Callers, NEW shares \in Floats \cup {UnknownFloat},
         Answer(c, shares)
  PROVE  Placed'
<1>1. /\ at[c] \in Symbols /\ Evaluated(c, TRUE, quote[c], shares)
      /\ cache' = [cache EXCEPT ![at[c]] = shares]
      /\ UNCHANGED <<clock, begun, lookups, table, ranked, scans>>
  BY DEF Answer, Placed
<1>2. cache' \in [Symbols -> Floats \cup {UnknownFloat, NotAsked}]
  BY <1>1 DEF Placed, TypeOK
<1>3. QED
  BY <1>1, <1>2, EvaluatedPlaced DEF Placed, TypeOK, clock, table

LEMMA ReturnPlaced ==
  ASSUME Placed, NEW c \in Callers, Return(c),
         \A r \in rows' : r.symbol \in Symbols /\ r.active \in BOOLEAN /\ r.day \in 1..Days,
         \A r \in ranked' : r.symbol \in Symbols /\ r.day \in 1..Days,
         written' \in 0..Days
  PROVE  Placed'
<1>1. /\ pc' = [pc EXCEPT ![c] = "idle"] /\ at' = [at EXCEPT ![c] = 1]
      /\ begun' = [begun EXCEPT ![c] = 0] /\ found' = [found EXCEPT ![c] = << >>]
      /\ UNCHANGED <<clock, float, scans>>
  BY DEF Return
<1>2. 1 \in 1..(N + 1) /\ 0 \in 0..(DayLength - 1)
  BY Bounds
<1>3. TypeOK'
  BY <1>1, <1>2 DEF Placed, TypeOK, clock, float
<1>4. \A d \in Callers : \A i \in DOMAIN found'[d] : found'[d][i].symbol \in Symbols
  BY <1>1 DEF Placed
<1>5. \A d \in Callers : pc'[d] = "asking" => at'[d] \in Symbols
  BY <1>1 DEF Placed, TypeOK
<1>6. QED
  BY <1>3, <1>4, <1>5 DEF Placed

LEMMA WritePlaced ==
  ASSUME Placed, NEW c \in Callers, Write(c)
  PROVE  Placed'
<1>1. rows' = NewRows(c) /\ written' = day /\ ranked' = ranked
  BY DEF Write, Written
<1>2. \A r \in rows' : r.symbol \in Symbols /\ r.active \in BOOLEAN /\ r.day \in 1..Days
  BY <1>1, NewRowsType
<1>3. /\ \A r \in ranked' : r.symbol \in Symbols /\ r.day \in 1..Days
      /\ written' \in 0..Days
  BY <1>1, Bounds DEF Placed, TypeOK
<1>4. CASE Return(c)
  BY <1>2, <1>3, <1>4, ReturnPlaced
<1>5. CASE /\ pc' = [pc EXCEPT ![c] = "ranking"]
           /\ UNCHANGED <<clock, at, begun, quote, found, float, scans>>
  <2>1. TypeOK'
    BY <1>2, <1>3, <1>5 DEF Placed, TypeOK, clock, float
  <2>2. QED
    BY <1>5, <2>1 DEF Placed, TypeOK
<1>6. QED
  BY <1>4, <1>5 DEF Write, Written

LEMMA StepPlaced ==
  ASSUME Listed, Placed, [Next]_vars
  PROVE  Placed'
<1>1. CASE Tick
  <2>1. UNCHANGED <<scan, table, scans>>
    BY <1>1 DEF Tick
  <2>2. day' \in 1..Days /\ slot' \in 0..(DayLength - 1)
    BY <1>1, Bounds DEF Tick, clock, Placed, TypeOK
  <2>3. /\ cache' \in [Symbols -> Floats \cup {UnknownFloat, NotAsked}]
        /\ lookups' \in [Symbols -> Nat]
    BY <1>1 DEF Tick, float, Placed, TypeOK
  <2>4. \A r \in ranked' : r.symbol \in Symbols /\ r.day \in 1..Days
    BY <1>1 DEF Tick, Placed, TypeOK
  <2>5. QED
    BY <2>1, <2>2, <2>3, <2>4 DEF Placed, TypeOK, scan, table
<1>2. CASE NoScan
  <2>1. ranked' = Ranking({}, rows) /\ UNCHANGED <<clock, scan, float, table, scans>>
    BY <1>2 DEF NoScan
  <2>2. {} = {[symbol |-> s, day |-> day] : s \in {}}
    OBVIOUS
  <2>3. \A r \in ranked' : r.symbol \in Symbols /\ r.day \in 1..Days
    BY <2>1, <2>2, RankingType
  <2>4. QED
    BY <2>1, <2>3 DEF Placed, TypeOK, clock, scan, float, table
<1>3. CASE Rank
  <2>1. /\ ranked' = Ranking({[symbol |-> s, day |-> day] : s \in Active("session")}, rows)
        /\ Return("session") /\ UNCHANGED table /\ "session" \in Callers
    BY <1>3 DEF Rank, Callers
  <2>2. \A r \in ranked' : r.symbol \in Symbols /\ r.day \in 1..Days
    BY <2>1, ActiveSymbols, RankingType
  <2>3. QED
    BY <2>1, <2>2, ReturnPlaced DEF Placed, TypeOK, table
<1>4. ASSUME NEW c \in Callers, Begin(c) PROVE Placed'
  <2>1. /\ scans < MaxScans /\ scans' = scans + 1
        /\ pc' = [pc EXCEPT ![c] = "next"] /\ at' = [at EXCEPT ![c] = 1]
        /\ begun' = [begun EXCEPT ![c] = slot] /\ found' = [found EXCEPT ![c] = << >>]
        /\ UNCHANGED <<clock, quote, float, table, ranked>>
    BY <1>4 DEF Begin
  <2>2. scans' \in 0..MaxScans /\ 1 \in 1..(N + 1)
    BY <2>1, Bounds DEF Placed, TypeOK
  <2>3. TypeOK'
    BY <2>1, <2>2 DEF Placed, TypeOK, clock, float, table
  <2>4. \A d \in Callers : \A i \in DOMAIN found'[d] : found'[d][i].symbol \in Symbols
    BY <2>1 DEF Placed
  <2>5. QED
    BY <2>1, <2>3, <2>4 DEF Placed, TypeOK
<1>5. CASE UNCHANGED vars
  BY <1>5 DEF vars, clock, scan, float, table, Placed, TypeOK
<1>6. QED
  BY <1>1, <1>2, <1>3, <1>4, <1>5, WritePlaced, ScanPlaced, AnswerPlaced DEF Next

\* The scans, the float cache, the table and the ranking keep their types: the
\* scan of a caller asks only for symbols, and what is written and ranked is of
\* symbols it evaluated (scanner.py, fundamentals.py, run.py:491-607, 694-817).
THEOREM TypeCorrect == Spec => []TypeOK
<1>1. Placed => TypeOK
  BY DEF Placed
<1>2. Spec => []Placed
  BY InitPlaced, StepPlaced, ListedInvariance, PTL DEF Spec
<1>3. QED
  BY <1>1, <1>2, PTL

-----------------------------------------------------------------------------
(* The float cache, the table and the ranking *)

\* The scans that wait for the float of s.
AskedBy(s) == {c \in Callers : pc[c] = "asking" /\ at[c] = s}

\* As long as a symbol has no entry in the cache, every request of the day for
\* it is still on its way.  AskedOnce speaks of the step that makes a request,
\* which looks at the entry only.
Pending ==
  \A s \in Symbols : cache[s] = NotAsked => lookups[s] = Cardinality(AskedBy(s))

\* The table is of one day, and all of it: a scan replaces every row.
RowsOfOneDay == \A r \in rows : r.day = written

Types ==
  /\ pc \in [Callers -> {"idle", "next", "asking", "done", "ranking"}]
  /\ at \in [Callers -> Int]
  /\ cache \in [Symbols -> Int] /\ lookups \in [Symbols -> Nat]

IInv == Types /\ Pending /\ RowsOfOneDay

LEMMA Constants ==
  /\ N \in Nat /\ Symbols \subseteq Int
  /\ \A shares \in Floats \cup {UnknownFloat} : shares \in Int /\ shares # NotAsked
BY ScanAssumption DEF Symbols, UnknownFloat, NotAsked

LEMMA FewCallers == ASSUME NEW s PROVE IsFiniteSet(AskedBy(s))
<1>1. IsFiniteSet(Callers)
  <2>1. IsFiniteSet({"loop"})
    BY FS_Singleton
  <2>2. IsFiniteSet({"loop"} \cup {"session"})
    BY <2>1, FS_AddElement
  <2>3. Callers = {"loop"} \cup {"session"}
    BY DEF Callers
  <2>4. QED
    BY <2>2, <2>3
<1>2. AskedBy(s) \subseteq Callers
  BY DEF AskedBy
<1>3. QED
  BY <1>1, <1>2, FS_Subset

\* No request is on its way while nobody asks.
LEMMA NobodyAsks ==
  ASSUME \A c \in Callers : pc[c] # "asking", NEW s
  PROVE  Cardinality(AskedBy(s)) = 0
<1>1. AskedBy(s) = {}
  BY DEF AskedBy
<1>2. QED
  BY <1>1, FS_EmptySet

LEMMA InitInv == Init => IInv
<1> SUFFICES ASSUME Init PROVE IInv
  OBVIOUS
<1>1. Types
  BY DEF Init, Types, NotAsked
<1>2. \A s \in Symbols : lookups[s] = 0 /\ Cardinality(AskedBy(s)) = 0
  BY NobodyAsks DEF Init
<1>3. Pending
  BY <1>2 DEF Pending
<1>4. RowsOfOneDay
  BY DEF Init, RowsOfOneDay
<1>5. QED
  BY <1>1, <1>3, <1>4 DEF IInv

\* Caller c asks for nothing before and after a step that is its own.
Quiet(c) ==
  /\ pc' \in [Callers -> {"idle", "next", "asking", "done", "ranking"}]
  /\ at' \in [Callers -> Int]
  /\ pc[c] # "asking" /\ pc'[c] # "asking"
  /\ \A d \in Callers \ {c} : pc'[d] = pc[d] /\ at'[d] = at[d]

LEMMA EvaluatedPlace ==
  ASSUME Types, NEW c \in Callers, NEW passed, NEW q, NEW shares,
         Evaluated(c, passed, q, shares)
  PROVE  \E p \in {"done", "next"} :
           /\ pc' = [pc EXCEPT ![c] = p]
           /\ at' = [at EXCEPT ![c] = at[c] + 1]
<1>1. at' = [at EXCEPT ![c] = at[c] + 1]
  BY DEF Evaluated
<1>2. pc' = [pc EXCEPT ![c] = IF at[c] = N THEN "done" ELSE "next"]
  BY DEF Evaluated
<1>3. QED
  BY <1>1, <1>2

\* Such a step leaves the requests as they are.
LEMMA QuietStep ==
  ASSUME IInv, NEW c \in Callers, Quiet(c), UNCHANGED float
  PROVE  Types' /\ Pending'
<1>1. Types'
  BY DEF IInv, Types, Quiet, float
<1>2. \A s : AskedBy(s)' = AskedBy(s)
  BY DEF Quiet, AskedBy
<1>3. Pending'
  BY <1>2 DEF IInv, Pending, float
<1>4. QED
  BY <1>1, <1>3

LEMMA MissInv ==
  ASSUME IInv, NEW c \in Callers, at[c] \in Symbols, NEW q, Miss(c, q)
  PROVE  IInv' /\ lookups[at[c]] = Cardinality(AskedBy(at[c]))
<1> DEFINE s0 == at[c]
<1>1. /\ pc[c] = "next" /\ cache[s0] = NotAsked
      /\ lookups' = [lookups EXCEPT ![s0] = lookups[s0] + 1]
      /\ pc' = [pc EXCEPT ![c] = "asking"] /\ UNCHANGED <<at, cache, table>>
  BY DEF Miss
<1>2. Types'
  BY <1>1 DEF IInv, Types
<1>3. AskedBy(s0)' = AskedBy(s0) \cup {c} /\ c \notin AskedBy(s0)
  BY <1>1 DEF IInv, Types, AskedBy
<1>4. Cardinality(AskedBy(s0)') = Cardinality(AskedBy(s0)) + 1
  BY <1>3, FewCallers, FS_AddElement
<1>5. \A s \in Symbols : s # s0 => AskedBy(s)' = AskedBy(s)
  BY <1>1 DEF IInv, Types, AskedBy
<1>6. lookups[s0] = Cardinality(AskedBy(s0))
  BY <1>1 DEF IInv, Pending
<1>7. Pending'
  <2> SUFFICES ASSUME NEW s \in Symbols, cache'[s] = NotAsked
               PROVE  lookups'[s] = Cardinality(AskedBy(s)')
    BY DEF Pending
  <2>1. CASE s = s0
    BY <2>1, <1>1, <1>4, <1>6 DEF IInv, Types
  <2>2. CASE s # s0
    BY <2>2, <1>1, <1>5 DEF IInv, Types, Pending
  <2>3. QED
    BY <2>1, <2>2
<1>8. RowsOfOneDay'
  BY <1>1 DEF IInv, RowsOfOneDay, table
<1>9. QED
  BY <1>2, <1>6, <1>7, <1>8 DEF IInv

LEMMA AnswerInv ==
  ASSUME IInv, NEW c \in Callers, NEW shares \in Floats \cup {UnknownFloat},
         Answer(c, shares)
  PROVE  IInv' /\ lookups' = lookups
<1> DEFINE s0 == at[c]
<1>1. /\ pc[c] = "asking" /\ cache' = [cache EXCEPT ![s0] = shares]
      /\ UNCHANGED <<lookups, table>>
  BY DEF Answer
<1>2. PICK p \in {"done", "next"} :
        pc' = [pc EXCEPT ![c] = p] /\ at' = [at EXCEPT ![c] = at[c] + 1]
  BY EvaluatedPlace DEF Answer, IInv
<1>3. Types'
  <2>1. shares \in Int /\ at[c] + 1 \in Int
    BY Constants DEF IInv, Types
  <2>2. pc' \in [Callers -> {"idle", "next", "asking", "done", "ranking"}]
    BY <1>2 DEF IInv, Types
  <2>3. at' \in [Callers -> Int]
    BY <1>2, <2>1 DEF IInv, Types
  <2>4. cache' \in [Symbols -> Int]
    BY <1>1, <2>1 DEF IInv, Types
  <2>5. QED
    BY <1>1, <2>2, <2>3, <2>4 DEF IInv, Types
<1>4. \A s \in Symbols : s # s0 => AskedBy(s)' = AskedBy(s)
  BY <1>1, <1>2 DEF IInv, Types, AskedBy
<1>5. \A s \in Symbols : cache'[s] = NotAsked => s # s0 /\ cache[s] = NotAsked
  BY <1>1, Constants DEF IInv, Types
<1>6. Pending'
  BY <1>1, <1>4, <1>5 DEF IInv, Pending
<1>7. RowsOfOneDay'
  BY <1>1 DEF IInv, RowsOfOneDay, table
<1>8. QED
  BY <1>1, <1>3, <1>6, <1>7 DEF IInv

LEMMA TickInv ==
  ASSUME IInv, Tick
  PROVE  IInv' /\ \A s \in Symbols : lookups'[s] <= lookups[s]
<1>1. UNCHANGED <<scan, table>> /\ \A c \in Callers : pc[c] # "asking"
  BY DEF Tick
<1>2. RowsOfOneDay'
  BY <1>1 DEF IInv, RowsOfOneDay, table
<1>3. CASE UNCHANGED float
  <2>1. Types' /\ Pending'
    BY <1>1, <1>3 DEF IInv, Types, Pending, AskedBy, scan, float
  <2>2. QED
    BY <1>2, <1>3, <2>1 DEF IInv, Types, float
<1>4. CASE /\ cache' = [s \in Symbols |-> NotAsked]
           /\ lookups' = [s \in Symbols |-> 0]
  <2>1. Types'
    BY <1>1, <1>4 DEF IInv, Types, scan, NotAsked
  <2>2. \A s : Cardinality(AskedBy(s)) = 0
    BY <1>1, NobodyAsks
  <2>3. \A s : AskedBy(s)' = AskedBy(s)
    BY <1>1 DEF AskedBy, scan
  <2>4. Pending'
    BY <1>4, <2>2, <2>3 DEF Pending
  <2>5. QED
    BY <1>2, <1>4, <2>1, <2>4 DEF IInv, Types
<1>5. QED
  BY <1>3, <1>4 DEF Tick

LEMMA NewRowsOfDay == ASSUME NEW c PROVE \A r \in NewRows(c) : r.day = day
BY DEF NewRows

LEMMA WriteInv ==
  ASSUME IInv, NEW c \in Callers, Write(c)
  PROVE  IInv' /\ lookups' = lookups /\ ranked' = ranked
<1>1. /\ pc[c] = "done" /\ rows' = NewRows(c) /\ written' = day /\ ranked' = ranked
      /\ UNCHANGED float
  BY DEF Write, Written, Return, float
<1>2. RowsOfOneDay'
  BY <1>1, NewRowsOfDay DEF RowsOfOneDay
<1>3. \/ pc' = [pc EXCEPT ![c] = "ranking"] /\ at' = at
      \/ pc' = [pc EXCEPT ![c] = "idle"] /\ at' = [at EXCEPT ![c] = 1]
  BY DEF Write, Written, Return
<1>4. Quiet(c)
  BY <1>1, <1>3 DEF Quiet, IInv, Types
<1>5. Types' /\ Pending'
  BY <1>1, <1>4, QuietStep
<1>6. QED
  BY <1>1, <1>2, <1>5 DEF IInv, float

\* What a session is given is of today, or a row.
LEMMA RankingDays ==
  ASSUME RowsOfOneDay, written = day, NEW active, \A r \in active : r.day = day
  PROVE  \A r \in Ranking(active, rows) : r.day = day
BY DEF RowsOfOneDay, Ranking

LEMMA RankInv ==
  ASSUME IInv, Rank
  PROVE  /\ IInv' /\ lookups' = lookups /\ written' = written /\ day' = day
         /\ written = day => \A r \in ranked' : r.day = day
<1> DEFINE active == {[symbol |-> s, day |-> day] : s \in Active("session")}
<1>1. /\ pc["session"] = "ranking" /\ ranked' = Ranking(active, rows)
      /\ Return("session") /\ UNCHANGED table
  BY DEF Rank
<1>2. \A r \in active : r.day = day
  OBVIOUS
<1> HIDE DEF active
<1>3. written = day => \A r \in ranked' : r.day = day
  BY <1>1, <1>2, RankingDays DEF IInv
<1>4. Types' /\ Pending'
  <2>1. /\ pc' = [pc EXCEPT !["session"] = "idle"]
        /\ at' = [at EXCEPT !["session"] = 1] /\ UNCHANGED float
    BY <1>1 DEF Return
  <2>2. Quiet("session") /\ "session" \in Callers
    BY <1>1, <2>1 DEF Quiet, IInv, Types, Callers
  <2>3. QED
    BY <2>1, <2>2, QuietStep
<1>5. RowsOfOneDay'
  BY <1>1 DEF IInv, RowsOfOneDay, table
<1>6. QED
  BY <1>1, <1>3, <1>4, <1>5 DEF IInv, Return, clock, float, table

LEMMA NoScanInv ==
  ASSUME IInv, NoScan
  PROVE  /\ IInv' /\ lookups' = lookups /\ written' = written /\ day' = day
         /\ written = day => \A r \in ranked' : r.day = day
<1>1. ranked' = Ranking({}, rows) /\ UNCHANGED <<clock, scan, float, table>>
  BY DEF NoScan
<1>2. written = day => \A r \in ranked' : r.day = day
  BY <1>1, RankingDays DEF IInv
<1>3. IInv'
  BY <1>1 DEF IInv, Types, Pending, AskedBy, RowsOfOneDay, scan, float, table
<1>4. QED
  BY <1>1, <1>2, <1>3 DEF clock, float, table

LEMMA LookingInv ==
  ASSUME IInv, NEW c \in Callers, NEW q, Begin(c) \/ Drop(c, q) \/ Hit(c, q)
  PROVE  IInv' /\ lookups' = lookups /\ ranked' = ranked
<1>1. UNCHANGED <<float, table, ranked>> /\ pc[c] # "asking"
  BY DEF Begin, MayScan, Drop, Hit
<1>2. ASSUME Begin(c) PROVE Types' /\ Pending'
  <2>1. pc' = [pc EXCEPT ![c] = "next"] /\ at' = [at EXCEPT ![c] = 1]
    BY <1>2 DEF Begin
  <2>2. Quiet(c)
    BY <1>1, <2>1 DEF Quiet, IInv, Types
  <2>3. QED
    BY <1>1, <2>2, QuietStep
<1>3. ASSUME Drop(c, q) \/ Hit(c, q) PROVE Types' /\ Pending'
  <2>1. PICK p \in {"done", "next"} :
          pc' = [pc EXCEPT ![c] = p] /\ at' = [at EXCEPT ![c] = at[c] + 1]
    BY <1>3, EvaluatedPlace DEF IInv, Drop, Hit
  <2>2. at[c] + 1 \in Int
    BY DEF IInv, Types
  <2>3. Quiet(c)
    BY <1>1, <2>1, <2>2 DEF Quiet, IInv, Types
  <2>4. QED
    BY <1>1, <2>3, QuietStep
<1>4. RowsOfOneDay'
  BY <1>1 DEF IInv, RowsOfOneDay, table
<1>5. QED
  BY <1>1, <1>2, <1>3, <1>4 DEF IInv, float

-----------------------------------------------------------------------------
(* Every step, and the theorems *)

Once ==
  \A s \in Symbols : lookups'[s] > lookups[s] =>
    lookups[s] = Cardinality({c \in Callers : pc[c] = "asking" /\ at[c] = s})

Fresh == ranked' # ranked /\ written' = day => \A r \in ranked' : r.day = day

\* A step that adds no request and ranks nothing keeps both promises.
LEMMA Harmless ==
  /\ Types /\ (\A s \in Symbols : lookups'[s] <= lookups[s]) /\ Types' => Once
  /\ ranked' = ranked => Fresh
BY DEF Types, Once, Fresh

LEMMA StepInv ==
  ASSUME IInv, Next
  PROVE  IInv' /\ Once /\ Fresh
<1>1. CASE Tick
  <2>1. IInv' /\ Once
    BY <1>1, TickInv, Harmless DEF IInv
  <2>2. ranked' = ranked \/ ranked' = {}
    BY <1>1 DEF Tick
  <2>3. QED
    BY <2>1, <2>2 DEF Fresh
<1>2. CASE NoScan \/ Rank
  <2>1. /\ IInv' /\ lookups' = lookups /\ written' = written
        /\ written = day => \A r \in ranked' : r.day = day
    BY <1>2, NoScanInv, RankInv
  <2>2. QED
    BY <2>1, Harmless DEF Fresh, IInv, Types
<1>3. ASSUME NEW c \in Callers, Begin(c) \/ Write(c) PROVE IInv' /\ Once /\ Fresh
  <2>1. IInv' /\ lookups' = lookups /\ ranked' = ranked
    BY <1>3, LookingInv, WriteInv
  <2>2. QED
    BY <2>1, Harmless DEF IInv, Types
<1>4. ASSUME NEW c \in Callers, at[c] \in Symbols, NEW q \in Quotes[at[c]],
             Drop(c, q) \/ Hit(c, q)
      PROVE  IInv' /\ Once /\ Fresh
  <2>1. IInv' /\ lookups' = lookups /\ ranked' = ranked
    BY <1>4, LookingInv
  <2>2. QED
    BY <2>1, Harmless DEF IInv, Types
<1>5. ASSUME NEW c \in Callers, at[c] \in Symbols, NEW q \in Quotes[at[c]],
             Miss(c, q)
      PROVE  IInv' /\ Once /\ Fresh
  <2>1. IInv' /\ lookups[at[c]] = Cardinality(AskedBy(at[c]))
    BY <1>5, MissInv
  <2>2. /\ lookups' = [lookups EXCEPT ![at[c]] = lookups[at[c]] + 1]
        /\ ranked' = ranked
    BY <1>5 DEF Miss
  <2>3. \A s \in Symbols : lookups'[s] > lookups[s] => s = at[c]
    BY <2>2 DEF IInv, Types
  <2>4. Once
    BY <2>1, <2>3 DEF Once, AskedBy
  <2>5. QED
    BY <2>1, <2>2, <2>4, Harmless
<1>6. ASSUME NEW c \in Callers, NEW shares \in Floats \cup {UnknownFloat},
             Answer(c, shares)
      PROVE  IInv' /\ Once /\ Fresh
  <2>1. IInv' /\ lookups' = lookups
    BY <1>6, AnswerInv
  <2>2. ranked' = ranked
    BY <1>6 DEF Answer
  <2>3. QED
    BY <2>1, <2>2, Harmless DEF IInv, Types
<1>7. QED
  BY <1>1, <1>2, <1>3, <1>4, <1>5, <1>6 DEF Next

LEMMA Invariance == Spec => []IInv
<1>1. IInv /\ UNCHANGED vars => IInv'
  BY DEF vars, scan, float, table, IInv, Types, Pending, AskedBy, RowsOfOneDay
<1>2. IInv /\ [Next]_vars => IInv'
  BY <1>1, StepInv
<1>3. QED
  BY InitInv, <1>2, PTL DEF Spec

\* On one day Finnhub is asked for a symbol again only while all earlier
\* requests for it are on their way: any answer, a failure too, ends the asking
\* (fundamentals.py:79-101).
THEOREM FloatsAreAskedOnce == Spec => AskedOnce
<1>1. IInv /\ [Next]_vars => [Once]_vars
  BY StepInv
<1>2. QED
  BY <1>1, Invariance, PTL DEF Spec, AskedOnce, Once

\* After a scan of the day has written the table, no session of that day begins
\* with a symbol of an earlier day (run.py:773, run.py:812-817).
THEOREM SessionsRankToday == Spec => RankedFresh
<1>1. IInv /\ [Next]_vars => [Fresh]_vars
  BY StepInv
<1>2. QED
  BY <1>1, Invariance, PTL DEF Spec, RankedFresh, Fresh
=============================================================================
