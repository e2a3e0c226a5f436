------------------------------ MODULE Recursion ------------------------------
(***************************************************************************)
(* Recursive functions.  TLA+ defines f[x \in X] == ... f ... as a choice  *)
(* among the functions that satisfy the equation, so that there is one has *)
(* to be shown before the definition says anything.  Here it is shown for  *)
(* recursion on one argument that is smaller by a measure in the naturals. *)
(***************************************************************************)
EXTENDS Integers, FiniteSetTheorems, WellFoundedInduction, TLAPS

\* A set of naturals has a least element.
LEMMA LeastNatural ==
  ASSUME NEW T \in SUBSET Nat, T # {}
  PROVE  \E n \in T : \A k \in T : n <= k
<1> DEFINE U == {1..n : n \in T}
<1>1. U \subseteq FiniteSubsetsOf(Nat) /\ U # {}
  <2>1. \A n \in T : 1..n \in SUBSET Nat /\ IsFiniteSet(1..n)
    BY FS_Interval
  <2>2. QED
    BY <2>1 DEF FiniteSubsetsOf
<1> HIDE DEF U
<1>2. PICK A \in U : \A B \in U : <<B, A>> \notin StrictSubsetOrdering(Nat)
  BY <1>1, FS_StrictSubsetOrderingWellFounded, WFMin
<1>3. PICK n \in T : A = 1..n
  BY DEF U
<1>4. \A k \in T : n <= k
  <2> SUFFICES ASSUME NEW k \in T, k < n PROVE FALSE
    OBVIOUS
  <2>1. 1..k \in U
    BY DEF U
  <2>2. 1..k \subseteq 1..n /\ n \in 1..n /\ n \notin 1..k
    OBVIOUS
  <2>3. <<1..k, 1..n>> \in StrictSubsetOrdering(Nat)
    BY <2>2 DEF StrictSubsetOrdering
  <2>4. QED
    BY <1>2, <1>3, <2>1, <2>3
<1>5. QED
  BY <1>4

\* A set that has zero, and with every natural its successor, has all naturals.
LEMMA AllNaturals ==
  ASSUME NEW T \in SUBSET Nat, 0 \in T, \A n \in T : n + 1 \in T
  PROVE  T = Nat
<1> SUFFICES ASSUME Nat \ T # {} PROVE FALSE
  OBVIOUS
<1>1. PICK n \in Nat \ T : \A k \in Nat \ T : n <= k
  BY LeastNatural
<1>2. n - 1 \in T /\ (n - 1) + 1 = n
  BY <1>1
<1>3. QED
  BY <1>1, <1>2

\* The equation of a recursion that ends in B with b, and goes from x to p[x]
\* elsewhere, at the point x.
Solves(h, x, B, b, p, g) == h[x] = IF x \in B THEN b ELSE g[x][h[p[x]]]

\* Outside B, p goes to an element with a smaller measure.
Descends(X, B, p, m) ==
  m \in [X -> Nat] /\ \A x \in X \ B : p[x] \in X /\ m[p[x]] < m[x]
ClosedIn(X, Y, B, p) == Y \in SUBSET X /\ \A x \in Y \ B : p[x] \in Y
Solution(Y, h, B, b, p, g) == \A x \in Y : Solves(h, x, B, b, p, g)

\* Two solutions agree where both are defined.
LEMMA SolutionsAgree ==
  ASSUME NEW X, NEW B, NEW b, NEW p, NEW g, NEW m, Descends(X, B, p, m),
         NEW Y, ClosedIn(X, Y, B, p), NEW h, NEW k,
         Solution(Y, h, B, b, p, g), Solution(Y, k, B, b, p, g)
  PROVE  \A x \in Y : h[x] = k[x]
<1> USE DEF Descends, ClosedIn, Solution
<1> DEFINE Bad == {x \in Y : h[x] # k[x]}
           T == {m[x] : x \in Bad}
<1> SUFFICES ASSUME Bad # {} PROVE FALSE
  OBVIOUS
<1>1. T \in SUBSET Nat /\ T # {}
  OBVIOUS
<1>2. PICK n \in T : \A j \in T : n <= j
  <2> HIDE DEF T
  <2>1. QED
    BY <1>1, LeastNatural
<1>3. PICK x \in Bad : n = m[x]
  OBVIOUS
<1>4. CASE x \in B
  BY <1>4 DEF Solves
<1>5. CASE x \notin B
  <2>1. p[x] \in Y /\ m[p[x]] < m[x]
    BY <1>5
  <2>2. p[x] \notin Bad
    BY <1>2, <1>3, <2>1
  <2>3. QED
    BY <1>5, <2>1, <2>2 DEF Solves
<1>6. QED
  BY <1>4, <1>5

\* There is a solution.
LEMMA RecursionExists ==
  ASSUME NEW X, NEW V, NEW B, NEW b \in V, NEW p, NEW g, NEW m, Descends(X, B, p, m),
         \A x \in X \ B : \A v \in V : g[x][v] \in V
  PROVE  \E f \in [X -> V] : Solution(X, f, B, b, p, g)
<1> DEFINE D(n) == {x \in X : m[x] < n}
           Sols(n) == {h \in [D(n) -> V] : Solution(D(n), h, B, b, p, g)}
           T == {n \in Nat : Sols(n) # {}}
<1> USE DEF Solution
<1>m. m \in [X -> Nat] /\ \A x \in X \ B : p[x] \in X /\ m[p[x]] < m[x]
  BY DEF Descends
<1>0. \A n \in Nat : \A x \in D(n) \ B : p[x] \in D(n)
  BY <1>m
<1>1. ASSUME NEW n \in Nat, NEW k \in Nat, n <= k, NEW h \in Sols(n), NEW j \in Sols(k)
      PROVE  \A x \in D(n) : h[x] = j[x]
  <2> DEFINE Y == D(n)
  <2>1. ClosedIn(X, Y, B, p)
    BY <1>0 DEF ClosedIn
  <2>2. Solution(Y, h, B, b, p, g) /\ Solution(Y, j, B, b, p, g)
    BY <1>1, <1>m DEF Solution
  <2> HIDE DEF Y, Solution
  <2>3. \A x \in Y : h[x] = j[x]
    BY <2>1, <2>2, SolutionsAgree
  <2>4. QED
    BY <2>3 DEF Y
<1>2. 0 \in T
  <2>1. D(0) = {}
    BY <1>m
  <2>2. [x \in D(0) |-> b] \in Sols(0)
    BY <2>1
  <2>3. QED
    BY <2>2
<1>3. ASSUME NEW n \in T PROVE n + 1 \in T
  <2>1. PICK h \in Sols(n) : TRUE
    OBVIOUS
  <2> DEFINE j == [x \in D(n + 1) |-> IF x \in B THEN b ELSE g[x][h[p[x]]]]
  <2>2. \A x \in D(n + 1) \ B : p[x] \in D(n)
    BY <1>m
  <2>3. \A x \in D(n) : h[x] \in V /\ Solves(h, x, B, b, p, g)
    OBVIOUS
  <2>4. j \in [D(n + 1) -> V]
    BY <2>2, <2>3
  <2>5. \A x \in D(n) : x \in D(n + 1) /\ j[x] = h[x]
    BY <1>m, <2>3 DEF Solves
  <2>6. \A x \in D(n + 1) : Solves(j, x, B, b, p, g)
    BY <2>2, <2>5 DEF Solves
  <2> HIDE DEF j
  <2>7. j \in Sols(n + 1)
    BY <2>4, <2>6
  <2>8. n + 1 \in Nat
    OBVIOUS
  <2> HIDE DEF Sols
  <2>9. QED
    BY <2>7, <2>8
<1>4. T = Nat
  <2> HIDE DEF T
  <2>1. T \in SUBSET Nat
    BY DEF T
  <2>2. QED
    BY <1>2, <1>3, <2>1, AllNaturals
<1> DEFINE s == [n \in Nat |-> CHOOSE h \in Sols(n) : TRUE]
           f == [x \in X |-> s[m[x] + 1][x]]
<1>5. \A n \in Nat : s[n] \in Sols(n)
  BY <1>4
<1>6. \A n \in Nat : \A x \in D(n) : s[n][x] \in V /\ Solves(s[n], x, B, b, p, g)
  BY <1>5
<1>7. \A n, k \in Nat : n <= k => \A x \in D(n) : s[n][x] = s[k][x]
  <2> HIDE DEF s, Sols
  <2>1. QED
    BY <1>1, <1>5
<1> HIDE DEF s, Sols, T
<1>8. \A x \in X : m[x] \in Nat /\ m[x] + 1 \in Nat /\ x \in D(m[x] + 1)
  BY <1>m
<1>9. f \in [X -> V]
  BY <1>6, <1>8
<1>10. ASSUME NEW x \in X PROVE Solves(f, x, B, b, p, g)
  <2>1. f[x] = s[m[x] + 1][x] /\ Solves(s[m[x] + 1], x, B, b, p, g)
    BY <1>6, <1>8
  <2>2. CASE x \in B
    BY <2>1, <2>2 DEF Solves
  <2>3. CASE x \notin B
    <3>1. p[x] \in X /\ m[p[x]] \in Nat /\ m[p[x]] + 1 <= m[x] + 1 /\ p[x] \in D(m[p[x]] + 1)
      BY <1>m, <2>3
    <3>2. s[m[p[x]] + 1][p[x]] = s[m[x] + 1][p[x]]
      BY <1>7, <1>8, <3>1
    <3>3. f[p[x]] = s[m[x] + 1][p[x]]
      BY <3>1, <3>2
    <3> HIDE DEF f
    <3>4. QED
      BY <2>1, <2>3, <3>3 DEF Solves
  <2>4. QED
    BY <2>2, <2>3
<1>11. QED
  BY <1>9, <1>10
=============================================================================
