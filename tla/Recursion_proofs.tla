-------------------------- MODULE Recursion_proofs ---------------------------
(***************************************************************************)
(* Induction and recursion over the natural numbers, for the loops that    *)
(* the models write as recursive functions.  A predicate and the body of a *)
(* recursion are functions here, not operators, so that the provers can    *)
(* instantiate the lemmas.                                                 *)
(***************************************************************************)
EXTENDS Integers, FiniteSetsExt, WellFoundedInduction, TLAPS

(* A set of natural numbers that is not empty has its least element in it. *)
LEMMA MinOfSome ==
    ASSUME NEW T \in SUBSET Nat, T # {}
    PROVE  Min(T) \in T /\ \A y \in T : Min(T) <= y
  <1>1. \E x \in T : \A y \in T : ~ (<<y, x>> \in OpToRel(<, Nat))
    BY WFMin, NatLessThanWellFounded, Zenon
  <1>2. PICK x \in T : \A y \in T : ~ (<<y, x>> \in OpToRel(<, Nat)) BY <1>1
  <1>3. \A y \in T : ~ (y < x) BY <1>2 DEF OpToRel
  <1>4. \A y \in T : x <= y BY <1>3
  <1> QED BY <1>4 DEF Min

(* Induction. *)
LEMMA Induction ==
    ASSUME NEW T \in SUBSET Nat, 0 \in T, \A n \in Nat : n \in T => n + 1 \in T
    PROVE  \A n \in Nat : n \in T
  <1> SUFFICES ASSUME NEW b \in Nat, b \notin T PROVE FALSE OBVIOUS
  <1> DEFINE U == Nat \ T
             x == Min(U)
  <1>1. U \in SUBSET Nat /\ U # {} OBVIOUS
  <1>2. x \in U /\ \A y \in U : x <= y BY <1>1, MinOfSome
  <1> HIDE DEF x
  <1>3. x \in Nat /\ x \notin T /\ x # 0 BY <1>2
  <1>4. x - 1 \in Nat /\ x - 1 \notin U BY <1>2, <1>3
  <1>5. x - 1 \in T /\ (x - 1) + 1 = x BY <1>3, <1>4
  <1> QED BY <1>3, <1>5

-----------------------------------------------------------------------------
(* A function given by its first value and by how each value follows from  *)
(* the one before exists: the values are in V, the first is b, and step    *)
(* takes a position and the value before it to the value there.            *)

Follows(g, n, b, step) == g[0] = b /\ \A k \in 1 .. n : g[k] = step[k][g[k - 1]]

LEMMA FollowsAgree ==
    ASSUME NEW b, NEW step, NEW g, NEW h, NEW n \in Nat, NEW m \in Nat, n <= m,
           Follows(g, n, b, step), Follows(h, m, b, step)
    PROVE  \A k \in 0 .. n : g[k] = h[k]
  <1> DEFINE T == {k \in Nat : k > n \/ g[k] = h[k]}
  <1>1. T \in SUBSET Nat /\ 0 \in T BY DEF Follows
  <1>2. ASSUME NEW k \in Nat, k \in T PROVE k + 1 \in T
    <2>1. CASE k + 1 > n BY <2>1
    <2>2. CASE k + 1 <= n
      <3>1. k + 1 \in 1 .. n /\ k + 1 \in 1 .. m /\ (k + 1) - 1 = k /\ g[k] = h[k] BY <1>2, <2>2
      <3>2. g[k + 1] = step[k + 1][g[k]] /\ h[k + 1] = step[k + 1][h[k]] BY <3>1 DEF Follows
      <3>3. g[k + 1] = h[k + 1] BY <3>1, <3>2, Zenon
      <3>4. k + 1 \in Nat OBVIOUS
      <3> QED BY <3>3, <3>4
    <2> QED BY <2>1, <2>2
  <1> HIDE DEF T
  <1>3. \A k \in Nat : k \in T BY <1>1, <1>2, Induction
  <1> QED BY <1>3 DEF T

LEMMA FollowsUpTo ==
    ASSUME NEW V, NEW b \in V, NEW step \in [Nat -> [V -> V]], NEW n \in Nat
    PROVE  \E g \in [Nat -> V] : Follows(g, n, b, step)
  <1> DEFINE T == {k \in Nat : \E g \in [Nat -> V] : Follows(g, k, b, step)}
  <1>1. 0 \in T
    <2>1. [k \in Nat |-> b] \in [Nat -> V] OBVIOUS
    <2>2. Follows([k \in Nat |-> b], 0, b, step) BY DEF Follows
    <2> QED BY <2>1, <2>2
  <1>2. ASSUME NEW k \in Nat, k \in T PROVE k + 1 \in T
    <2>1. PICK g \in [Nat -> V] : Follows(g, k, b, step) BY <1>2
    <2> DEFINE v == step[k + 1][g[k]]
               h == [g EXCEPT ![k + 1] = v]
    <2>2. k + 1 \in Nat /\ g[k] \in V BY <2>1
    <2>3. v \in V BY <2>2
    <2>v. v = step[k + 1][g[k]] OBVIOUS
    <2> HIDE DEF v
    <2>4. h \in [Nat -> V] /\ h[k + 1] = v /\ \A j \in Nat : j # k + 1 => h[j] = g[j]
      BY <2>2, <2>3
    <2> HIDE DEF h
    <2>5. h[0] = b
      <3>1. 0 # k + 1 /\ 0 \in Nat OBVIOUS
      <3>2. h[0] = g[0] BY <3>1, <2>4, Zenon
      <3> QED BY <3>2, <2>1, Zenon DEF Follows
    <2>6. ASSUME NEW j \in 1 .. k + 1 PROVE h[j] = step[j][h[j - 1]]
      <3>1. h[j - 1] = g[j - 1]
        <4>1. j - 1 \in Nat /\ j - 1 # k + 1 BY <2>2
        <4> QED BY <4>1, <2>4
      <3>2. CASE j = k + 1
        <4>1. j - 1 = k BY <3>2
        <4> QED BY <4>1, <3>1, <3>2, <2>4, <2>v
      <3>3. CASE j # k + 1
        <4>1. j \in 1 .. k BY <3>3
        <4>2. g[j] = step[j][g[j - 1]] BY <4>1, <2>1 DEF Follows
        <4>3. h[j] = g[j] BY <3>3, <2>4
        <4> QED BY <4>2, <4>3, <3>1
      <3> QED BY <3>2, <3>3
    <2>7. Follows(h, k + 1, b, step) BY <2>5, <2>6 DEF Follows
    <2> QED BY <2>2, <2>4, <2>7
  <1>3. T \in SUBSET Nat OBVIOUS
  <1> HIDE DEF T
  <1>4. n \in T BY <1>1, <1>2, <1>3, Induction
  <1> QED BY <1>4 DEF T

Steps(V) == [Nat -> [V -> V]]
Recursive(f, V, b, step) ==
    f \in [Nat -> V] /\ f[0] = b /\ \A n \in Nat \ {0} : f[n] = step[n][f[n - 1]]

LEMMA RecursionExists ==
    ASSUME NEW V, NEW b \in V, NEW step \in Steps(V)
    PROVE  \E f : Recursive(f, V, b, step)
  <1>0. step \in [Nat -> [V -> V]] BY DEF Steps
  <1> DEFINE G(n) == CHOOSE g : g \in [Nat -> V] /\ Follows(g, n, b, step)
             f == [n \in Nat |-> G(n)[n]]
  <1>1. ASSUME NEW n \in Nat PROVE G(n) \in [Nat -> V] /\ Follows(G(n), n, b, step)
    <2>1. \E g : g \in [Nat -> V] /\ Follows(g, n, b, step) BY <1>0, FollowsUpTo
    <2> QED BY <2>1
  <1> HIDE DEF G
  <1>2. f \in [Nat -> V] BY <1>1
  <1>3. ASSUME NEW n \in Nat PROVE f[n] = IF n = 0 THEN b ELSE step[n][f[n - 1]]
    <2>1. CASE n = 0
      <3>1. f[0] = G(0)[0] OBVIOUS
      <3> QED BY <3>1, <2>1, <1>1 DEF Follows
    <2>2. CASE n # 0
      <3>1. n - 1 \in Nat /\ n - 1 <= n /\ n \in 1 .. n /\ n - 1 \in 0 .. n - 1 BY <2>2
      <3>2. G(n)[n] = step[n][G(n)[n - 1]] BY <1>1, <3>1 DEF Follows
      <3>3. G(n - 1)[n - 1] = G(n)[n - 1] BY <1>1, <3>1, FollowsAgree
      <3>4. f[n] = G(n)[n] /\ f[n - 1] = G(n - 1)[n - 1] BY <3>1
      <3> QED BY <3>2, <3>3, <3>4, <2>2
    <2> QED BY <2>1, <2>2
  <1> HIDE DEF f
  <1>4. f[0] = b /\ \A n \in Nat \ {0} : f[n] = step[n][f[n - 1]] BY <1>3
  <1> QED BY <1>2, <1>4 DEF Recursive

-----------------------------------------------------------------------------
(* A loop upwards that ends at the first position in stop, with the value  *)
(* val has there: what the recursive function that models it returns.      *)
Scans(f, stop, val) == f = [i \in Nat |-> IF i \in stop THEN val[i] ELSE f[i + 1]]

LEMMA ScanExists ==
    ASSUME NEW stop, NEW val
    PROVE  \E f : Scans(f, stop, val)
  <1> DEFINE From(i) == {k \in Nat : k >= i /\ k \in stop}
             g == [i \in Nat |-> IF From(i) = {} THEN 0 ELSE val[Min(From(i))]]
  <1>1. ASSUME NEW i \in Nat PROVE g[i] = IF i \in stop THEN val[i] ELSE g[i + 1]
    <2>1. CASE i \in stop
      <3>1. i \in From(i) /\ From(i) \in SUBSET Nat BY <2>1
      <3>2. Min(From(i)) \in From(i) /\ Min(From(i)) <= i BY <3>1, MinOfSome
      <3>3. Min(From(i)) = i BY <3>2
      <3> QED BY <2>1, <3>1, <3>3
    <2>2. CASE i \notin stop
      <3>1. From(i) = From(i + 1) BY <2>2
      <3>2. g[i] = (IF From(i) = {} THEN 0 ELSE val[Min(From(i))]) BY Zenon
      <3>3. i + 1 \in Nat OBVIOUS
      <3>4. g[i + 1] = (IF From(i + 1) = {} THEN 0 ELSE val[Min(From(i + 1))]) BY <3>3, Zenon
      <3>5. g[i] = g[i + 1] BY <3>1, <3>2, <3>4, Zenon
      <3> QED BY <2>2, <3>5, Zenon
    <2> QED BY <2>1, <2>2
  <1>2. g = [i \in Nat |-> g[i]] OBVIOUS
  <1> HIDE DEF g
  <1>3. g = [i \in Nat |-> IF i \in stop THEN val[i] ELSE g[i + 1]] BY <1>1, <1>2
  <1> QED BY <1>3 DEF Scans

LEMMA ScanIs ==
    ASSUME NEW stop, NEW val, NEW f, Scans(f, stop, val), NEW z \in Nat, z \in stop,
           \A k \in 0 .. z - 1 : k \notin stop
    PROVE  f[0] = val[z]
  <1> DEFINE T == {k \in Nat : k > z \/ f[0] = f[k]}
  <1>1. \A i \in Nat : f[i] = IF i \in stop THEN val[i] ELSE f[i + 1] BY DEF Scans
  <1>2. T \in SUBSET Nat /\ 0 \in T OBVIOUS
  <1>3. ASSUME NEW k \in Nat, k \in T PROVE k + 1 \in T
    <2>1. CASE k + 1 > z BY <2>1
    <2>2. CASE k + 1 <= z
      <3>1. k \in 0 .. z - 1 /\ f[0] = f[k] /\ k + 1 \in Nat BY <1>3, <2>2
      <3>2. f[k] = f[k + 1] BY <1>1, <3>1
      <3> QED BY <3>1, <3>2
    <2> QED BY <2>1, <2>2
  <1> HIDE DEF T
  <1>4. z \in T BY <1>2, <1>3, Induction
  <1>5. f[0] = f[z] BY <1>4 DEF T
  <1> QED BY <1>1, <1>5
=============================================================================
