----------------------------- MODULE SumsProofs -----------------------------
(***************************************************************************)
(* What a sum is (the recursion has one solution), what it is when all its *)
(* terms but one are 0, what it becomes when one term changes, and how two *)
(* sums compare.  Induction is by the least counterexample, which is a     *)
(* statement about a set of numbers and so within reach of the provers.    *)
(***************************************************************************)
EXTENDS Sums, WellFoundedInduction, TLAPS

\* A non-empty set of natural numbers has a least element.
LEMMA LeastElement ==
    ASSUME NEW T \in SUBSET Nat, T # {}
    PROVE  \E m \in T : \A k \in T : m <= k
<1>1. PICK m \in T : \A k \in T : ~ (<<k, m>> \in OpToRel(<, Nat))
  BY NatLessThanWellFounded, WFMin, Zenon
<1>2. \A k \in T : ~ (k < m)
  BY <1>1, Zenon DEF OpToRel
<1> QED BY <1>2, SMT, SMTT(40)

\* p is a solution of the recursion that defines the partial sums up to n.
IsPartialSums(p, f, n) ==
    /\ p \in [0 .. n -> Int]
    /\ p[0] = 0
    /\ \A i \in 1 .. n : p[i] = p[i - 1] + f[i]

\* The recursion has a solution.
LEMMA PartialSumsExist ==
    ASSUME NEW n \in Nat, NEW f \in [1 .. n -> Int]
    PROVE  \E p : IsPartialSums(p, f, n)
<1> DEFINE T == {m \in Nat : m <= n /\ ~ \E p : IsPartialSums(p, f, m)}
<1>1. SUFFICES ASSUME n \in T PROVE FALSE
  BY SMT, SMTT(40)
<1>2. PICK m \in T : \A k \in T : m <= k
  BY <1>1, LeastElement, Zenon
<1>3. CASE m = 0
  <2> DEFINE z == [i \in 0 .. 0 |-> 0]
  <2>1. IsPartialSums(z, f, 0)
    BY SMT, SMTT(40) DEF IsPartialSums
  <2> QED BY <2>1, <1>2, <1>3
<1>4. CASE m # 0
  <2>1. m - 1 \in Nat /\ m - 1 \notin T /\ m \in 1 .. n
    BY <1>2, <1>4, SMT, SMTT(40)
  <2>2. PICK p : IsPartialSums(p, f, m - 1)
    BY <2>1, <1>2, SMT, SMTT(40)
  <2> DEFINE q == [i \in 0 .. m |-> IF i = m THEN p[m - 1] + f[m] ELSE p[i]]
  <2>3. q \in [0 .. m -> Int]
    BY <2>1, <2>2, SMT, SMTT(40) DEF IsPartialSums
  <2>4. q[0] = 0
    BY <2>1, <2>2, <1>4, SMT, SMTT(40) DEF IsPartialSums
  <2>5. ASSUME NEW i \in 1 .. m PROVE q[i] = q[i - 1] + f[i]
    <3>1. CASE i = m
      BY <3>1, <2>1, SMT, SMTT(40)
    <3>2. CASE i # m
      <4>1. i \in 1 .. m - 1 /\ i - 1 # m /\ i \in 0 .. m /\ i - 1 \in 0 .. m
        BY <3>2, <2>1, SMT, SMTT(40)
      <4>2. q[i] = p[i] /\ q[i - 1] = p[i - 1]
        BY <4>1, <3>2
      <4> QED BY <4>1, <4>2, <2>2 DEF IsPartialSums
    <3> QED BY <3>1, <3>2
  <2>6. IsPartialSums(q, f, m)
    BY <2>3, <2>4, <2>5, Zenon DEF IsPartialSums
  <2> QED BY <2>6, <1>2
<1> QED BY <1>3, <1>4

\* The recursion has only one solution.
LEMMA PartialSumsUnique ==
    ASSUME NEW n \in Nat, NEW f, NEW p, NEW q,
           IsPartialSums(p, f, n), IsPartialSums(q, f, n)
    PROVE  p = q
<1> DEFINE T == {m \in Nat : m <= n /\ p[m] # q[m]}
<1>1. CASE T = {}
  <2>1. \A m \in 0 .. n : m \in Nat /\ m <= n /\ m \notin T
    BY <1>1, SMT, SMTT(40)
  <2>2. \A m \in 0 .. n : p[m] = q[m]
    BY <2>1
  <2> QED BY <2>2, SMT, SMTT(40) DEF IsPartialSums
<1>2. CASE T # {}
  <2>1. PICK m \in T : \A k \in T : m <= k
    BY <1>2, LeastElement, Zenon
  <2>2. m # 0
    BY <2>1 DEF IsPartialSums
  <2>3. m \in 1 .. n /\ m - 1 \in Nat /\ m - 1 \notin T
    BY <2>1, <2>2, SMT, SMTT(40)
  <2>4. p[m - 1] = q[m - 1]
    BY <2>3, SMT, SMTT(40)
  <2> QED BY <2>1, <2>3, <2>4 DEF IsPartialSums
<1> QED BY <1>1, <1>2

\* PartialSums is that solution.
LEMMA PartialSumsSolve ==
    ASSUME NEW n \in Nat, NEW f \in [1 .. n -> Int]
    PROVE  IsPartialSums(PartialSums(f, n), f, n)
<1> DEFINE Body(p) == [i \in 0 .. n |-> IF i = 0 THEN 0 ELSE p[i - 1] + f[i]]
<1>1. PICK p : IsPartialSums(p, f, n)
  BY PartialSumsExist
<1>2. p = Body(p)
  BY <1>1, SMT, SMTT(40) DEF IsPartialSums
<1>3. PartialSums(f, n) = CHOOSE g : g = Body(g)
  BY DEF PartialSums
<1>4. PartialSums(f, n) = Body(PartialSums(f, n))
  BY <1>2, <1>3, Zenon
<1> DEFINE s == PartialSums(f, n)
<1>5. s = [i \in 0 .. n |-> IF i = 0 THEN 0 ELSE s[i - 1] + f[i]]
  BY <1>4, Zenon
<1> HIDE DEF s
<1>6. s[0] = 0 /\ \A i \in 1 .. n : s[i] = s[i - 1] + f[i]
  BY <1>5, SMT, SMTT(40)
<1> DEFINE T == {m \in Nat : m <= n /\ s[m] \notin Int}
<1>7. CASE T = {}
  <2>1. \A m \in 0 .. n : m \in Nat /\ m <= n /\ m \notin T
    BY <1>7, SMT, SMTT(40)
  <2>2. \A m \in 0 .. n : s[m] \in Int
    BY <2>1
  <2>3. s = [m \in 0 .. n |-> s[m]]
    BY <1>5
  <2> QED BY <2>2, <2>3, <1>6, Zenon DEF IsPartialSums, s
<1>8. CASE T # {}
  <2>1. PICK m \in T : \A k \in T : m <= k
    BY <1>8, LeastElement, Zenon
  <2>2. m # 0
    BY <2>1, <1>6, SMT, SMTT(40)
  <2>3. m \in 1 .. n /\ m - 1 \in Nat /\ m - 1 \notin T
    BY <2>1, <2>2, SMT, SMTT(40)
  <2>4. s[m - 1] \in Int /\ f[m] \in Int
    BY <2>3, SMT, SMTT(40)
  <2> QED BY <2>1, <2>3, <2>4, <1>6, SMT, SMTT(40)
<1> QED BY <1>7, <1>8

\* A sum of integers is an integer; it is the last partial sum.
LEMMA SumToType ==
    ASSUME NEW n \in Nat, NEW f \in [1 .. n -> Int]
    PROVE  SumTo(f, n) \in Int
BY PartialSumsSolve, SMT, SMTT(40) DEF IsPartialSums, SumTo

\* Any solution of the recursion ends in the sum.
LEMMA SumToIs ==
    ASSUME NEW n \in Nat, NEW f \in [1 .. n -> Int], NEW p,
           IsPartialSums(p, f, n)
    PROVE  SumTo(f, n) = p[n]
BY PartialSumsSolve, PartialSumsUnique DEF SumTo

\* A sum of zeros is 0.
LEMMA SumOfZeros ==
    ASSUME NEW n \in Nat
    PROVE  SumTo([i \in 1 .. n |-> 0], n) = 0
<1> DEFINE f == [i \in 1 .. n |-> 0]
           p == [i \in 0 .. n |-> 0]
<1>1. IsPartialSums(p, f, n)
  BY SMT, SMTT(40) DEF IsPartialSums
<1>2. f \in [1 .. n -> Int] /\ p[n] = 0
  BY SMT, SMTT(40)
<1> HIDE DEF f, p
<1>3. SumTo(f, n) = p[n]
  BY <1>1, <1>2, SumToIs
<1> QED BY <1>2, <1>3 DEF f

\* Changing one term changes the sum by the difference.
LEMMA SumUpdate ==
    ASSUME NEW n \in Nat, NEW f \in [1 .. n -> Int], NEW g \in [1 .. n -> Int],
           NEW k \in 1 .. n, \A i \in 1 .. n : i # k => g[i] = f[i]
    PROVE  SumTo(g, n) = SumTo(f, n) + g[k] - f[k]
<1> DEFINE p == PartialSums(f, n)
<1>1. IsPartialSums(p, f, n) /\ SumTo(f, n) = p[n]
  BY PartialSumsSolve DEF SumTo
<1> HIDE DEF p
<1> DEFINE q == [i \in 0 .. n |-> IF i < k THEN p[i] ELSE p[i] + g[k] - f[k]]
<1>2. q \in [0 .. n -> Int]
  <2>1. g[k] \in Int /\ f[k] \in Int /\ \A i \in 0 .. n : p[i] \in Int
    BY <1>1 DEF IsPartialSums
  <2>2. \A i \in 0 .. n : q[i] \in Int
    BY <2>1, SMT, SMTT(40)
  <2> QED BY <2>2
<1>3. q[0] = 0
  BY <1>1, SMT, SMTT(40) DEF IsPartialSums
<1>4. ASSUME NEW i \in 1 .. n PROVE q[i] = q[i - 1] + g[i]
  <2>1. /\ i \in 0 .. n /\ i - 1 \in 0 .. n
        /\ p[i] \in Int /\ p[i - 1] \in Int /\ p[i] = p[i - 1] + f[i]
    BY <1>1, SMT, SMTT(40) DEF IsPartialSums
  <2>2. CASE i < k
    BY <2>1, <2>2, SMT, SMTT(40)
  <2>3. CASE i = k
    BY <2>1, <2>3, SMT, SMTT(40)
  <2>4. CASE i > k
    BY <2>1, <2>4, SMT, SMTT(40)
  <2> QED BY <2>2, <2>3, <2>4, SMT, SMTT(40)
<1>5. IsPartialSums(q, g, n)
  BY <1>2, <1>3, <1>4, Zenon DEF IsPartialSums
<1>6. SumTo(g, n) = q[n]
  BY <1>5, SumToIs, Zenon
<1> QED BY <1>1, <1>6, SMT, SMTT(40)

\* A sum of natural numbers is a natural number.
LEMMA SumNat ==
    ASSUME NEW n \in Nat, NEW f \in [1 .. n -> Nat]
    PROVE  SumTo(f, n) \in Nat
<1> DEFINE p == PartialSums(f, n)
<1>0. f \in [1 .. n -> Int]
  BY SMT, SMTT(40)
<1>1. IsPartialSums(p, f, n) /\ SumTo(f, n) = p[n]
  BY <1>0, PartialSumsSolve DEF SumTo
<1> HIDE DEF p
<1> DEFINE T == {m \in Nat : m <= n /\ p[m] < 0}
<1>2. SUFFICES ASSUME n \in T PROVE FALSE
  BY <1>1, SMT, SMTT(40) DEF IsPartialSums
<1>3. PICK m \in T : \A k \in T : m <= k
  BY <1>2, LeastElement, Zenon
<1>4. m # 0
  BY <1>1, <1>3, SMT, SMTT(40) DEF IsPartialSums
<1>5. m \in 1 .. n /\ m - 1 \in Nat /\ m - 1 \notin T /\ m - 1 \in 0 .. n
  BY <1>3, <1>4, SMT, SMTT(40)
<1>6. p[m - 1] \in Nat /\ p[m] = p[m - 1] + f[m]
  BY <1>1, <1>5, SMT, SMTT(40) DEF IsPartialSums
<1> QED BY <1>3, <1>5, <1>6, SMT, SMTT(40)

\* A sum of two lists is the sum of their sums.
LEMMA SumAdd ==
    ASSUME NEW n \in Nat, NEW f \in [1 .. n -> Int], NEW g \in [1 .. n -> Int],
           NEW h \in [1 .. n -> Int], \A i \in 1 .. n : h[i] = f[i] + g[i]
    PROVE  SumTo(h, n) = SumTo(f, n) + SumTo(g, n)
<1> DEFINE p == PartialSums(f, n)
           q == PartialSums(g, n)
           s == [i \in 0 .. n |-> p[i] + q[i]]
<1>1. IsPartialSums(p, f, n) /\ IsPartialSums(q, g, n)
  BY PartialSumsSolve
<1>2. SumTo(f, n) = p[n] /\ SumTo(g, n) = q[n]
  BY DEF SumTo
<1> HIDE DEF p, q
<1>3. IsPartialSums(s, h, n)
  BY <1>1, SMTT(20), SMTT(40) DEF IsPartialSums
<1>4. SumTo(h, n) = s[n]
  BY <1>3, SumToIs, Zenon
<1> QED  BY <1>2, <1>4, SMT, SMTT(40)

\* Two terms of a list of natural numbers are together at most its sum.
LEMMA SumOfTwo ==
    ASSUME NEW n \in Nat, NEW f \in [1 .. n -> Nat], NEW a \in 1 .. n,
           NEW b \in 1 .. n, a # b
    PROVE  f[a] + f[b] <= SumTo(f, n)
<1> DEFINE g == [f EXCEPT ![a] = 0]
           h == [g EXCEPT ![b] = 0]
<1>1. f \in [1 .. n -> Int] /\ g \in [1 .. n -> Int]
  BY SMT, SMTT(40)
<1>2. h \in [1 .. n -> Nat] /\ h \in [1 .. n -> Int]
  BY SMT, SMTT(40)
<1>3. (\A i \in 1 .. n : i # a => g[i] = f[i]) /\ g[a] = 0 /\ g[b] = f[b]
  OBVIOUS
<1>4. (\A i \in 1 .. n : i # b => h[i] = g[i]) /\ h[b] = 0
  BY <1>1
<1> HIDE DEF g, h
<1>5. SumTo(g, n) = SumTo(f, n) + g[a] - f[a]
  BY <1>1, <1>3, SumUpdate, Zenon
<1>6. SumTo(h, n) = SumTo(g, n) + h[b] - g[b]
  BY <1>1, <1>2, <1>4, SumUpdate, Zenon
<1>7. SumTo(h, n) \in Nat /\ SumTo(f, n) \in Int /\ SumTo(g, n) \in Int
  BY <1>1, <1>2, SumNat, SumToType, Zenon
<1>8. f[a] \in Nat /\ f[b] \in Nat
  OBVIOUS
<1> QED  BY <1>3, <1>4, <1>5, <1>6, <1>7, <1>8, SMTT(20), SMTT(40)

\* Two shares of t add up to at most the share of the sum.
LEMMA ShareOfSum ==
    ASSUME NEW t \in Nat, NEW a \in Int, NEW b \in Int, NEW c \in Int, NEW d \in Int,
           100 * a <= t * b, 100 * c <= t * d
    PROVE  100 * (a + c) <= t * (b + d)
<1> DEFINE x == t * b
           y == t * d
<1>1. t * (b + d) = x + y /\ x \in Int /\ y \in Int
  BY SMT, SMTT(40)
<1>2. 100 * a <= x /\ 100 * c <= y
  OBVIOUS
<1> HIDE DEF x, y
<1>3. 100 * (a + c) <= x + y
  BY <1>1, <1>2, SMT, SMTT(40)
<1> QED BY <1>1, <1>3

\* If every term of one sum is at most t per cent of the same term of the other,
\* so is the sum: shares rounded down never add up to more than the whole.
LEMMA SumShare ==
    ASSUME NEW n \in Nat, NEW f \in [1 .. n -> Nat], NEW g \in [1 .. n -> Nat],
           NEW t \in Nat, \A i \in 1 .. n : 100 * f[i] <= t * g[i]
    PROVE  100 * SumTo(f, n) <= t * SumTo(g, n)
<1> DEFINE p == PartialSums(f, n)
           q == PartialSums(g, n)
<1>0. f \in [1 .. n -> Int] /\ g \in [1 .. n -> Int]
  BY SMT, SMTT(40)
<1>1. IsPartialSums(p, f, n) /\ IsPartialSums(q, g, n)
  BY <1>0, PartialSumsSolve
<1>2. SumTo(f, n) = p[n] /\ SumTo(g, n) = q[n]
  BY DEF SumTo
<1> HIDE DEF p, q
<1> DEFINE T == {m \in Nat : m <= n /\ ~ (100 * p[m] <= t * q[m])}
<1>3. SUFFICES ASSUME n \in T PROVE FALSE
  BY <1>2, SMT, SMTT(40)
<1>4. PICK m \in T : \A k \in T : m <= k
  BY <1>3, LeastElement, Zenon
<1>5. m # 0
  <2>1. p[0] = 0 /\ q[0] = 0
    BY <1>1 DEF IsPartialSums
  <2> QED BY <1>4, <2>1, SMT, SMTT(40)
<1>6. m \in 1 .. n /\ m - 1 \in Nat /\ m - 1 \notin T /\ m - 1 \in 0 .. n
  BY <1>4, <1>5, SMT, SMTT(40)
<1>7. /\ p[m] = p[m - 1] + f[m] /\ q[m] = q[m - 1] + g[m]
      /\ p[m - 1] \in Int /\ q[m - 1] \in Int /\ f[m] \in Nat /\ g[m] \in Nat
  BY <1>1, <1>6 DEF IsPartialSums
<1>8. 100 * p[m - 1] <= t * q[m - 1] /\ 100 * f[m] <= t * g[m]
  BY <1>6, SMT, SMTT(40)
<1>9. 100 * (p[m - 1] + f[m]) <= t * (q[m - 1] + g[m])
  <2>1. f[m] \in Int /\ g[m] \in Int
    BY <1>7, SMT, SMTT(40)
  <2> QED BY <1>7, <1>8, <2>1, ShareOfSum, Zenon
<1> QED BY <1>4, <1>7, <1>9, Zenon

\* A sum with one term that is not 0 is that term.
LEMMA SumOneTerm ==
    ASSUME NEW n \in Nat, NEW f \in [1 .. n -> Int], NEW k \in 1 .. n,
           \A i \in 1 .. n : i # k => f[i] = 0
    PROVE  SumTo(f, n) = f[k]
<1> DEFINE z == [i \in 1 .. n |-> 0]
<1>1. z \in [1 .. n -> Int] /\ z[k] = 0 /\ \A i \in 1 .. n : i # k => f[i] = z[i]
  BY SMT, SMTT(40)
<1>2. SumTo(z, n) = 0
  BY SumOfZeros
<1> HIDE DEF z
<1>3. SumTo(f, n) = SumTo(z, n) + f[k] - z[k]
  BY <1>1, SumUpdate, ZenonT(40)
<1> QED BY <1>1, <1>2, <1>3, SMT, SMTT(40)

\* A list with one more term has a sum with one more term.
LEMMA SumOneMore ==
    ASSUME NEW n \in Nat, NEW f \in [1 .. n -> Int], NEW g \in [1 .. n + 1 -> Int],
           \A i \in 1 .. n : g[i] = f[i]
    PROVE  SumTo(g, n + 1) = SumTo(f, n) + g[n + 1]
<1> DEFINE p == PartialSums(g, n + 1)
           q == [i \in 0 .. n |-> p[i]]
<1>1. IsPartialSums(p, g, n + 1) /\ SumTo(g, n + 1) = p[n + 1]
  BY PartialSumsSolve, SMT, SMTT(40) DEF SumTo
<1> HIDE DEF p
<1>2. IsPartialSums(q, f, n)
  BY <1>1, SMT, SMTT(40) DEF IsPartialSums
<1>3. SumTo(f, n) = q[n] /\ q[n] = p[n]
  BY <1>2, SumToIs, SMTT(20), SMTT(40)
<1>4. p[n + 1] = p[n + 1 - 1] + g[n + 1] /\ n + 1 - 1 = n
  BY <1>1, SMT, SMTT(40) DEF IsPartialSums
<1> QED BY <1>1, <1>3, <1>4
=============================================================================
