------------------------- MODULE MemoryViewsProofs -------------------------
(* The memoryview objects of direct buffers implement the abstract views of  *)
(* ArrayViews, for every shape, every stride and every index of callers that *)
(* keep to the limits "slices" and "ranks".                                  *)
(*                                                                           *)
(* First the arithmetic of shapes and index tuples, without the state.  Then *)
(* what an index selects, in the code and in the specification; what each    *)
(* way of copying leaves in memory; the invariant that every object is a     *)
(* direct slice of memory; and, operation by operation, that a step of the   *)
(* objects is a step of the views.                                           *)
EXTENDS MemoryViews, FiniteSetTheorems, FunctionTheorems, SequenceTheorems,
        WellFoundedInduction, TLAPS

\* Every set of naturals has a least element.
LEMMA LeastOf ==
    ASSUME NEW T \in SUBSET Nat, T # {}
    PROVE  \E m \in T : \A k \in T : m <= k
<1> DEFINE R == OpToRel(<, Nat)
<1>1. IsWellFoundedOn(R, Nat)
  BY NatLessThanWellFounded
<1>2. \A i, j \in Nat : <<i, j>> \in R <=> i < j
  BY DEF OpToRel
<1> HIDE DEF R
<1>3. PICK m \in T : \A k \in T : ~(<<k, m>> \in R)
  BY <1>1, WFMin
<1>4. ASSUME NEW k \in T PROVE m <= k
  <2>1. k \in Nat /\ m \in Nat
    OBVIOUS
  <2>2. ~(k < m)
    BY <1>2, <1>3, <2>1
  <2> QED BY <2>1, <2>2
<1> QED BY <1>4

\* Induction, over a set.
LEMMA Induct ==
    ASSUME NEW T, 0 \in T, \A n \in Nat : n \in T => n + 1 \in T
    PROVE  \A n \in Nat : n \in T
<1> SUFFICES ASSUME NEW n \in Nat, n \notin T PROVE FALSE
  OBVIOUS
<1> DEFINE Bad == {k \in Nat : k \notin T}
<1>1. PICK m \in Bad : \A k \in Bad : m <= k
  <2>1. Bad \in SUBSET Nat /\ Bad # {}
    OBVIOUS
  <2> HIDE DEF Bad
  <2> QED BY <2>1, LeastOf
<1>2. m \in Nat /\ m # 0 /\ m - 1 \in Nat
  OBVIOUS
<1>3. m - 1 \in T
  BY <1>1, <1>2
<1>4. m - 1 + 1 \in T /\ m - 1 + 1 = m
  BY <1>2, <1>3
<1> QED BY <1>4

-----------------------------------------------------------------------------
(* Sums and products over the first elements of a sequence.                *)

\* The recursion of a sum has a solution for every length.
LEMMA SumExists ==
    ASSUME NEW q, NEW n \in Nat
    PROVE  \E f : f = [k \in 0..n |-> IF k = 0 THEN 0 ELSE f[k - 1] + q[k]]
<1> DEFINE Solves(f, m) == f = [k \in 0..m |-> IF k = 0 THEN 0 ELSE f[k - 1] + q[k]]
           T == {m \in Nat : \E f : Solves(f, m)}
<1>1. 0 \in T
  <2> DEFINE f == [k \in 0..0 |-> 0]
  <2>1. Solves(f, 0)
    OBVIOUS
  <2> QED BY <2>1
<1>2. ASSUME NEW m \in Nat, m \in T PROVE m + 1 \in T
  <2>1. PICK f : Solves(f, m)
    BY <1>2
  <2> DEFINE more == [k \in 0..(m + 1) |-> IF k <= m THEN f[k] ELSE f[m] + q[k]]
  <2>2. ASSUME NEW k \in 0..(m + 1)
        PROVE  more[k] = IF k = 0 THEN 0 ELSE more[k - 1] + q[k]
    <3>1. CASE k <= m
      <4>1. k \in 0..m /\ more[k] = f[k] /\ (k # 0 => more[k - 1] = f[k - 1])
        BY <3>1
      <4>2. f[k] = IF k = 0 THEN 0 ELSE f[k - 1] + q[k]
        BY <2>1, <4>1
      <4> QED BY <4>1, <4>2
    <3>2. CASE k = m + 1
      <4>1. more[k] = f[m] + q[k] /\ k - 1 = m /\ more[m] = f[m] /\ k # 0
        BY <3>2
      <4> HIDE DEF more
      <4> QED BY <4>1
    <3> QED BY <3>1, <3>2
  <2>3. Solves(more, m + 1)
    BY <2>2
  <2> HIDE DEF Solves, more
  <2> QED BY <2>3
<1>3. \A m \in Nat : m \in T
  <2> HIDE DEF T
  <2> QED BY <1>1, <1>2, Induct
<1> QED BY <1>3

\* Two solutions agree where both are defined.
LEMMA SumUnique ==
    ASSUME NEW q, NEW n \in Nat, NEW m \in Nat, NEW f, NEW g,
           f = [k \in 0..n |-> IF k = 0 THEN 0 ELSE f[k - 1] + q[k]],
           g = [k \in 0..m |-> IF k = 0 THEN 0 ELSE g[k - 1] + q[k]]
    PROVE  \A k \in Nat : k <= n /\ k <= m => f[k] = g[k]
<1> DEFINE T == {k \in Nat : k <= n /\ k <= m => f[k] = g[k]}
<1>1. 0 \in T
  <2>1. 0 \in 0..n /\ 0 \in 0..m
    OBVIOUS
  <2>2. f[0] = 0 /\ g[0] = 0
    BY <2>1
  <2> QED BY <2>2
<1>2. ASSUME NEW k \in Nat, k \in T PROVE k + 1 \in T
  <2>1. SUFFICES ASSUME k + 1 <= n, k + 1 <= m PROVE f[k + 1] = g[k + 1]
    OBVIOUS
  <2>2. k + 1 \in 0..n /\ k + 1 \in 0..m /\ k + 1 # 0 /\ k + 1 - 1 = k
    BY <2>1
  <2>3. f[k + 1] = f[k] + q[k + 1] /\ g[k + 1] = g[k] + q[k + 1]
    BY <2>2
  <2> QED BY <1>2, <2>1, <2>3
<1>3. \A k \in Nat : k \in T
  <2> HIDE DEF T
  <2> QED BY <1>1, <1>2, Induct
<1> QED BY <1>3

\* A sum over no element is zero, one over n elements adds the n-th.
LEMMA SumIs ==
    ASSUME NEW q, NEW n \in Nat
    PROVE  SumTo(q, 0) = 0 /\ SumTo(q, n + 1) = SumTo(q, n) + q[n + 1]
<1> DEFINE Solves(f, m) == f = [k \in 0..m |-> IF k = 0 THEN 0 ELSE f[k - 1] + q[k]]
           sum(m) == CHOOSE f : Solves(f, m)
<1>1. \A m \in Nat : Solves(sum(m), m)
  BY SumExists
<1>2. \A m \in Nat : SumTo(q, m) = sum(m)[m]
  BY DEF SumTo
<1> HIDE DEF sum
<1>3. SumTo(q, 0) = 0
  <2>1. Solves(sum(0), 0)
    BY <1>1
  <2> QED BY <1>2, <2>1
<1>4. sum(n + 1)[n + 1] = sum(n + 1)[n] + q[n + 1]
  <2>1. Solves(sum(n + 1), n + 1)
    BY <1>1
  <2>2. n + 1 \in 0..(n + 1) /\ n + 1 # 0 /\ n + 1 - 1 = n
    OBVIOUS
  <2> QED BY <2>1, <2>2
<1>5. sum(n + 1)[n] = sum(n)[n]
  <2>1. Solves(sum(n + 1), n + 1) /\ Solves(sum(n), n)
    BY <1>1
  <2> QED BY <2>1, SumUnique
<1> QED BY <1>2, <1>3, <1>4, <1>5

\* The same for products.
LEMMA ProductExists ==
    ASSUME NEW q, NEW n \in Nat
    PROVE  \E f : f = [k \in 0..n |-> IF k = 0 THEN 1 ELSE f[k - 1] * q[k]]
<1> DEFINE Solves(f, m) == f = [k \in 0..m |-> IF k = 0 THEN 1 ELSE f[k - 1] * q[k]]
           T == {m \in Nat : \E f : Solves(f, m)}
<1>1. 0 \in T
  <2> DEFINE f == [k \in 0..0 |-> 1]
  <2>1. Solves(f, 0)
    OBVIOUS
  <2> QED BY <2>1
<1>2. ASSUME NEW m \in Nat, m \in T PROVE m + 1 \in T
  <2>1. PICK f : Solves(f, m)
    BY <1>2
  <2> DEFINE more == [k \in 0..(m + 1) |-> IF k <= m THEN f[k] ELSE f[m] * q[k]]
  <2>2. ASSUME NEW k \in 0..(m + 1)
        PROVE  more[k] = IF k = 0 THEN 1 ELSE more[k - 1] * q[k]
    <3>1. CASE k <= m
      <4>1. k \in 0..m /\ more[k] = f[k] /\ (k # 0 => more[k - 1] = f[k - 1])
        BY <3>1
      <4>2. f[k] = IF k = 0 THEN 1 ELSE f[k - 1] * q[k]
        BY <2>1, <4>1
      <4> QED BY <4>1, <4>2
    <3>2. CASE k = m + 1
      <4>1. more[k] = f[m] * q[k] /\ k - 1 = m /\ more[m] = f[m] /\ k # 0
        BY <3>2
      <4> HIDE DEF more
      <4> QED BY <4>1
    <3> QED BY <3>1, <3>2
  <2>3. Solves(more, m + 1)
    BY <2>2
  <2> HIDE DEF Solves, more
  <2> QED BY <2>3
<1>3. \A m \in Nat : m \in T
  <2> HIDE DEF T
  <2> QED BY <1>1, <1>2, Induct
<1> QED BY <1>3

\* Two solutions of the recursion of a product agree.
LEMMA ProductUnique ==
    ASSUME NEW q, NEW n \in Nat, NEW m \in Nat, NEW f, NEW g,
           f = [k \in 0..n |-> IF k = 0 THEN 1 ELSE f[k - 1] * q[k]],
           g = [k \in 0..m |-> IF k = 0 THEN 1 ELSE g[k - 1] * q[k]]
    PROVE  \A k \in Nat : k <= n /\ k <= m => f[k] = g[k]
<1> DEFINE T == {k \in Nat : k <= n /\ k <= m => f[k] = g[k]}
<1>1. 0 \in T
  <2>1. 0 \in 0..n /\ 0 \in 0..m
    OBVIOUS
  <2>2. f[0] = 1 /\ g[0] = 1
    BY <2>1
  <2> QED BY <2>2
<1>2. ASSUME NEW k \in Nat, k \in T PROVE k + 1 \in T
  <2>1. SUFFICES ASSUME k + 1 <= n, k + 1 <= m PROVE f[k + 1] = g[k + 1]
    OBVIOUS
  <2>2. k + 1 \in 0..n /\ k + 1 \in 0..m /\ k + 1 # 0 /\ k + 1 - 1 = k
    BY <2>1
  <2>3. f[k + 1] = f[k] * q[k + 1] /\ g[k + 1] = g[k] * q[k + 1]
    BY <2>2
  <2> QED BY <1>2, <2>1, <2>3
<1>3. \A k \in Nat : k \in T
  <2> HIDE DEF T
  <2> QED BY <1>1, <1>2, Induct
<1> QED BY <1>3

\* A product over no element is one, one over n elements takes the n-th.
LEMMA ProductIs ==
    ASSUME NEW q, NEW n \in Nat
    PROVE  ProductTo(q, 0) = 1 /\ ProductTo(q, n + 1) = ProductTo(q, n) * q[n + 1]
<1> DEFINE Solves(f, m) == f = [k \in 0..m |-> IF k = 0 THEN 1 ELSE f[k - 1] * q[k]]
           product(m) == CHOOSE f : Solves(f, m)
<1>1. \A m \in Nat : Solves(product(m), m)
  BY ProductExists
<1>2. \A m \in Nat : ProductTo(q, m) = product(m)[m]
  BY DEF ProductTo
<1> HIDE DEF product
<1>3. ProductTo(q, 0) = 1
  <2>1. Solves(product(0), 0)
    BY <1>1
  <2> QED BY <1>2, <2>1
<1>4. product(n + 1)[n + 1] = product(n + 1)[n] * q[n + 1]
  <2>1. Solves(product(n + 1), n + 1)
    BY <1>1
  <2>2. n + 1 \in 0..(n + 1) /\ n + 1 # 0 /\ n + 1 - 1 = n
    OBVIOUS
  <2> QED BY <2>1, <2>2
<1>5. product(n + 1)[n] = product(n)[n]
  <2>1. Solves(product(n + 1), n + 1) /\ Solves(product(n), n)
    BY <1>1
  <2> QED BY <2>1, ProductUnique
<1> QED BY <1>2, <1>3, <1>4, <1>5

\* A sum of numbers is a number.
LEMMA SumType ==
    ASSUME NEW q, NEW n \in Nat, \A k \in 1..n : q[k] \in Int
    PROVE  \A m \in 0..n : SumTo(q, m) \in Int
<1> DEFINE T == {m \in Nat : m <= n => SumTo(q, m) \in Int}
<1>1. 0 \in T
  BY SumIs
<1>2. ASSUME NEW m \in Nat, m \in T PROVE m + 1 \in T
  <2>1. SumTo(q, m + 1) = SumTo(q, m) + q[m + 1]
    BY SumIs
  <2> QED BY <1>2, <2>1
<1>3. \A m \in Nat : m \in T
  <2> HIDE DEF T
  <2> QED BY <1>1, <1>2, Induct
<1> QED BY <1>3

\* Sums of the same elements are the same.
LEMMA SumSame ==
    ASSUME NEW q, NEW r, NEW n \in Nat, \A k \in 1..n : q[k] = r[k]
    PROVE  SumTo(q, n) = SumTo(r, n)
<1> DEFINE T == {m \in Nat : m <= n => SumTo(q, m) = SumTo(r, m)}
<1>1. 0 \in T
  BY SumIs
<1>2. ASSUME NEW m \in Nat, m \in T PROVE m + 1 \in T
  <2>1. SumTo(q, m + 1) = SumTo(q, m) + q[m + 1] /\ SumTo(r, m + 1) = SumTo(r, m) + r[m + 1]
    BY SumIs
  <2> QED BY <1>2, <2>1
<1>3. \A m \in Nat : m \in T
  <2> HIDE DEF T
  <2> QED BY <1>1, <1>2, Induct
<1> QED BY <1>3

\* A factor of every element is a factor of the sum.
LEMMA SumScaled ==
    ASSUME NEW q, NEW r, NEW n \in Nat, NEW c \in Int,
           \A k \in 1..n : q[k] \in Int /\ r[k] = c * q[k]
    PROVE  SumTo(r, n) = c * SumTo(q, n)
<1> DEFINE T == {m \in Nat : m <= n => SumTo(r, m) = c * SumTo(q, m)}
<1>1. 0 \in T
  BY SumIs
<1>2. ASSUME NEW m \in Nat, m \in T PROVE m + 1 \in T
  <2>1. SumTo(q, m + 1) = SumTo(q, m) + q[m + 1] /\ SumTo(r, m + 1) = SumTo(r, m) + r[m + 1]
    BY SumIs
  <2>2. SUFFICES ASSUME m + 1 <= n PROVE SumTo(r, m + 1) = c * SumTo(q, m + 1)
    OBVIOUS
  <2>3. SumTo(q, m) \in Int /\ q[m + 1] \in Int /\ r[m + 1] = c * q[m + 1]
    BY <2>2, SumType
  <2>4. c * (SumTo(q, m) + q[m + 1]) = c * SumTo(q, m) + c * q[m + 1]
    BY <2>3
  <2> QED BY <1>2, <2>1, <2>2, <2>3, <2>4
<1>3. \A m \in Nat : m \in T
  <2> HIDE DEF T
  <2> QED BY <1>1, <1>2, Induct
<1> QED BY <1>3

\* A sum of greater elements is greater.
LEMMA SumMonotone ==
    ASSUME NEW q, NEW r, NEW n \in Nat,
           \A k \in 1..n : q[k] \in Int /\ r[k] \in Int /\ q[k] <= r[k]
    PROVE  SumTo(q, n) <= SumTo(r, n)
<1> DEFINE T == {m \in Nat : m <= n => SumTo(q, m) <= SumTo(r, m)}
<1>1. 0 \in T
  BY SumIs
<1>2. ASSUME NEW m \in Nat, m \in T PROVE m + 1 \in T
  <2>1. SumTo(q, m + 1) = SumTo(q, m) + q[m + 1] /\ SumTo(r, m + 1) = SumTo(r, m) + r[m + 1]
    BY SumIs
  <2>2. SUFFICES ASSUME m + 1 <= n PROVE SumTo(q, m + 1) <= SumTo(r, m + 1)
    OBVIOUS
  <2>3. SumTo(q, m) \in Int /\ SumTo(r, m) \in Int
    BY <2>2, SumType
  <2> QED BY <1>2, <2>1, <2>2, <2>3
<1>3. \A m \in Nat : m \in T
  <2> HIDE DEF T
  <2> QED BY <1>1, <1>2, Induct
<1> QED BY <1>3

\* Turning round the first m elements leaves their sum.
LEMMA SumTurned ==
    ASSUME NEW q, NEW r, NEW n \in Nat, NEW m \in 0..n,
           \A k \in 1..n : q[k] \in Int /\ r[k] = IF k > m THEN q[k] ELSE q[m + 1 - k]
    PROVE  SumTo(r, n) = SumTo(q, n)
<1> DEFINE T == {k \in Nat : k <= m => SumTo(r, k) + SumTo(q, m - k) = SumTo(q, m)}
<1>t. \A k \in 0..n : SumTo(q, k) \in Int /\ SumTo(r, k) \in Int
  <2>1. \A k \in 1..n : r[k] \in Int
    OBVIOUS
  <2> QED BY <2>1, SumType
<1>1. 0 \in T
  BY <1>t, SumIs
<1>2. ASSUME NEW k \in Nat, k \in T PROVE k + 1 \in T
  <2>1. SUFFICES ASSUME k + 1 <= m PROVE SumTo(r, k + 1) + SumTo(q, m - (k + 1)) = SumTo(q, m)
    OBVIOUS
  <2>2. SumTo(r, k + 1) = SumTo(r, k) + r[k + 1] /\ r[k + 1] = q[m - k]
    BY <2>1, SumIs
  <2>3. m - (k + 1) \in Nat /\ m - (k + 1) + 1 = m - k
    BY <2>1
  <2>4. SumTo(q, m - k) = SumTo(q, m - (k + 1)) + q[m - k]
    BY <2>3, SumIs
  <2>5. k \in 0..n /\ m - (k + 1) \in 0..n /\ m - k \in 1..n /\ k + 1 \in 0..n
    BY <2>1
  <2>6. SumTo(r, k) \in Int /\ SumTo(q, m - (k + 1)) \in Int /\ q[m - k] \in Int
    BY <2>5, <1>t
  <2> QED BY <1>2, <2>1, <2>2, <2>4, <2>6
<1>3. \A k \in Nat : k \in T
  <2> HIDE DEF T
  <2> QED BY <1>1, <1>2, Induct
<1>4. SumTo(r, m) = SumTo(q, m)
  <2>1. SumTo(r, m) + SumTo(q, m - m) = SumTo(q, m) /\ m - m = 0 /\ m \in Nat
    BY <1>3
  <2>2. SumTo(r, m) \in Int
    BY <1>t
  <2> QED BY <2>1, <2>2, SumIs
<1> DEFINE U == {k \in Nat : m <= k /\ k <= n => SumTo(r, k) = SumTo(q, k)}
<1>5. 0 \in U
  BY SumIs
<1>6. ASSUME NEW k \in Nat, k \in U PROVE k + 1 \in U
  <2>1. SUFFICES ASSUME m <= k + 1, k + 1 <= n PROVE SumTo(r, k + 1) = SumTo(q, k + 1)
    OBVIOUS
  <2>2. CASE m = k + 1
    BY <2>2, <1>4
  <2>3. CASE m <= k
    <3>1. SumTo(r, k + 1) = SumTo(r, k) + r[k + 1] /\ SumTo(q, k + 1) = SumTo(q, k) + q[k + 1]
      BY SumIs
    <3>2. r[k + 1] = q[k + 1]
      BY <2>1, <2>3
    <3> QED BY <1>6, <2>1, <2>3, <3>1, <3>2
  <2> QED BY <2>1, <2>2, <2>3
<1>7. \A k \in Nat : k \in U
  <2> HIDE DEF U
  <2> QED BY <1>5, <1>6, Induct
<1> QED BY <1>7

\* Zeros in front leave a sum.
LEMMA SumLed ==
    ASSUME NEW q, NEW r, NEW n \in Nat, NEW d \in Nat, \A k \in 1..n : q[k] \in Int,
           \A k \in 1..(n + d) : r[k] = IF k <= d THEN 0 ELSE q[k - d]
    PROVE  SumTo(r, n + d) = SumTo(q, n)
<1> DEFINE T == {k \in Nat : k <= d => SumTo(r, k) = 0}
<1>1. 0 \in T
  BY SumIs
<1>2. ASSUME NEW k \in Nat, k \in T PROVE k + 1 \in T
  <2>1. SumTo(r, k + 1) = SumTo(r, k) + r[k + 1]
    BY SumIs
  <2> QED BY <1>2, <2>1
<1>3. \A k \in Nat : k \in T
  <2> HIDE DEF T
  <2> QED BY <1>1, <1>2, Induct
<1> DEFINE U == {k \in Nat : k <= n => SumTo(r, k + d) = SumTo(q, k)}
<1>5. 0 \in U
  BY <1>3, SumIs
<1>6. ASSUME NEW k \in Nat, k \in U PROVE k + 1 \in U
  <2>1. SUFFICES ASSUME k + 1 <= n PROVE SumTo(r, k + 1 + d) = SumTo(q, k + 1)
    OBVIOUS
  <2>2. k + d \in Nat /\ k + d + 1 = k + 1 + d
    OBVIOUS
  <2>3. SumTo(r, k + 1 + d) = SumTo(r, k + d) + r[k + 1 + d]
    BY <2>2, SumIs
  <2>4. r[k + 1 + d] = q[k + 1]
    BY <2>1
  <2>5. SumTo(q, k + 1) = SumTo(q, k) + q[k + 1]
    BY SumIs
  <2> QED BY <1>6, <2>1, <2>3, <2>4, <2>5
<1>7. \A k \in Nat : k \in U
  <2> HIDE DEF U
  <2> QED BY <1>5, <1>6, Induct
<1> QED BY <1>7

-----------------------------------------------------------------------------
\* A product of naturals is a natural.
LEMMA ProductType ==
    ASSUME NEW q, NEW n \in Nat, \A k \in 1..n : q[k] \in Nat
    PROVE  \A m \in 0..n : ProductTo(q, m) \in Nat
<1> DEFINE T == {m \in Nat : m <= n => ProductTo(q, m) \in Nat}
<1>1. 0 \in T
  BY ProductIs
<1>2. ASSUME NEW m \in Nat, m \in T PROVE m + 1 \in T
  <2>1. ProductTo(q, m + 1) = ProductTo(q, m) * q[m + 1]
    BY ProductIs
  <2>2. \A a, b \in Nat : a * b \in Nat
    OBVIOUS
  <2> QED BY <1>2, <2>1, <2>2
<1>3. \A m \in Nat : m \in T
  <2> HIDE DEF T
  <2> QED BY <1>1, <1>2, Induct
<1> QED BY <1>3

\* The product of a sequence read backwards.
LEMMA ProductTurned ==
    ASSUME NEW q, NEW r, NEW n \in Nat,
           \A k \in 1..n : q[k] \in Nat /\ r[k] = q[n + 1 - k]
    PROVE  ProductTo(r, n) = ProductTo(q, n)
<1> DEFINE T == {k \in Nat : k <= n => ProductTo(r, k) * ProductTo(q, n - k) = ProductTo(q, n)}
<1>t. \A k \in 0..n : ProductTo(q, k) \in Nat /\ ProductTo(r, k) \in Nat
  <2>1. \A k \in 1..n : r[k] \in Nat
    OBVIOUS
  <2> QED BY <2>1, ProductType
<1>1. 0 \in T
  BY <1>t, ProductIs
<1>2. ASSUME NEW k \in Nat, k \in T PROVE k + 1 \in T
  <2>1. SUFFICES ASSUME k + 1 <= n PROVE ProductTo(r, k + 1) * ProductTo(q, n - (k + 1)) = ProductTo(q, n)
    OBVIOUS
  <2>2. ProductTo(r, k + 1) = ProductTo(r, k) * r[k + 1] /\ r[k + 1] = q[n - k]
    BY <2>1, ProductIs
  <2>3. n - (k + 1) \in Nat /\ n - (k + 1) + 1 = n - k
    BY <2>1
  <2>4. ProductTo(q, n - k) = ProductTo(q, n - (k + 1)) * q[n - k]
    BY <2>3, ProductIs
  <2>5. k \in 0..n /\ n - (k + 1) \in 0..n /\ n - k \in 1..n
    BY <2>1
  <2>6. ProductTo(r, k) \in Nat /\ ProductTo(q, n - (k + 1)) \in Nat /\ q[n - k] \in Nat
    BY <2>5, <1>t
  <2>7. \A a, b, c \in Nat : (a * c) * b = a * (b * c)
    OBVIOUS
  <2>8. (ProductTo(r, k) * q[n - k]) * ProductTo(q, n - (k + 1))
          = ProductTo(r, k) * (ProductTo(q, n - (k + 1)) * q[n - k])
    BY <2>6, <2>7
  <2> QED BY <1>2, <2>1, <2>2, <2>4, <2>8
<1>3. \A k \in Nat : k \in T
  <2> HIDE DEF T
  <2> QED BY <1>1, <1>2, Induct
<1>4. ProductTo(r, n) * ProductTo(q, n - n) = ProductTo(q, n) /\ n - n = 0 /\ n \in 0..n
  BY <1>3
<1>5. ProductTo(r, n) \in Nat /\ ProductTo(q, 0) = 1
  BY <1>4, <1>t, ProductIs
<1> QED BY <1>4, <1>5

-----------------------------------------------------------------------------
(* Numbers with a digit.                                                   *)

\* The product of two naturals is one.
LEMMA ProductNat ==
    ASSUME NEW a \in Nat, NEW b \in Nat
    PROVE  a * b \in Nat
  OBVIOUS

\* A remainder and a digit make a number below the product.
LEMMA DigitBelow ==
    ASSUME NEW p \in Nat, NEW s \in Nat, NEW j \in Nat, NEW e \in Nat, s < p, j < e
    PROVE  s + j * p \in Nat /\ s + j * p < p * e /\ p * e \in Nat
<1>1. PICK d \in Nat : e = j + 1 + d
  <2>1. e - j - 1 \in Nat /\ e = j + 1 + (e - j - 1)
    OBVIOUS
  <2> QED BY <2>1
<1>2. p * e = p * j + p + p * d /\ p * d \in Nat /\ p * j = j * p /\ j * p \in Nat
  BY <1>1
<1> QED BY <1>2

\* The number determines both.
LEMMA DigitUnique ==
    ASSUME NEW p \in Nat, NEW s \in Nat, NEW t \in Nat, NEW x \in Nat, NEW y \in Nat,
           s < p, t < p, s + x * p = t + y * p
    PROVE  x = y /\ s = t
<1>1. CASE x < y
  <2>1. PICK z \in Nat : y = x + 1 + z
    <3>1. y - x - 1 \in Nat /\ y = x + 1 + (y - x - 1)
      BY <1>1
    <3> QED BY <3>1
  <2>2. y * p = x * p + p + z * p /\ z * p \in Nat /\ x * p \in Nat
    BY <2>1
  <2> QED BY <2>2
<1>2. CASE y < x
  <2>1. PICK z \in Nat : x = y + 1 + z
    <3>1. x - y - 1 \in Nat /\ x = y + 1 + (x - y - 1)
      BY <1>2
    <3> QED BY <3>1
  <2>2. x * p = y * p + p + z * p /\ z * p \in Nat /\ y * p \in Nat
    BY <2>1
  <2> QED BY <2>2
<1>3. CASE x = y
  <2>1. x * p \in Nat
    OBVIOUS
  <2> QED BY <1>3, <2>1
<1> QED BY <1>1, <1>2, <1>3

\* Every number below the product is one.
LEMMA DigitExists ==
    ASSUME NEW w \in Nat, NEW e \in Nat, NEW x \in Nat, x < w * e
    PROVE  \E s, y \in Nat : s < w /\ y < e /\ x = s + y * w
<1>1. w # 0
  OBVIOUS
<1> DEFINE y == x \div w
           s == x % w
<1>2. y \in Nat /\ s \in Nat /\ s < w /\ x = w * y + s
  BY <1>1
<1> HIDE DEF y, s
<1>3. w * y \in Nat /\ w * y = y * w
  BY <1>2
<1>4. y < e
  <2>1. SUFFICES ASSUME e <= y PROVE FALSE
    BY <1>2
  <2>2. PICK d \in Nat : y = e + d
    <3>1. y - e \in Nat /\ y = e + (y - e)
      BY <1>2, <2>1
    <3> QED BY <3>1
  <2>3. w * y = w * e + w * d /\ w * d \in Nat /\ w * e \in Nat
    BY <2>2
  <2> QED BY <1>2, <2>3
<1> QED BY <1>2, <1>3, <1>4

\* The tuples of a shape: one position off each axis.
LEMMA TupleIs ==
    ASSUME NEW shape \in Seq(Nat), NEW i
    PROVE  i \in Tuples(shape) <=>
             /\ i \in [1..Len(shape) -> Nat]
             /\ \A k \in 1..Len(shape) : i[k] < shape[k]
<1> DEFINE D == UNION { 0..(shape[k] - 1) : k \in DOMAIN shape }
<1>1. DOMAIN shape = 1..Len(shape) /\ \A k \in 1..Len(shape) : shape[k] \in Nat
  OBVIOUS
<1>2. i \in Tuples(shape) <=> i \in [1..Len(shape) -> D] /\ \A k \in 1..Len(shape) : i[k] < shape[k]
  BY <1>1 DEF Tuples
<1>3. D \subseteq Nat
  BY <1>1
<1>4. ASSUME i \in [1..Len(shape) -> Nat], \A k \in 1..Len(shape) : i[k] < shape[k]
      PROVE  i \in [1..Len(shape) -> D]
  <2>1. ASSUME NEW k \in 1..Len(shape) PROVE i[k] \in D
    <3>1. i[k] \in 0..(shape[k] - 1)
      BY <1>1, <1>4
    <3> QED BY <1>1, <3>1
  <2> HIDE DEF D
  <2> QED BY <1>4, <2>1
<1> HIDE DEF D
<1> QED BY <1>2, <1>3, <1>4

\* Turning round a shape.
LEMMA TurnedShape ==
    ASSUME NEW shape \in Seq(Nat)
    PROVE  /\ Reverse(shape) \in Seq(Nat) /\ Len(Reverse(shape)) = Len(shape)
           /\ \A k \in 1..Len(shape) : Reverse(shape)[k] = shape[Len(shape) + 1 - k]
<1>1. \A k \in 1..Len(shape) : Len(shape) - k + 1 \in 1..Len(shape) /\ Len(shape) - k + 1 = Len(shape) + 1 - k
  OBVIOUS
<1> QED BY <1>1 DEF Reverse

\* Turning round a tuple gives a tuple of the shape turned round.
LEMMA TurnedTuple ==
    ASSUME NEW shape \in Seq(Nat), NEW i \in Tuples(shape)
    PROVE  /\ Reverse(i) \in Tuples(Reverse(shape))
           /\ Len(i) = Len(shape) /\ DOMAIN i = 1..Len(shape)
           /\ \A k \in 1..Len(shape) : Reverse(i)[k] = i[Len(shape) + 1 - k]
           /\ Reverse(Reverse(i)) = i
<1> DEFINE n == Len(shape)
<1>1. i \in [1..n -> Nat] /\ (\A k \in 1..n : i[k] < shape[k]) /\ n \in Nat
  BY TupleIs
<1>2. i \in Seq(Nat) /\ Len(i) = n
  BY <1>1
<1> HIDE DEF n
<1>3. \A k \in 1..n : n - k + 1 \in 1..n /\ n - k + 1 = n + 1 - k /\ n - (n - k + 1) + 1 = k
  BY <1>1
<1>4. Reverse(i) = [k \in 1..n |-> i[n + 1 - k]]
  BY <1>2, <1>3 DEF Reverse
<1>5. Reverse(i) \in [1..n -> Nat] /\ \A k \in 1..n : Reverse(i)[k] < shape[n + 1 - k]
  BY <1>1, <1>3, <1>4
<1>6. Reverse(i) \in Tuples(Reverse(shape))
  BY <1>5, TupleIs, TurnedShape DEF n
<1>7. Reverse(i) \in Seq(Nat) /\ Len(Reverse(i)) = n
  BY <1>5, <1>1
<1> DEFINE back == Reverse(i)
<1> HIDE DEF back
<1>8. Reverse(back) = [k \in 1..n |-> back[n + 1 - k]]
  <2>1. Len(back) = n
    BY <1>7 DEF back
  <2> QED BY <2>1, <1>3 DEF Reverse
<1>9. Reverse(Reverse(i)) = [k \in 1..n |-> i[k]]
  BY <1>8, <1>4, <1>3 DEF back
<1>10. i = [k \in 1..n |-> i[k]]
  BY <1>1
<1>11. Reverse(Reverse(i)) = i
  BY <1>9, <1>10
<1> QED BY <1>1, <1>2, <1>4, <1>6, <1>11 DEF n

\* The place of a tuple among the first k axes lies below their product.
PlaceTerms(shape, i) == [k \in DOMAIN shape |-> i[k] * ProductTo(shape, k - 1)]

\* The place of a tuple among the first axes is below their product.
LEMMA PlaceBounds ==
    ASSUME NEW shape \in Seq(Nat), NEW i \in Tuples(shape)
    PROVE  \A k \in 0..Len(shape) :
             SumTo(PlaceTerms(shape, i), k) \in 0..(ProductTo(shape, k) - 1)
<1> DEFINE n == Len(shape)
           q == PlaceTerms(shape, i)
<1>1. i \in [1..n -> Nat] /\ (\A k \in 1..n : i[k] < shape[k]) /\ n \in Nat
  BY TupleIs
<1>2. \A k \in 1..n : shape[k] \in Nat
  OBVIOUS
<1>3. \A k \in 1..n : q[k] = i[k] * ProductTo(shape, k - 1)
  BY DEF PlaceTerms
<1>p. \A k \in 0..n : ProductTo(shape, k) \in Nat
  BY <1>1, <1>2, ProductType
<1> HIDE DEF n, q
<1> DEFINE T == {k \in Nat : k <= n => SumTo(q, k) \in 0..(ProductTo(shape, k) - 1)}
<1>4. 0 \in T
  BY SumIs, ProductIs
<1>5. ASSUME NEW k \in Nat, k \in T PROVE k + 1 \in T
  <2>1. SUFFICES ASSUME k + 1 <= n PROVE SumTo(q, k + 1) \in 0..(ProductTo(shape, k + 1) - 1)
    OBVIOUS
  <2>2. k + 1 \in 1..n /\ k \in 0..n /\ k + 1 - 1 = k
    BY <2>1, <1>1
  <2>3. SumTo(q, k + 1) = SumTo(q, k) + i[k + 1] * ProductTo(shape, k)
    BY <1>3, <2>2, SumIs
  <2>4. ProductTo(shape, k + 1) = ProductTo(shape, k) * shape[k + 1]
    BY ProductIs
  <2>5. SumTo(q, k) \in 0..(ProductTo(shape, k) - 1)
    BY <1>5, <2>2, <1>1
  <2>7. ProductTo(shape, k) \in Nat /\ i[k + 1] \in Nat /\ shape[k + 1] \in Nat /\ i[k + 1] < shape[k + 1]
    BY <2>2, <1>p, <1>1, <1>2
  <2> DEFINE p == ProductTo(shape, k)
             s == SumTo(q, k)
  <2>8. p \in Nat /\ s \in Nat /\ s < p
    BY <2>5, <2>7
  <2> HIDE DEF p, s
  <2>9. s + i[k + 1] * p \in Nat /\ s + i[k + 1] * p < p * shape[k + 1] /\ p * shape[k + 1] \in Nat
    BY <2>7, <2>8, DigitBelow
  <2> QED BY <2>3, <2>4, <2>9 DEF p, s
<1>6. \A k \in Nat : k \in T
  <2> HIDE DEF T
  <2> QED BY <1>4, <1>5, Induct
<1> QED BY <1>6, <1>1 DEF n, q

\* Tuples with the same place agree.
LEMMA PlaceInjective ==
    ASSUME NEW shape \in Seq(Nat), NEW i \in Tuples(shape), NEW j \in Tuples(shape),
           PlaceF(shape, i) = PlaceF(shape, j)
    PROVE  i = j
<1> DEFINE n == Len(shape)
           q == PlaceTerms(shape, i)
           r == PlaceTerms(shape, j)
<1>1. i \in [1..n -> Nat] /\ (\A k \in 1..n : i[k] < shape[k]) /\ n \in Nat
  BY TupleIs
<1>2. j \in [1..n -> Nat] /\ (\A k \in 1..n : j[k] < shape[k]) /\ \A k \in 1..n : shape[k] \in Nat
  BY TupleIs
<1>3. \A k \in 1..n : q[k] = i[k] * ProductTo(shape, k - 1) /\ r[k] = j[k] * ProductTo(shape, k - 1)
  BY DEF PlaceTerms
<1>p. \A k \in 0..n : ProductTo(shape, k) \in Nat
  BY <1>1, <1>2, ProductType
<1>b. \A k \in 0..n : /\ SumTo(q, k) \in 0..(ProductTo(shape, k) - 1)
                      /\ SumTo(r, k) \in 0..(ProductTo(shape, k) - 1)
  BY PlaceBounds
<1>e. SumTo(q, n) = SumTo(r, n)
  BY DEF PlaceF, PlaceTerms
<1> HIDE DEF n, q, r
<1> DEFINE T == {d \in Nat : d <= n => /\ SumTo(q, n - d) = SumTo(r, n - d)
                                       /\ \A k \in (n - d + 1)..n : i[k] = j[k]}
<1>4. 0 \in T
  BY <1>1, <1>e
<1>5. ASSUME NEW d \in Nat, d \in T PROVE d + 1 \in T
  <2>1. SUFFICES ASSUME d + 1 <= n
                 PROVE  /\ SumTo(q, n - (d + 1)) = SumTo(r, n - (d + 1))
                        /\ \A k \in (n - (d + 1) + 1)..n : i[k] = j[k]
    OBVIOUS
  <2> DEFINE k == n - (d + 1)
  <2>2. k \in 0..n /\ k \in Nat /\ k + 1 = n - d /\ k + 1 \in 1..n /\ k + 1 - 1 = k
    BY <2>1, <1>1
  <2>3. SumTo(q, n - d) = SumTo(r, n - d) /\ \A l \in (n - d + 1)..n : i[l] = j[l]
    BY <1>5, <2>1, <1>1
  <2> HIDE DEF k
  <2>4. SumTo(q, k + 1) = SumTo(q, k) + i[k + 1] * ProductTo(shape, k)
    <3>1. q[k + 1] = i[k + 1] * ProductTo(shape, k)
      BY <1>3, <2>2
    <3> QED BY <3>1, <2>2, SumIs
  <2>5. SumTo(r, k + 1) = SumTo(r, k) + j[k + 1] * ProductTo(shape, k)
    <3>1. r[k + 1] = j[k + 1] * ProductTo(shape, k)
      BY <1>3, <2>2
    <3> QED BY <3>1, <2>2, SumIs
  <2>7. ProductTo(shape, k) \in Nat /\ i[k + 1] \in Nat /\ j[k + 1] \in Nat
    BY <2>2, <1>p, <1>1, <1>2
  <2> DEFINE p == ProductTo(shape, k)
             s == SumTo(q, k)
             t == SumTo(r, k)
  <2>8. p \in Nat /\ s \in Nat /\ t \in Nat /\ s < p /\ t < p
    BY <2>2, <2>7, <1>b
  <2>9. s + i[k + 1] * p = t + j[k + 1] * p
    BY <2>2, <2>3, <2>4, <2>5
  <2> HIDE DEF p, s, t
  <2>10. i[k + 1] = j[k + 1] /\ s = t
    <3> DEFINE x == i[k + 1]
               y == j[k + 1]
    <3>1. x \in Nat /\ y \in Nat /\ s + x * p = t + y * p
      BY <2>7, <2>9
    <3> HIDE DEF x, y
    <3>2. x = y /\ s = t
      BY <2>8, <3>1, DigitUnique
    <3> QED BY <3>2 DEF x, y
  <2>11. \A l \in (k + 1)..n : i[l] = j[l]
    <3> TAKE l \in (k + 1)..n
    <3>1. CASE l = k + 1
      BY <3>1, <2>10
    <3>2. CASE l # k + 1
      <4>1. l \in (n - d + 1)..n
        BY <3>2, <2>2, <1>1
      <4> QED BY <4>1, <2>3
    <3> QED BY <3>1, <3>2
  <2>12. k = n - (d + 1)
    BY DEF k
  <2> QED BY <2>10, <2>11, <2>12 DEF s, t
<1>6. \A d \in Nat : d \in T
  <2> HIDE DEF T
  <2> QED BY <1>4, <1>5, Induct
<1>7. \A k \in (n - n + 1)..n : i[k] = j[k]
  BY <1>6, <1>1
<1>8. \A k \in 1..n : i[k] = j[k]
  BY <1>7, <1>1
<1> QED BY <1>8, <1>1, <1>2

\* Every number below the product is the place of a tuple.
LEMMA PlaceSurjective ==
    ASSUME NEW shape \in Seq(Nat), NEW p \in 0..(ProductTo(shape, Len(shape)) - 1)
    PROVE  \E i \in Tuples(shape) : PlaceF(shape, i) = p
<1> DEFINE n == Len(shape)
           Fits(i, k) == i \in [1..n -> Nat] /\ \A l \in 1..k : i[l] < shape[l]
           T == {k \in Nat : k <= n => \A x \in 0..(ProductTo(shape, k) - 1) :
                    \E i : Fits(i, k) /\ SumTo(PlaceTerms(shape, i), k) = x}
<1>1. n \in Nat /\ DOMAIN shape = 1..n /\ \A k \in 1..n : shape[k] \in Nat
  OBVIOUS
<1>p. \A k \in 0..n : ProductTo(shape, k) \in Nat
  BY <1>1, ProductType
<1> HIDE DEF n
<1>2. 0 \in T
  <2> DEFINE z == [k \in 1..n |-> 0]
  <2>1. Fits(z, 0) /\ SumTo(PlaceTerms(shape, z), 0) = 0
    BY SumIs
  <2> HIDE DEF z, Fits
  <2>2. \A x \in 0..(ProductTo(shape, 0) - 1) : x = 0
    BY ProductIs
  <2> QED BY <2>1, <2>2
<1>3. ASSUME NEW k \in Nat, k \in T PROVE k + 1 \in T
  <2>1. SUFFICES ASSUME k + 1 <= n, NEW x \in 0..(ProductTo(shape, k + 1) - 1)
                 PROVE  \E i : Fits(i, k + 1) /\ SumTo(PlaceTerms(shape, i), k + 1) = x
    OBVIOUS
  <2> DEFINE w == ProductTo(shape, k)
  <2>2. k \in 0..n /\ k + 1 \in 1..n /\ w \in Nat /\ shape[k + 1] \in Nat
    BY <2>1, <1>1, <1>p
  <2>3. ProductTo(shape, k + 1) = w * shape[k + 1]
    BY ProductIs
  <2> HIDE DEF w
  <2>4. x \in Nat /\ x < w * shape[k + 1]
    <3>1. w * shape[k + 1] \in Nat
      BY <2>2, ProductNat
    <3> QED BY <2>3, <3>1
  <2>5. PICK s, y \in Nat : s < w /\ y < shape[k + 1] /\ x = s + y * w
    BY <2>2, <2>4, DigitExists
  <2>8. PICK i : Fits(i, k) /\ SumTo(PlaceTerms(shape, i), k) = s
    <3>1. s \in 0..(ProductTo(shape, k) - 1)
      BY <2>2, <2>5 DEF w
    <3> QED BY <1>3, <2>1, <2>2, <3>1
  <2> DEFINE more == [i EXCEPT ![k + 1] = y]
  <2>9. more \in [1..n -> Nat] /\ more[k + 1] = y /\ \A l \in 1..k : more[l] = i[l]
    BY <2>2, <2>5, <2>8, <1>1
  <2> HIDE DEF more
  <2>10. Fits(more, k + 1)
    <3>1. \A l \in 1..(k + 1) : l = k + 1 \/ l \in 1..k
      OBVIOUS
    <3> QED BY <2>5, <2>8, <2>9, <3>1
  <2>11. \A l \in 1..k : PlaceTerms(shape, more)[l] = PlaceTerms(shape, i)[l]
    BY <2>9, <1>1, <2>2 DEF PlaceTerms
  <2>12. SumTo(PlaceTerms(shape, more), k) = s
    BY <2>8, <2>11, SumSame
  <2>13. PlaceTerms(shape, more)[k + 1] = y * w
    BY <2>9, <1>1, <2>2 DEF PlaceTerms, w
  <2>14. SumTo(PlaceTerms(shape, more), k + 1) = s + y * w
    BY <2>12, <2>13, SumIs
  <2> QED BY <2>10, <2>14, <2>5
<1>4. \A k \in Nat : k \in T
  <2> HIDE DEF T
  <2> QED BY <1>2, <1>3, Induct
<1>5. PICK i : Fits(i, n) /\ SumTo(PlaceTerms(shape, i), n) = p
  BY <1>4, <1>1 DEF n
<1>6. i \in Tuples(shape)
  BY <1>5, TupleIs DEF n
<1>7. PlaceF(shape, i) = p
  BY <1>5 DEF PlaceF, PlaceTerms, n
<1> QED BY <1>6, <1>7

\* A shape has as many tuples as its product says.
LEMMA TuplesCounted ==
    ASSUME NEW shape \in Seq(Nat)
    PROVE  /\ IsFiniteSet(Tuples(shape))
           /\ Cardinality(Tuples(shape)) = ProductTo(shape, Len(shape))
<1> DEFINE size == ProductTo(shape, Len(shape))
           Below == 0..(size - 1)
           place == [i \in Tuples(shape) |-> PlaceF(shape, i)]
<1>1. size \in Nat
  <2>1. \A k \in 1..Len(shape) : shape[k] \in Nat
    OBVIOUS
  <2>2. Len(shape) \in Nat
    OBVIOUS
  <2>3. \A k \in 0..Len(shape) : ProductTo(shape, k) \in Nat
    BY <2>1, <2>2, ProductType
  <2> QED BY <2>2, <2>3
<1>2. \A i \in Tuples(shape) : PlaceF(shape, i) \in Below
  BY PlaceBounds DEF PlaceF, PlaceTerms
<1>3. place \in [Tuples(shape) -> Below]
  BY <1>2
<1>4. place \in Injection(Tuples(shape), Below)
  BY <1>3, PlaceInjective DEF Injection, IsInjective
<1>5. place \in Surjection(Tuples(shape), Below)
  BY <1>3, PlaceSurjective DEF Surjection
<1> HIDE DEF place
<1>6. place \in Bijection(Tuples(shape), Below)
  BY <1>4, <1>5 DEF Bijection
<1>7. IsFiniteSet(Below) /\ Cardinality(Below) = size
  <2>1. 0 \in Int /\ size - 1 \in Int
    BY <1>1
  <2>2. size = 0 \/ (size > 0 /\ size - 1 - 0 + 1 = size)
    BY <1>1
  <2> HIDE DEF size
  <2>3. IsFiniteSet(0..(size - 1)) /\ Cardinality(0..(size - 1)) = IF 0 > size - 1 THEN 0 ELSE size - 1 - 0 + 1
    BY <2>1, FS_Interval
  <2> QED BY <1>1, <2>2, <2>3
<1> HIDE DEF Below, size
<1>8. IsFiniteSet(Tuples(shape)) /\ Cardinality(Tuples(shape)) = Cardinality(Below)
  <2>1. ExistsBijection(Tuples(shape), Below)
    BY <1>6 DEF ExistsBijection
  <2>2. ExistsBijection(Below, Tuples(shape))
    BY <2>1, Fun_ExistsBijSymmetric
  <2> QED BY <1>7, <2>1, <2>2, FS_Bijection
<1> QED BY <1>7, <1>8 DEF size

-----------------------------------------------------------------------------
(* The operators of the abstract specification that both modules have.      *)

\* The operators of IndexTuples mean the same in both modules.
LEMMA SameOperators ==
    /\ \A q, n : Promised!SumTo(q, n) = SumTo(q, n)
    /\ \A q, n : Promised!ProductTo(q, n) = ProductTo(q, n)
    /\ \A q : Promised!Tuples(q) = Tuples(q)
    /\ \A q : Promised!Reverse(q) = Reverse(q)
    /\ \A q : Promised!Max(q) = Max(q) /\ Promised!Min(q) = Min(q)
    /\ \A q : Promised!Last(q) = Last(q)
    /\ \A q : Promised!Range(q) = Range(q)
    /\ \A q, i, order : Promised!Place(q, i, order) = Place(q, i, order)
<1>1. \A q, n : Promised!SumTo(q, n) = SumTo(q, n)
  BY DEF SumTo, Promised!SumTo
<1>2. \A q, n : Promised!ProductTo(q, n) = ProductTo(q, n)
  BY DEF ProductTo, Promised!ProductTo
<1>3. \A q : Promised!Tuples(q) = Tuples(q)
  BY DEF Tuples, Promised!Tuples
<1>4. \A q : Promised!Reverse(q) = Reverse(q)
  BY DEF Reverse, Promised!Reverse
<1>5. \A q : Promised!Max(q) = Max(q) /\ Promised!Min(q) = Min(q)
  BY DEF Max, Promised!Max, Min, Promised!Min
<1>6. \A q : Promised!Last(q) = Last(q)
  BY DEF Last, Promised!Last
<1>7. \A q : Promised!Range(q) = Range(q)
  BY DEF Range, Promised!Range
<1>8. \A q, i, order : Promised!Place(q, i, order) = Place(q, i, order)
  BY <1>1, <1>2, <1>4 DEF Place, Promised!Place, PlaceF, Promised!PlaceF
<1> QED BY <1>1, <1>2, <1>3, <1>4, <1>5, <1>6, <1>7, <1>8

-----------------------------------------------------------------------------
(* Maxima, minima and the arithmetic of C.                                  *)

\* The greater and the smaller of two numbers.
LEMMA PairBounds ==
    ASSUME NEW a \in Int, NEW b \in Int
    PROVE  /\ Max({a, b}) = IF a >= b THEN a ELSE b
           /\ Min({a, b}) = IF a <= b THEN a ELSE b
<1>1. \E x \in {a, b} : \A y \in {a, b} : x >= y
  OBVIOUS
<1>2. \E x \in {a, b} : \A y \in {a, b} : x <= y
  OBVIOUS
<1>3. /\ Max({a, b}) \in {a, b} /\ \A y \in {a, b} : Max({a, b}) >= y
      /\ Min({a, b}) \in {a, b} /\ \A y \in {a, b} : Min({a, b}) <= y
  BY <1>1, <1>2 DEF Max, Min
<1> HIDE DEF Max, Min
<1> QED BY <1>3

\* The value a bound has, or the default.
LEMMA GivenIs ==
    ASSUME NEW b, IsBound(b), NEW default \in Int
    PROVE  /\ b = {} => Given(b, default) = default
           /\ b # {} => /\ Given(b, default) \in b /\ b = {Given(b, default)}
                        /\ Promised!Given(b) = Given(b, default)
           /\ Given(b, default) \in Int
<1>1. CASE b = {}
  BY <1>1 DEF Given
<1>2. CASE b # {}
  <2>1. PICK x : x \in b
    BY <1>2
  <2>2. b = {x} /\ x \in Int
    BY <2>1 DEF IsBound
  <2>3. Given(b, default) = x /\ Promised!Given(b) = x
    BY <2>2 DEF Given, Promised!Given
  <2> QED BY <2>2, <2>3, <1>2
<1> QED BY <1>1, <1>2

IsSliceItem(item) ==
    /\ item.kind = "slice" /\ item = Range3(item.start, item.stop, item.step)
    /\ IsBound(item.start) /\ IsBound(item.stop) /\ IsBound(item.step)

\* What StartOf and StopOf are, case by case.
LEMMA SliceBounds ==
    ASSUME NEW n \in Nat, NEW item, IsSliceItem(item)
    PROVE  /\ StepOf(item) \in Int /\ StartOf(n, item) \in Int /\ StopOf(n, item) \in Int
           /\ StartOf(n, item) =
                IF item.start = {} THEN IF StepOf(item) < 0 THEN n - 1 ELSE 0
                ELSE LET s == Given(item.start, 0) IN
                     IF s < 0 THEN IF s + n >= 0 THEN s + n ELSE 0
                     ELSE IF s >= n THEN IF StepOf(item) < 0 THEN n - 1 ELSE n
                     ELSE s
           /\ StopOf(n, item) =
                IF item.stop = {} THEN IF StepOf(item) < 0 THEN -1 ELSE n
                ELSE LET s == Given(item.stop, 0) IN
                     IF s < 0 THEN IF s + n >= 0 THEN s + n ELSE 0
                     ELSE IF s <= n THEN s ELSE n
           /\ Given(item.start, 0) \in Int /\ Given(item.stop, 0) \in Int
<1> DEFINE s == Given(item.start, 0)
           e == Given(item.stop, 0)
<1>1. StepOf(item) \in Int /\ s \in Int /\ e \in Int
  BY GivenIs DEF IsSliceItem, StepOf
<1> HIDE DEF s, e
<1>2. StartOf(n, item) =
        IF item.start = {} THEN IF StepOf(item) < 0 THEN n - 1 ELSE 0
        ELSE IF s < 0 THEN IF s + n >= 0 THEN s + n ELSE 0
        ELSE IF s >= n THEN IF StepOf(item) < 0 THEN n - 1 ELSE n
        ELSE s
  <2>1. Max({s + n, 0}) = IF s + n >= 0 THEN s + n ELSE 0
    BY <1>1, PairBounds
  <2>2. StartOf(n, item) =
           CASE item.start = {} -> IF StepOf(item) < 0 THEN n - 1 ELSE 0
             [] item.start # {} /\ s < 0 -> Max({s + n, 0})
             [] item.start # {} /\ s >= n -> IF StepOf(item) < 0 THEN n - 1 ELSE n
             [] OTHER -> s
    BY DEF StartOf, s
  <2>3. CASE item.start = {}
    BY <2>2, <2>3
  <2>4. CASE item.start # {} /\ s < 0
    BY <2>1, <2>2, <2>4, <1>1
  <2>5. CASE item.start # {} /\ ~(s < 0) /\ s >= n
    BY <2>2, <2>5, <1>1
  <2>6. CASE item.start # {} /\ ~(s < 0) /\ ~(s >= n)
    BY <2>2, <2>6, <1>1
  <2> QED BY <2>3, <2>4, <2>5, <2>6
<1>3. StopOf(n, item) =
        IF item.stop = {} THEN IF StepOf(item) < 0 THEN -1 ELSE n
        ELSE IF e < 0 THEN IF e + n >= 0 THEN e + n ELSE 0
        ELSE IF e <= n THEN e ELSE n
  <2>0. e + n \in Int /\ n \in Int /\ 0 \in Int
    BY <1>1
  <2>1. /\ Max({e + n, 0}) = IF e + n >= 0 THEN e + n ELSE 0
        /\ Min({e, n}) = IF e <= n THEN e ELSE n
    <3>1. Max({e + n, 0}) = IF e + n >= 0 THEN e + n ELSE 0
      BY <2>0, PairBounds
    <3>2. Min({e, n}) = IF e <= n THEN e ELSE n
      BY <1>1, <2>0, PairBounds
    <3> QED BY <3>1, <3>2
  <2>2. StopOf(n, item) =
           CASE item.stop = {} -> IF StepOf(item) < 0 THEN -1 ELSE n
             [] item.stop # {} /\ e < 0 -> Max({e + n, 0})
             [] OTHER -> Min({e, n})
    BY DEF StopOf, e
  <2>3. CASE item.stop = {}
    BY <2>2, <2>3
  <2>4. CASE item.stop # {} /\ e < 0
    BY <2>1, <2>2, <2>4
  <2>5. CASE item.stop # {} /\ ~(e < 0)
    BY <2>1, <2>2, <2>5
  <2> QED BY <2>3, <2>4, <2>5
<1> QED BY <1>1, <1>2, <1>3 DEF s, e

\* Steps of p from zero that stay below d.
LEMMA CountSteps ==
    ASSUME NEW p \in Nat, p # 0, NEW d \in Nat
    PROVE  LET q == d \div p IN
           /\ q \in Nat /\ p * q \in Nat /\ p * q <= d /\ d - p * q < p
           /\ \A k \in Nat : k < (IF d - p * q # 0 THEN q + 1 ELSE q) <=> k * p < d
<1> DEFINE q == d \div p
           r == d % p
<1>1. q \in Nat /\ r \in Nat /\ r < p /\ d = p * q + r
  OBVIOUS
<1> HIDE DEF q, r
<1>2. p * q \in Nat /\ d - p * q = r
  BY <1>1
<1>3. ASSUME NEW k \in Nat PROVE k < (IF r # 0 THEN q + 1 ELSE q) <=> k * p < d
  <2>1. k * p \in Nat
    OBVIOUS
  <2>2. CASE k < q
    <3>1. PICK z \in Nat : q = k + 1 + z
      <4>1. q - k - 1 \in Nat /\ q = k + 1 + (q - k - 1)
        BY <1>1, <2>2
      <4> QED BY <4>1
    <3>2. p * q = k * p + p + p * z /\ p * z \in Nat
      BY <3>1
    <3>3. k * p < d
      BY <1>1, <1>2, <2>1, <3>2
    <3> QED BY <1>1, <2>2, <3>3
  <2>3. CASE k = q
    <3>1. k * p = p * q
      BY <2>3
    <3> QED BY <1>1, <1>2, <2>1, <2>3, <3>1
  <2>4. CASE k > q
    <3>1. PICK z \in Nat : k = q + 1 + z
      <4>1. k - q - 1 \in Nat /\ k = q + 1 + (k - q - 1)
        BY <1>1, <2>4
      <4> QED BY <4>1
    <3>2. k * p = p * q + p + z * p /\ z * p \in Nat
      BY <3>1, <1>1
    <3>3. ~(k * p < d)
      BY <1>1, <1>2, <2>1, <3>2
    <3> QED BY <1>1, <2>4, <3>3
  <2> QED BY <1>1, <2>2, <2>3, <2>4
<1> QED BY <1>1, <1>2, <1>3 DEF q

\* A walk that does not start less than one step past its end.
WholeGap(start, stop, step) ==
    /\ step > 0 => stop - start >= 0 \/ stop - start <= -step
    /\ step < 0 => stop - start <= 0 \/ stop - start >= -step

\* The extent counts the steps that come before the end.
LEMMA ExtentCounts ==
    ASSUME NEW start \in Int, NEW stop \in Int, NEW step \in Int, step # 0,
           WholeGap(start, stop, step)
    PROVE  /\ Extent(start, stop, step) \in Nat
           /\ \A k \in Nat : k < Extent(start, stop, step)
                  <=> IF step > 0 THEN start + k * step < stop ELSE start + k * step > stop
<1> DEFINE d == stop - start
           p == Abs(step)
           q == Abs(d) \div p
           t == TruncDiv(d, step)
           e == IF d - step * t # 0 THEN t + 1 ELSE t
<1>1. d \in Int /\ p \in Nat /\ p # 0 /\ Abs(d) \in Nat /\ (step > 0 => p = step) /\ (step < 0 => p = -step)
      /\ (d >= 0 => Abs(d) = d) /\ (d < 0 => Abs(d) = -d)
  BY DEF Abs
<1>2. Extent(start, stop, step) = Max({0, e})
  BY DEF Extent
<1>3. t = IF (d < 0) = (step < 0) THEN q ELSE -q
  BY DEF TruncDiv
<1>4. /\ q \in Nat /\ p * q \in Nat /\ p * q <= Abs(d) /\ Abs(d) - p * q < p
      /\ \A k \in Nat : k < (IF Abs(d) - p * q # 0 THEN q + 1 ELSE q) <=> k * p < Abs(d)
  <2> DEFINE a == Abs(d)
  <2>1. a \in Nat
    BY <1>1
  <2> HIDE DEF a, p
  <2>2. LET x == a \div p IN
           /\ x \in Nat /\ p * x \in Nat /\ p * x <= a /\ a - p * x < p
           /\ \A k \in Nat : k < (IF a - p * x # 0 THEN x + 1 ELSE x) <=> k * p < a
    BY <1>1, <2>1, CountSteps
  <2> QED BY <2>2 DEF a
<1> HIDE DEF p, q, t
<1>5. t \in Int /\ e \in Int /\ step * t \in Int
  <2>1. t \in Int
    BY <1>3, <1>4
  <2> QED BY <2>1, <1>1
<1>6. Max({0, e}) = IF e > 0 THEN e ELSE 0
  <2> HIDE DEF e
  <2> QED BY <1>5, PairBounds
<1>7. step * q = (IF step > 0 THEN p * q ELSE -(p * q)) /\ step * (-q) = -(step * q)
  BY <1>1, <1>4
<1>8. ASSUME NEW k \in Nat
      PROVE  k * step = (IF step > 0 THEN k * p ELSE -(k * p)) /\ k * p \in Nat
  BY <1>1
<1>9. CASE IF step > 0 THEN d >= 0 ELSE d <= 0
  <2>1. t = q
    <3>1. d < 0 \/ d = 0 \/ d > 0
      BY <1>1
    <3>2. CASE d = 0
      <4>1. Abs(d) = 0
        BY <3>2, <1>1
      <4>2. q = 0
        <5>1. q = 0 \/ q >= 1
          BY <1>4
        <5>2. CASE q >= 1
          <6>1. PICK z \in Nat : q = 1 + z
            <7>1. q - 1 \in Nat /\ q = 1 + (q - 1)
              BY <5>2, <1>4
            <7> QED BY <7>1
          <6>2. p * q = p + p * z /\ p * z \in Nat
            BY <6>1, <1>1
          <6> QED BY <6>2, <4>1, <1>1, <1>4
        <5> QED BY <5>1, <5>2
      <4>3. t = q \/ t = -q
        BY <1>3
      <4> HIDE DEF d
      <4> QED BY <4>2, <4>3
    <3>3. CASE d # 0
      BY <3>3, <1>9, <1>1, <1>3
    <3> QED BY <3>2, <3>3
  <2>2. (d - step * t # 0) <=> (Abs(d) - p * q # 0)
    BY <2>1, <1>9, <1>7, <1>1, <1>4
  <2>3. e = IF Abs(d) - p * q # 0 THEN q + 1 ELSE q
    BY <2>1, <2>2
  <2>4. e \in Nat
    BY <2>3, <1>4
  <2> HIDE DEF e
  <2>5. Extent(start, stop, step) = e
    BY <1>2, <1>6, <2>4
  <2>6. ASSUME NEW k \in Nat
        PROVE  k < e <=> IF step > 0 THEN start + k * step < stop ELSE start + k * step > stop
    <3>1. k < e <=> k * p < Abs(d)
      BY <1>4, <2>3
    <3>2. d = stop - start
      OBVIOUS
    <3> HIDE DEF d
    <3> QED BY <3>1, <3>2, <1>8, <1>9, <1>1
  <2> QED BY <2>4, <2>5, <2>6
<1>10. CASE IF step > 0 THEN d < 0 ELSE d > 0
  <2>1. t = -q
    BY <1>10, <1>3, <1>1
  <2>2. Abs(d) >= p
    BY <1>10, <1>1 DEF WholeGap
  <2>3. q >= 1
    BY <2>2, <1>4, <1>1
  <2>4. step * t = (IF step > 0 THEN -(p * q) ELSE p * q)
    BY <1>7, <2>1, <1>4
  <2>5. e <= 0
    BY <2>1, <2>3, <1>4
  <2> HIDE DEF e
  <2>6. Extent(start, stop, step) = 0
    BY <1>2, <1>5, <1>6, <2>5
  <2>7. ASSUME NEW k \in Nat
        PROVE  ~(IF step > 0 THEN start + k * step < stop ELSE start + k * step > stop)
    <3>1. d = stop - start
      OBVIOUS
    <3> HIDE DEF d
    <3> QED BY <3>1, <1>8, <1>10, <1>1
  <2> QED BY <2>6, <2>7
<1> QED BY <1>1, <1>9, <1>10

ExtentOf(n, item) == Extent(StartOf(n, item), StopOf(n, item), StepOf(item))

\* Bounds the code does not read as Python does are out: none lies before the
\* axis where a walk goes back.
LEMMA BoundsKept ==
    ASSUME NEW n \in Nat, NEW item, IsSliceItem(item), AsPython(n, item), StepOf(item) < 0
    PROVE  /\ item.start # {} => Given(item.start, 0) >= -n
           /\ item.stop # {} => Given(item.stop, 0) >= -n
<1>1. \A b \in item.start \union item.stop : b >= -n
  BY DEF AsPython, IsSliceItem
<1>2. /\ item.start # {} => Given(item.start, 0) \in item.start
      /\ item.stop # {} => Given(item.stop, 0) \in item.stop
  BY GivenIs DEF IsSliceItem
<1> QED BY <1>1, <1>2

\* Both modules enter an axis at the same position.
LEMMA SameStart ==
    ASSUME NEW n \in Nat, NEW item, IsSliceItem(item), AsPython(n, item)
    PROVE  /\ Promised!SliceStep(item) = StepOf(item)
           /\ Promised!SliceFirst(n, item) = StartOf(n, item)
<1> DEFINE s == Given(item.start, 0)
<1>1. Promised!SliceStep(item) = StepOf(item)
  BY GivenIs DEF IsSliceItem, Promised!SliceStep, StepOf
<1>2. item.start # {} => Promised!Given(item.start) = s
  BY GivenIs DEF IsSliceItem
<1>3. StepOf(item) \in Int /\ s \in Int /\
      StartOf(n, item) =
        IF item.start = {} THEN IF StepOf(item) < 0 THEN n - 1 ELSE 0
        ELSE IF s < 0 THEN IF s + n >= 0 THEN s + n ELSE 0
        ELSE IF s >= n THEN IF StepOf(item) < 0 THEN n - 1 ELSE n
        ELSE s
  BY SliceBounds
<1>0. StepOf(item) < 0 /\ item.start # {} => s >= -n
  BY BoundsKept
<1> HIDE DEF s
<1>4. item.start # {} =>
        Promised!SliceFirst(n, item) =
          IF s < 0 THEN Max({s + n, IF StepOf(item) < 0 THEN -1 ELSE 0})
          ELSE Min({s, IF StepOf(item) < 0 THEN n - 1 ELSE n})
  BY <1>1, <1>2, SameOperators DEF Promised!SliceFirst, Promised!Bound
<1>5. item.start = {} =>
        Promised!SliceFirst(n, item) = IF StepOf(item) < 0 THEN n - 1 ELSE 0
  BY <1>1 DEF Promised!SliceFirst
<1>6. /\ Max({s + n, 0}) = IF s + n >= 0 THEN s + n ELSE 0
      /\ Max({s + n, -1}) = IF s + n >= -1 THEN s + n ELSE -1
  <2>1. s + n \in Int /\ 0 \in Int /\ -1 \in Int
    BY <1>3
  <2>2. Max({s + n, 0}) = IF s + n >= 0 THEN s + n ELSE 0
    BY <2>1, PairBounds
  <2> DEFINE low == -1
  <2>3. low \in Int
    BY <2>1
  <2> HIDE DEF low
  <2>4. Max({s + n, low}) = IF s + n >= low THEN s + n ELSE low
    BY <2>1, <2>3, PairBounds
  <2> QED BY <2>2, <2>4 DEF low
<1>7. Min({s, n}) = (IF s <= n THEN s ELSE n) /\ Min({s, n - 1}) = (IF s <= n - 1 THEN s ELSE n - 1)
  <2>1. n \in Int /\ n - 1 \in Int
    OBVIOUS
  <2>2. Min({s, n}) = (IF s <= n THEN s ELSE n)
    BY <1>3, <2>1, PairBounds
  <2> DEFINE last == n - 1
  <2>3. last \in Int
    OBVIOUS
  <2> HIDE DEF last
  <2>4. Min({s, last}) = (IF s <= last THEN s ELSE last)
    BY <1>3, <2>3, PairBounds
  <2> QED BY <2>2, <2>4 DEF last
<1>8. CASE item.start = {}
  BY <1>1, <1>3, <1>5, <1>8
<1>9. CASE item.start # {} /\ s < 0
  <2>1. CASE StepOf(item) < 0
    <3>1. Promised!SliceFirst(n, item) = Max({s + n, -1})
      BY <1>4, <1>9, <2>1
    <3>2. s + n >= 0
      BY <1>0, <1>3, <1>9, <2>1
    <3> QED BY <1>1, <1>3, <1>6, <1>9, <3>1, <3>2
  <2>2. CASE ~(StepOf(item) < 0)
    <3>1. Promised!SliceFirst(n, item) = Max({s + n, 0})
      BY <1>4, <1>9, <2>2
    <3> QED BY <1>1, <1>3, <1>6, <1>9, <3>1
  <2> QED BY <2>1, <2>2
<1>10. CASE item.start # {} /\ ~(s < 0) /\ StepOf(item) < 0
  <2>1. Promised!SliceFirst(n, item) = Min({s, n - 1})
    BY <1>4, <1>10
  <2> QED BY <1>1, <1>3, <2>1, <1>7, <1>10
<1>11. CASE item.start # {} /\ ~(s < 0) /\ ~(StepOf(item) < 0)
  <2>1. Promised!SliceFirst(n, item) = Min({s, n})
    BY <1>4, <1>11
  <2> QED BY <1>1, <1>3, <2>1, <1>7, <1>11
<1> QED BY <1>8, <1>9, <1>10, <1>11

\* And agree on which positions lie before the end.
LEMMA SameEnd ==
    ASSUME NEW n \in Nat, NEW item, IsSliceItem(item), AsPython(n, item), NEW p \in Int,
           StepOf(item) < 0 => p <= n - 1
    PROVE  Promised!BeforeEnd(n, item, p)
             <=> IF StepOf(item) > 0 THEN p < StopOf(n, item) ELSE p > StopOf(n, item)
<1> DEFINE e == Given(item.stop, 0)
<1>1. Promised!SliceStep(item) = StepOf(item) /\ StepOf(item) \in Int
  BY SameStart, SliceBounds
<1>2. item.stop # {} => Promised!Given(item.stop) = e
  BY GivenIs DEF IsSliceItem
<1>3. e \in Int /\
      StopOf(n, item) =
        IF item.stop = {} THEN IF StepOf(item) < 0 THEN -1 ELSE n
        ELSE IF e < 0 THEN IF e + n >= 0 THEN e + n ELSE 0
        ELSE IF e <= n THEN e ELSE n
  BY SliceBounds
<1>0. StepOf(item) < 0 /\ item.stop # {} => e >= -n
  BY BoundsKept
<1> HIDE DEF e
<1>4. item.stop # {} =>
        Promised!SliceEnd(n, item) =
          IF e < 0 THEN Max({e + n, IF StepOf(item) < 0 THEN -1 ELSE 0})
          ELSE Min({e, IF StepOf(item) < 0 THEN n - 1 ELSE n})
  BY <1>1, <1>2, SameOperators DEF Promised!SliceEnd, Promised!Bound
<1>5. item.stop = {} =>
        Promised!SliceEnd(n, item) = IF StepOf(item) < 0 THEN -1 ELSE n
  BY <1>1 DEF Promised!SliceEnd
<1>6. /\ Max({e + n, 0}) = IF e + n >= 0 THEN e + n ELSE 0
      /\ Max({e + n, -1}) = IF e + n >= -1 THEN e + n ELSE -1
  <2>1. e + n \in Int /\ 0 \in Int /\ -1 \in Int
    BY <1>3
  <2>2. Max({e + n, 0}) = IF e + n >= 0 THEN e + n ELSE 0
    BY <2>1, PairBounds
  <2> DEFINE low == -1
  <2>3. low \in Int
    BY <2>1
  <2> HIDE DEF low
  <2>4. Max({e + n, low}) = IF e + n >= low THEN e + n ELSE low
    BY <2>1, <2>3, PairBounds
  <2> QED BY <2>2, <2>4 DEF low
<1>7. Min({e, n}) = (IF e <= n THEN e ELSE n) /\ Min({e, n - 1}) = (IF e <= n - 1 THEN e ELSE n - 1)
  <2>1. n \in Int
    OBVIOUS
  <2>2. Min({e, n}) = (IF e <= n THEN e ELSE n)
    BY <1>3, <2>1, PairBounds
  <2> DEFINE last == n - 1
  <2>3. last \in Int
    OBVIOUS
  <2> HIDE DEF last
  <2>4. Min({e, last}) = (IF e <= last THEN e ELSE last)
    BY <1>3, <2>3, PairBounds
  <2> QED BY <2>2, <2>4 DEF last
<1>8. Promised!BeforeEnd(n, item, p)
        <=> IF StepOf(item) > 0 THEN p < Promised!SliceEnd(n, item) ELSE p > Promised!SliceEnd(n, item)
  BY <1>1 DEF Promised!BeforeEnd
<1>9. CASE item.stop = {}
  BY <1>3, <1>5, <1>8, <1>9
<1>10. CASE item.stop # {} /\ e < 0
  <2>1. CASE StepOf(item) < 0
    <3>1. Promised!SliceEnd(n, item) = Max({e + n, -1})
      BY <1>4, <1>10, <2>1
    <3>2. e + n >= 0
      BY <1>0, <1>3, <1>10, <2>1
    <3> QED BY <1>3, <1>6, <1>8, <1>10, <3>1, <3>2
  <2>2. CASE ~(StepOf(item) < 0)
    <3>1. Promised!SliceEnd(n, item) = Max({e + n, 0})
      BY <1>4, <1>10, <2>2
    <3> QED BY <1>3, <1>6, <1>8, <1>10, <3>1
  <2> QED BY <2>1, <2>2
<1>11. CASE item.stop # {} /\ ~(e < 0) /\ StepOf(item) < 0
  <2>1. Promised!SliceEnd(n, item) = Min({e, n - 1})
    BY <1>4, <1>11
  <2> QED BY <1>1, <1>3, <2>1, <1>7, <1>8, <1>11
<1>12. CASE item.stop # {} /\ ~(e < 0) /\ ~(StepOf(item) < 0)
  <2>1. Promised!SliceEnd(n, item) = Min({e, n})
    BY <1>4, <1>12
  <2> QED BY <1>1, <1>3, <2>1, <1>7, <1>8, <1>12
<1> QED BY <1>9, <1>10, <1>11, <1>12

\* A slice that is read as Python does shows the positions it should, all on the
\* axis.
LEMMA SliceShows ==
    ASSUME NEW n \in Nat, NEW item, IsSliceItem(item), AsPython(n, item), StepOf(item) # 0
    PROVE  /\ ExtentOf(n, item) \in 0..n
           /\ Promised!SliceLength(n, item) = ExtentOf(n, item)
           /\ \A k \in 0..(ExtentOf(n, item) - 1) :
                 /\ Promised!PositionOf(n, item, k) = StartOf(n, item) + k * StepOf(item)
                 /\ Promised!PositionOf(n, item, k) \in 0..(n - 1)
<1> DEFINE first == StartOf(n, item)
           end == StopOf(n, item)
           step == StepOf(item)
           E == ExtentOf(n, item)
           Pos(k) == first + k * step
           Before(p) == IF step > 0 THEN p < end ELSE p > end
<1>1. first \in Int /\ end \in Int /\ step \in Int /\ step # 0
  BY SliceBounds
<1>2. /\ end >= -1 /\ end <= n /\ (step > 0 => first >= 0 /\ end >= 0)
      /\ (step < 0 /\ n # 0 => first <= n - 1) /\ (step < 0 => first <= n)
  BY SliceBounds
<1>3. WholeGap(first, end, step) /\ (n = 0 /\ step < 0 => first <= end)
  <2>1. WholeGap(first, end, step)
    BY DEF AsPython, WholeGap, IsSliceItem
  <2>2. ASSUME n = 0, step < 0 PROVE first <= end
    <3> DEFINE s == Given(item.start, 0)
               e == Given(item.stop, 0)
    <3>1. (item.start # {} => s >= 0) /\ (item.stop # {} => e >= 0)
      BY <2>2, BoundsKept
    <3>2. /\ s \in Int /\ e \in Int
          /\ first = IF item.start = {} THEN -1 ELSE IF s < 0 THEN IF s >= 0 THEN s ELSE 0
                      ELSE IF s >= 0 THEN -1 ELSE s
          /\ end = IF item.stop = {} THEN -1 ELSE IF e < 0 THEN IF e >= 0 THEN e ELSE 0
                    ELSE IF e <= 0 THEN e ELSE 0
      BY <2>2, SliceBounds
    <3> HIDE DEF s, e, first, end, step
    <3> QED BY <3>1, <3>2
  <2> QED BY <2>1, <2>2
<1>4. \A k : Promised!PositionOf(n, item, k) = Pos(k)
  BY SameStart DEF Promised!PositionOf, IsSliceItem
<1>5. \A k \in Nat : k * step \in Int /\ (step < 0 => k * step <= 0) /\ (step > 0 => k * step >= 0)
                     /\ Pos(k) \in Int
  BY <1>1
<1>6. E \in Nat /\ \A k \in Nat : k < E <=> Before(Pos(k))
  <2>1. /\ Extent(first, end, step) \in Nat
        /\ \A k \in Nat : k < Extent(first, end, step)
               <=> IF step > 0 THEN first + k * step < end ELSE first + k * step > end
    <3> HIDE DEF first, end, step
    <3> QED BY <1>1, <1>3, ExtentCounts
  <2> QED BY <2>1 DEF ExtentOf
<1>7. \A k \in Nat : step < 0 /\ n # 0 => Pos(k) <= n - 1
  <2> HIDE DEF first, end, step, E
  <2> QED BY <1>1, <1>2, <1>5
<1>8. n = 0 /\ step < 0 => E = 0
  <2> HIDE DEF first, end, step, E
  <2>1. n = 0 /\ step < 0 => ~(0 < E)
    BY <1>1, <1>3, <1>6
  <2> QED BY <2>1, <1>6
<1>9. \A k \in Nat : Promised!BeforeEnd(n, item, Pos(k)) <=> k < E \/ (n = 0 /\ step < 0 /\ Promised!BeforeEnd(n, item, Pos(k)))
  <2> TAKE k \in Nat
  <2>1. CASE n = 0 /\ step < 0
    BY <2>1, <1>8
  <2>2. CASE ~(n = 0 /\ step < 0)
    <3>1. step < 0 => Pos(k) <= n - 1
      BY <2>2, <1>7
    <3>2. Pos(k) \in Int
      BY <1>5
    <3>3. Promised!BeforeEnd(n, item, Pos(k)) <=> Before(Pos(k))
      BY <3>1, <3>2, SameEnd
    <3> QED BY <2>2, <3>3, <1>6
  <2> QED BY <2>1, <2>2
<1>10. ASSUME NEW k \in 0..(E - 1) PROVE Pos(k) \in 0..(n - 1)
  <2>1. k \in Nat /\ k < E /\ Before(Pos(k)) /\ Pos(k) \in Int
    BY <1>5, <1>6
  <2>2. ~(n = 0 /\ step < 0)
    BY <2>1, <1>8, <1>6
  <2> HIDE DEF first, end, step, E
  <2>3. CASE step > 0
    BY <2>1, <2>3, <1>1, <1>2, <1>5
  <2>4. CASE step < 0
    BY <2>1, <2>2, <2>4, <1>1, <1>2, <1>7
  <2> QED BY <2>3, <2>4, <1>1
<1>11. E <= n
  <2>1. SUFFICES ASSUME E > n PROVE FALSE
    BY <1>6
  <2>2. 0 \in 0..(E - 1) /\ n \in 0..(E - 1)
    BY <2>1, <1>6
  <2>3. Pos(0) \in 0..(n - 1) /\ Pos(n) \in 0..(n - 1)
    BY <2>2, <1>10
  <2>4. Pos(0) = first
    BY <1>1
  <2>5. (step > 0 => n * step >= n) /\ (step < 0 => n * step <= -n) /\ n * step \in Int
    <3> HIDE DEF step
    <3>1. ASSUME step > 0 PROVE n * step >= n
      <4>1. PICK z \in Nat : step = 1 + z
        <5>1. step - 1 \in Nat /\ step = 1 + (step - 1)
          BY <1>1, <3>1
        <5> QED BY <5>1
      <4>2. n * step = n + n * z /\ n * z \in Nat
        BY <4>1
      <4> QED BY <4>2
    <3>2. ASSUME step < 0 PROVE n * step <= -n
      <4>1. PICK z \in Nat : step = -(1 + z)
        <5>1. -step - 1 \in Nat /\ step = -(1 + (-step - 1))
          BY <1>1, <3>2
        <5> QED BY <5>1
      <4>2. n * step = -(n + n * z) /\ n * z \in Nat
        BY <4>1
      <4> QED BY <4>2
    <3> QED BY <3>1, <3>2, <1>1
  <2> HIDE DEF first, step, E
  <2> QED BY <2>3, <2>4, <2>5, <1>1
<1>12. Promised!SliceLength(n, item) = E
  <2> DEFINE Counts(m) == \A k \in 0..(n - 1) : k < m <=> Promised!BeforeEnd(n, item, Promised!PositionOf(n, item, k))
  <2>1. Counts(E)
    <3> TAKE k \in 0..(n - 1)
    <3>1. k \in Nat /\ n # 0
      OBVIOUS
    <3> QED BY <3>1, <1>4, <1>9
  <2>2. E \in 0..n
    BY <1>6, <1>11
  <2>3. ASSUME NEW m \in 0..n, Counts(m) PROVE m = E
    <3> HIDE DEF E
    <3>1. CASE m < E
      <4>1. m \in 0..(n - 1) /\ m < E /\ ~(m < m)
        BY <3>1, <2>2
      <4> QED BY <4>1, <2>1, <2>3
    <3>2. CASE E < m
      <4>1. E \in 0..(n - 1) /\ E < m /\ ~(E < E)
        BY <3>2, <2>2
      <4> QED BY <4>1, <2>1, <2>3
    <3> QED BY <3>1, <3>2, <2>2
  <2>4. Promised!SliceLength(n, item) = CHOOSE m \in 0..n : Counts(m)
    BY DEF Promised!SliceLength
  <2> HIDE DEF Counts, E
  <2> QED BY <2>1, <2>2, <2>3, <2>4
<1> QED BY <1>4, <1>6, <1>10, <1>11, <1>12

-----------------------------------------------------------------------------
(* The items of a direct view, whose address is a sum over the axes.        *)

\* A slice whose axes follow no pointer.
IsDirectSlice(s) == IsSlice(s) /\ IsDirect(s)

\* The fields of a direct slice.
LEMMA DirectSliceHas ==
    ASSUME NEW s, IsDirectSlice(s)
    PROVE  /\ Rank(s) \in Nat /\ s.data \in Int /\ s.owner \in Nat /\ s.shape \in Seq(Nat)
           /\ DOMAIN s.shape = 1..Rank(s) /\ DOMAIN s.strides = 1..Rank(s)
           /\ DOMAIN s.suboffsets = 1..Rank(s)
           /\ Len(s.shape) = Rank(s) /\ Len(s.strides) = Rank(s)
           /\ \A k \in 1..Rank(s) : /\ s.shape[k] \in Nat /\ s.strides[k] \in Int
                                    /\ s.suboffsets[k] \in Int /\ s.suboffsets[k] < 0
                                    /\ ~(s.suboffsets[k] >= 0)
           /\ s = [data |-> s.data, shape |-> s.shape, strides |-> s.strides,
                   suboffsets |-> s.suboffsets, owner |-> s.owner]
<1>1. /\ s.data \in Int /\ s.owner \in Nat /\ s.shape \in Seq(Nat) /\ s.strides \in Seq(Int)
      /\ s.suboffsets \in Seq(Int)
      /\ s = [data |-> s.data, shape |-> s.shape, strides |-> s.strides,
              suboffsets |-> s.suboffsets, owner |-> s.owner]
  BY DEF IsDirectSlice, IsSlice
<1>2. Len(s.shape) = Rank(s) /\ Len(s.strides) = Rank(s) /\ Len(s.suboffsets) = Rank(s)
  BY DEF IsDirectSlice, IsSlice, Rank
<1>3. \A k \in 1..Rank(s) : s.suboffsets[k] < 0
  BY DEF IsDirectSlice, IsDirect
<1>4. /\ Rank(s) \in Nat /\ DOMAIN s.shape = 1..Rank(s) /\ DOMAIN s.strides = 1..Rank(s)
      /\ DOMAIN s.suboffsets = 1..Rank(s)
  BY <1>1, <1>2
<1>5. \A k \in 1..Rank(s) : s.shape[k] \in Nat /\ s.strides[k] \in Int /\ s.suboffsets[k] \in Int
  BY <1>1, <1>4
<1> QED BY <1>1, <1>2, <1>3, <1>4, <1>5

\* What the axes add to the address of an item.
Terms(s, i) == [k \in 1..Rank(s) |-> i[k] * s.strides[k]]

\* The address of an item, by its terms.
LEMMA ItemAtIs ==
    ASSUME NEW s, NEW i
    PROVE  ItemAt(s, i) = s.data + SumTo(Terms(s, i), Rank(s))
  BY DEF ItemAt, Terms

\* pybuffer_index finds the item at that address.
LEMMA EnteredIs ==
    ASSUME NEW p, NEW s, IsDirectSlice(s), NEW i, \A k \in 1..Rank(s) : i[k] \in Int
    PROVE  Entered(p, s, i) = ItemAt(s, i) /\ ItemAt(s, i) \in Int
<1> DEFINE r == Rank(s)
           Solves(f) == f = [k \in 0..r |-> IF k = 0 THEN s.data
                               ELSE Follow(p, f[k - 1] + i[k] * s.strides[k], s.suboffsets[k])]
           at == CHOOSE f : Solves(f)
           W == [k \in 0..r |-> s.data + SumTo(Terms(s, i), k)]
<1>1. /\ r \in Nat /\ s.data \in Int
      /\ \A k \in 1..r : s.strides[k] \in Int /\ i[k] \in Int /\ s.suboffsets[k] \in Int
                         /\ ~(s.suboffsets[k] >= 0)
  BY DirectSliceHas
<1>2. Entered(p, s, i) = at[r]
  BY DEF Entered
<1>3. \A k \in 1..r : Terms(s, i)[k] = i[k] * s.strides[k] /\ Terms(s, i)[k] \in Int
  BY <1>1 DEF Terms
<1>4. \A k \in 0..r : SumTo(Terms(s, i), k) \in Int
  <2> HIDE DEF r
  <2> QED BY <1>1, <1>3, SumType
<1> HIDE DEF r
<1>5. Solves(W)
  <2>1. ASSUME NEW k \in 0..r
        PROVE  W[k] = IF k = 0 THEN s.data
                      ELSE Follow(p, W[k - 1] + i[k] * s.strides[k], s.suboffsets[k])
    <3>1. CASE k = 0
      <4>1. 0 \in 0..r
        BY <1>1
      <4> QED BY <3>1, <4>1, <1>1, SumIs
    <3>2. CASE k # 0
      <4>1. k - 1 \in 0..r /\ k \in 1..r /\ k - 1 \in Nat /\ k - 1 + 1 = k
        BY <3>2, <1>1
      <4>2. SumTo(Terms(s, i), k) = SumTo(Terms(s, i), k - 1) + Terms(s, i)[k]
        BY <4>1, SumIs
      <4>3. W[k] = W[k - 1] + i[k] * s.strides[k]
        <5>1. W[k] = s.data + SumTo(Terms(s, i), k) /\ W[k - 1] = s.data + SumTo(Terms(s, i), k - 1)
          BY <4>1
        <5>2. SumTo(Terms(s, i), k - 1) \in Int /\ Terms(s, i)[k] \in Int /\ Terms(s, i)[k] = i[k] * s.strides[k]
          BY <4>1, <1>3, <1>4
        <5> HIDE DEF W
        <5> QED BY <5>1, <5>2, <4>2, <1>1
      <4>4. Follow(p, W[k - 1] + i[k] * s.strides[k], s.suboffsets[k]) = W[k - 1] + i[k] * s.strides[k]
        BY <4>1, <1>1 DEF Follow
      <4> HIDE DEF W
      <4> QED BY <3>2, <4>3, <4>4
    <3> QED BY <3>1, <3>2
  <2>2. W = [k \in 0..r |-> W[k]]
    OBVIOUS
  <2> HIDE DEF W
  <2> QED BY <2>1, <2>2
<1>6. Solves(at)
  <2> HIDE DEF Solves, W
  <2> QED BY <1>5
<1> HIDE DEF at
<1> DEFINE T == {k \in Nat : k <= r => at[k] = W[k]}
<1>7. 0 \in T
  <2>1. 0 \in 0..r
    BY <1>1
  <2>2. at[0] = s.data
    BY <1>6, <2>1
  <2>3. W[0] = s.data
    BY <2>1, <1>1, SumIs
  <2> QED BY <2>2, <2>3
<1>8. ASSUME NEW k \in Nat, k \in T PROVE k + 1 \in T
  <2>1. SUFFICES ASSUME k + 1 <= r PROVE at[k + 1] = W[k + 1]
    OBVIOUS
  <2>2. k + 1 \in 0..r /\ k + 1 # 0 /\ k + 1 - 1 = k /\ k <= r
    BY <2>1, <1>1
  <2>3. at[k + 1] = Follow(p, at[k] + i[k + 1] * s.strides[k + 1], s.suboffsets[k + 1])
    BY <2>2, <1>6
  <2>4. W[k + 1] = Follow(p, W[k] + i[k + 1] * s.strides[k + 1], s.suboffsets[k + 1])
    <3> HIDE DEF W
    <3> QED BY <2>2, <1>5
  <2>5. at[k] = W[k]
    BY <1>8, <2>2
  <2> HIDE DEF W
  <2> QED BY <2>3, <2>4, <2>5
<1>9. \A k \in Nat : k \in T
  <2> HIDE DEF T
  <2> QED BY <1>7, <1>8, Induct
<1>10. r \in 0..r /\ r \in Nat
  BY <1>1
<1>11. at[r] = W[r]
  <2> HIDE DEF W
  <2>1. r <= r
    BY <1>1
  <2> QED BY <1>9, <1>10, <2>1
<1>12. W[r] = s.data + SumTo(Terms(s, i), r) /\ SumTo(Terms(s, i), r) \in Int
  BY <1>10, <1>4
<1> HIDE DEF W
<1> QED BY <1>2, <1>11, <1>12, <1>1, ItemAtIs DEF r

-----------------------------------------------------------------------------
(* Which axes an index keeps.                                               *)

\* How many axes are kept, axis by axis.
LEMMA KeptIs ==
    ASSUME NEW r \in Nat, NEW items, DOMAIN items = 1..r
    PROVE  /\ Promised!Kept(items, 0) = 0
           /\ \A k \in Nat : k < r =>
                 Promised!Kept(items, k + 1) =
                    Promised!Kept(items, k) + (IF items[k + 1].kind = "slice" THEN 1 ELSE 0)
<1> DEFINE q == [l \in DOMAIN items |-> IF items[l].kind = "slice" THEN 1 ELSE 0]
<1>1. \A k : Promised!Kept(items, k) = SumTo(q, k)
  BY SameOperators DEF Promised!Kept
<1>2. \A k \in Nat : k < r => q[k + 1] = IF items[k + 1].kind = "slice" THEN 1 ELSE 0
  OBVIOUS
<1> HIDE DEF q
<1> QED BY <1>1, <1>2, SumIs

\* The number of kept axes grows with the axes.
LEMMA KeptBounds ==
    ASSUME NEW r \in Nat, NEW items, DOMAIN items = 1..r
    PROVE  /\ \A k \in 0..r : Promised!Kept(items, k) \in 0..k
           /\ \A k, m \in 0..r : k <= m => Promised!Kept(items, k) <= Promised!Kept(items, m)
           /\ \A k \in 1..r : items[k].kind = "slice" => Promised!Kept(items, k) >= 1
           /\ \A k, m \in 1..r : k < m /\ items[m].kind = "slice"
                 => Promised!Kept(items, k) < Promised!Kept(items, m)
<1> DEFINE K(k) == Promised!Kept(items, k)
           T == {k \in Nat : k <= r => K(k) \in 0..k}
<1>0. K(0) = 0 /\ \A k \in Nat : k < r => K(k + 1) = K(k) + (IF items[k + 1].kind = "slice" THEN 1 ELSE 0)
  BY KeptIs
<1> HIDE DEF K
<1>1. 0 \in T
  BY <1>0
<1>2. ASSUME NEW k \in Nat, k \in T PROVE k + 1 \in T
  BY <1>0, <1>2
<1>3. \A k \in Nat : k \in T
  <2> HIDE DEF T
  <2> QED BY <1>1, <1>2, Induct
<1>4. \A k \in 0..r : K(k) \in 0..k
  BY <1>3
<1>5. ASSUME NEW k \in 0..r PROVE \A m \in 0..r : k <= m => K(k) <= K(m)
  <2> DEFINE U == {m \in Nat : k <= m /\ m <= r => K(k) <= K(m)}
  <2>1. 0 \in U
    BY <1>4
  <2>2. ASSUME NEW m \in Nat, m \in U PROVE m + 1 \in U
    <3>1. SUFFICES ASSUME k <= m + 1, m + 1 <= r PROVE K(k) <= K(m + 1)
      OBVIOUS
    <3>2. CASE k = m + 1
      BY <3>2, <1>4
    <3>3. CASE k <= m
      <4>1. K(k) <= K(m) /\ K(k) \in Int /\ K(m) \in Int
        BY <2>2, <3>1, <3>3, <1>4
      <4>2. K(m + 1) = K(m) + (IF items[m + 1].kind = "slice" THEN 1 ELSE 0)
        BY <3>1, <1>0
      <4> QED BY <4>1, <4>2
    <3> QED BY <3>1, <3>2, <3>3
  <2>3. \A m \in Nat : m \in U
    <3> HIDE DEF U
    <3> QED BY <2>1, <2>2, Induct
  <2> QED BY <2>3
<1>6. ASSUME NEW k \in 1..r, items[k].kind = "slice" PROVE K(k) = K(k - 1) + 1 /\ K(k - 1) \in Nat
  <2>1. k - 1 \in Nat /\ k - 1 < r /\ k - 1 + 1 = k /\ k - 1 \in 0..r
    OBVIOUS
  <2>2. K(k) = K(k - 1) + (IF items[k].kind = "slice" THEN 1 ELSE 0)
    BY <1>0, <2>1
  <2> QED BY <2>1, <2>2, <1>4, <1>6
<1>7. ASSUME NEW k \in 1..r, NEW m \in 1..r, k < m, items[m].kind = "slice" PROVE K(k) < K(m)
  <2>1. k \in 0..r /\ m - 1 \in 0..r /\ k <= m - 1
    BY <1>7
  <2>2. K(k) <= K(m - 1) /\ K(k) \in Int
    BY <2>1, <1>5, <1>4
  <2> QED BY <2>2, <1>6, <1>7
<1> QED BY <1>4, <1>5, <1>6, <1>7 DEF K

\* Each axis of the result comes from one axis that is kept, and the other way.
LEMMA AxisOfIs ==
    ASSUME NEW r \in Nat, NEW items, DOMAIN items = 1..r
    PROVE  /\ \A k \in 1..r : items[k].kind = "slice" => Promised!AxisOf(items, Promised!Kept(items, k)) = k
           /\ \A m \in 0..r : \A j \in 1..Promised!Kept(items, m) :
                 /\ Promised!AxisOf(items, j) \in 1..m
                 /\ items[Promised!AxisOf(items, j)].kind = "slice"
                 /\ Promised!Kept(items, Promised!AxisOf(items, j)) = j
<1> DEFINE K(k) == Promised!Kept(items, k)
           Is(k, j) == k \in 1..r /\ items[k].kind = "slice" /\ K(k) = j
<1>1. \A j : Promised!AxisOf(items, j) = CHOOSE k \in 1..r : items[k].kind = "slice" /\ K(k) = j
  BY DEF Promised!AxisOf
<1>2. \A k, m \in 1..r : k < m /\ items[m].kind = "slice" => K(k) < K(m)
  BY KeptBounds
<1>3. \A k \in 0..r : K(k) \in 0..k
  BY KeptBounds
<1>0. K(0) = 0 /\ \A k \in Nat : k < r => K(k + 1) = K(k) + (IF items[k + 1].kind = "slice" THEN 1 ELSE 0)
  BY KeptIs
<1> HIDE DEF K
<1>4. ASSUME NEW k, NEW m, NEW j, Is(k, j), Is(m, j) PROVE k = m
  <2>1. K(k) \in Int /\ K(k) = K(m) /\ k \in 1..r /\ m \in 1..r
    BY <1>3, <1>4
  <2>2. ~(k < m) /\ ~(m < k)
    BY <1>2, <1>4, <2>1
  <2> QED BY <2>1, <2>2
<1>5. ASSUME NEW k, NEW j, Is(k, j) PROVE Promised!AxisOf(items, j) = k
  <2> DEFINE x == Promised!AxisOf(items, j)
  <2>1. Is(x, j)
    BY <1>1, <1>5
  <2> HIDE DEF x, Is
  <2>2. x = k
    BY <1>4, <1>5, <2>1
  <2> QED BY <2>2 DEF x
<1> DEFINE T == {m \in Nat : m <= r => \A j \in 1..K(m) : \E k \in 1..m : Is(k, j)}
<1>6. 0 \in T
  BY <1>0
<1>7. ASSUME NEW m \in Nat, m \in T PROVE m + 1 \in T
  <2>1. SUFFICES ASSUME m + 1 <= r, NEW j \in 1..K(m + 1) PROVE \E k \in 1..(m + 1) : Is(k, j)
    OBVIOUS
  <2>2. K(m) \in Int /\ K(m + 1) = K(m) + (IF items[m + 1].kind = "slice" THEN 1 ELSE 0)
    BY <1>0, <1>3, <2>1
  <2>3. CASE j \in 1..K(m)
    <3>1. PICK k \in 1..m : Is(k, j)
      BY <1>7, <2>1, <2>3
    <3>2. k \in 1..(m + 1)
      OBVIOUS
    <3> QED BY <3>1, <3>2
  <2>4. CASE j \notin 1..K(m)
    <3>1. items[m + 1].kind = "slice" /\ j = K(m + 1)
      BY <2>2, <2>4
    <3>2. m + 1 \in 1..r
      BY <2>1
    <3>3. Is(m + 1, j)
      BY <3>1, <3>2
    <3> QED BY <3>3
  <2> QED BY <2>3, <2>4
<1>8. \A m \in Nat : m \in T
  <2> HIDE DEF T
  <2> QED BY <1>6, <1>7, Induct
<1>9. ASSUME NEW m \in 0..r, NEW j \in 1..K(m)
      PROVE  /\ Promised!AxisOf(items, j) \in 1..m
             /\ items[Promised!AxisOf(items, j)].kind = "slice"
             /\ K(Promised!AxisOf(items, j)) = j
  <2>1. PICK k \in 1..m : Is(k, j)
    BY <1>8
  <2> QED BY <2>1, <1>5
<1> QED BY <1>5, <1>9 DEF K

-----------------------------------------------------------------------------
(* memview_slice on a direct view.                                          *)

\* Appending, as a function of the position.
LEMMA AppendIs ==
    ASSUME NEW m \in Nat, NEW q, q = [j \in 1..m |-> q[j]], NEW x
    PROVE  Append(q, x) = [j \in 1..(m + 1) |-> IF j = m + 1 THEN x ELSE q[j]]
<1> DEFINE S == {q[j] : j \in 1..m} \union {x}
<1>1. q \in [1..m -> S] /\ x \in S
  OBVIOUS
<1> HIDE DEF S
<1>2. q \in Seq(S) /\ Len(q) = m
  BY <1>1
<1>3. /\ Append(q, x) \in Seq(S) /\ Len(Append(q, x)) = m + 1
      /\ \A j \in 1..m : Append(q, x)[j] = q[j]
      /\ Append(q, x)[m + 1] = x
  BY <1>1, <1>2, AppendProperties
<1>4. DOMAIN Append(q, x) = 1..(m + 1)
  BY <1>3
<1>5. \A j \in 1..(m + 1) : j = m + 1 \/ j \in 1..m
  OBVIOUS
<1>6. Append(q, x) = [j \in 1..(m + 1) |-> Append(q, x)[j]]
  BY <1>3, <1>4
<1> QED BY <1>3, <1>5, <1>6

IsAxisItem(item) == IsSliceItem(item) \/ (item.kind = "index" /\ item.at \in Int)

\* Where an axis is entered is a number.
LEMMA EntryIs ==
    ASSUME NEW n \in Nat, NEW item, IsAxisItem(item)
    PROVE  EntryOf(n, item) \in Int
<1>1. CASE IsSliceItem(item)
  BY <1>1, SliceBounds DEF EntryOf, IsSliceItem
<1>2. CASE item.kind = "index" /\ item.at \in Int
  BY <1>2 DEF EntryOf
<1> QED BY <1>1, <1>2 DEF IsAxisItem

\* What the entry points of the axes add to the address.
EntryTerms(src, items) == [l \in 1..Rank(src) |-> EntryOf(src.shape[l], items[l]) * src.strides[l]]

\* The slice after k axes.
CutTo(src, items, k) ==
    LET A(j) == Promised!AxisOf(items, j)
        axes == 1..Promised!Kept(items, k)
    IN  [data |-> src.data + SumTo(EntryTerms(src, items), k),
         shape |-> [j \in axes |-> ExtentOf(src.shape[A(j)], items[A(j)])],
         strides |-> [j \in axes |-> src.strides[A(j)] * StepOf(items[A(j)])],
         suboffsets |-> [j \in axes |-> src.suboffsets[A(j)]],
         behind |-> 0]

\* A slice made so far, and what another axis makes of it.
Partial(d, sh, st, so) ==
    [data |-> d, shape |-> sh, strides |-> st, suboffsets |-> so, behind |-> 0]
Sliced(d, sh, st, so, axis, item) ==
    LET entered == d + EntryOf(axis.extent, item) * axis.stride IN
    IF item.kind # "slice" THEN Partial(entered, sh, st, so)
    ELSE Partial(entered, Append(sh, ExtentOf(axis.extent, item)),
                 Append(st, axis.stride * StepOf(item)), Append(so, axis.suboffset))

\* One axis of a direct slice, by memview_slice.
LEMMA SliceAxisIs ==
    ASSUME NEW p, NEW d, NEW sh, NEW st, NEW so, NEW axis, NEW item,
           ~(axis.suboffset >= 0), axis.suboffset < 0
    PROVE  SliceAxis(p, Partial(d, sh, st, so), axis, item) = Sliced(d, sh, st, so, axis, item)
<1> DEFINE dst == [data |-> d, shape |-> sh, strides |-> st, suboffsets |-> so, behind |-> 0]
           off == EntryOf(axis.extent, item) * axis.stride
           kept == KeepAxis(dst, axis, item)
           a == Append(sh, ExtentOf(axis.extent, item))
           b == Append(st, axis.stride * StepOf(item))
           c == Append(so, axis.suboffset)
<1>1. kept = IF item.kind # "slice" THEN dst
             ELSE [data |-> d, shape |-> a, strides |-> b, suboffsets |-> c, behind |-> 0]
  <2>1. kept = IF item.kind # "slice" THEN dst
               ELSE [dst EXCEPT !.shape = a, !.strides = b, !.suboffsets = c]
    BY DEF KeepAxis, ExtentOf
  <2>2. [dst EXCEPT !.shape = a, !.strides = b, !.suboffsets = c]
          = [data |-> d, shape |-> a, strides |-> b, suboffsets |-> c, behind |-> 0]
    <3> DEFINE x == [dst EXCEPT !.shape = a]
               y == [x EXCEPT !.strides = b]
    <3> HIDE DEF a, b, c
    <3>1. x = [data |-> d, shape |-> a, strides |-> st, suboffsets |-> so, behind |-> 0]
      OBVIOUS
    <3>2. [dst EXCEPT !.shape = a, !.strides = b, !.suboffsets = c] = [y EXCEPT !.suboffsets = c]
      OBVIOUS
    <3> HIDE DEF x
    <3>3. y = [data |-> d, shape |-> a, strides |-> b, suboffsets |-> so, behind |-> 0]
      BY <3>1
    <3> HIDE DEF y
    <3> QED BY <3>2, <3>3
  <2> HIDE DEF a, b, c, kept, dst
  <2> QED BY <2>1, <2>2
<1>2. kept.behind = 0 /\ kept.data = d
  <2> HIDE DEF a, b, c, kept
  <2> QED BY <1>1
<1>3. MoveEntry(kept, off) = [kept EXCEPT !.data = d + off]
  <2> HIDE DEF kept, off
  <2> QED BY <1>2 DEF MoveEntry
<1>4. SliceAxis(p, dst, axis, item) = MoveEntry(kept, off)
  BY DEF SliceAxis, CrossPointer
<1>5. dst = Partial(d, sh, st, so)
  BY DEF Partial
<1>6. CASE item.kind # "slice"
  <2>1. kept = dst
    BY <1>1, <1>6
  <2>2. Sliced(d, sh, st, so, axis, item) = Partial(d + off, sh, st, so)
    BY <1>6 DEF Sliced
  <2> HIDE DEF off
  <2>3. [dst EXCEPT !.data = d + off] = Partial(d + off, sh, st, so)
    BY DEF Partial
  <2> HIDE DEF kept, dst
  <2> QED BY <1>3, <1>4, <1>5, <2>1, <2>2, <2>3
<1>7. CASE item.kind = "slice"
  <2> DEFINE more == [data |-> d, shape |-> a, strides |-> b, suboffsets |-> c, behind |-> 0]
  <2>1. kept = more
    <3> HIDE DEF a, b, c, kept
    <3> QED BY <1>1, <1>7
  <2>2. Sliced(d, sh, st, so, axis, item) = Partial(d + off, a, b, c)
    BY <1>7 DEF Sliced
  <2> HIDE DEF off, a, b, c
  <2>3. [more EXCEPT !.data = d + off] = Partial(d + off, a, b, c)
    BY DEF Partial
  <2> HIDE DEF kept, more, dst
  <2> QED BY <1>3, <1>4, <1>5, <2>1, <2>2, <2>3
<1> QED BY <1>6, <1>7

\* And so the slice after k axes comes from the one before.
LEMMA CutStep ==
    ASSUME NEW p, NEW src, IsDirectSlice(src), NEW items, DOMAIN items = 1..Rank(src),
           \A l \in 1..Rank(src) : IsAxisItem(items[l]),
           NEW k \in 1..Rank(src)
    PROVE  CutTo(src, items, k) = SliceAxis(p, CutTo(src, items, k - 1), Axis(src, k), items[k])
<1> DEFINE r == Rank(src)
           K(l) == Promised!Kept(items, l)
           A(j) == Promised!AxisOf(items, j)
           shape(j) == ExtentOf(src.shape[A(j)], items[A(j)])
           stride(j) == src.strides[A(j)] * StepOf(items[A(j)])
           sub(j) == src.suboffsets[A(j)]
           n == src.shape[k]
           item == items[k]
           c == CutTo(src, items, k - 1)
           m == K(k - 1)
           off == EntryOf(n, item) * src.strides[k]
<1>1. /\ r \in Nat /\ src.data \in Int /\ src.shape[k] \in Nat
      /\ src.strides[k] \in Int /\ src.suboffsets[k] < 0 /\ ~(src.suboffsets[k] >= 0)
      /\ \A l \in 1..r : src.shape[l] \in Nat /\ src.strides[l] \in Int
  BY DirectSliceHas
<1>2. k - 1 \in Nat /\ k - 1 < r /\ k - 1 + 1 = k /\ k - 1 \in 0..r /\ k \in 0..r
  BY <1>1
<1>3. K(k) = m + (IF item.kind = "slice" THEN 1 ELSE 0) /\ m \in Nat
  BY <1>1, <1>2, KeptIs, KeptBounds
<1>4. Axis(src, k) = [extent |-> n, stride |-> src.strides[k], suboffset |-> src.suboffsets[k]]
  BY DEF Axis
<1>5. c = [data |-> c.data, shape |-> c.shape, strides |-> c.strides, suboffsets |-> c.suboffsets, behind |-> 0]
      /\ c.data = src.data + SumTo(EntryTerms(src, items), k - 1)
      /\ c.shape = [j \in 1..m |-> shape(j)] /\ c.strides = [j \in 1..m |-> stride(j)]
      /\ c.suboffsets = [j \in 1..m |-> sub(j)]
  BY DEF CutTo
<1>6. CutTo(src, items, k) =
        [data |-> src.data + SumTo(EntryTerms(src, items), k),
         shape |-> [j \in 1..K(k) |-> shape(j)], strides |-> [j \in 1..K(k) |-> stride(j)],
         suboffsets |-> [j \in 1..K(k) |-> sub(j)], behind |-> 0]
  BY DEF CutTo
<1>7. src.data + SumTo(EntryTerms(src, items), k) = c.data + off
  <2>1. \A l \in 1..r : EntryTerms(src, items)[l] = EntryOf(src.shape[l], items[l]) * src.strides[l]
    BY DEF EntryTerms
  <2>2. \A l \in 1..r : EntryTerms(src, items)[l] \in Int
    <3> TAKE l \in 1..r
    <3>1. EntryOf(src.shape[l], items[l]) \in Int
      BY <1>1, EntryIs
    <3> QED BY <3>1, <2>1, <1>1
  <2>3. SumTo(EntryTerms(src, items), k - 1) \in Int
    <3> HIDE DEF r
    <3> QED BY <1>1, <1>2, <2>2, SumType
  <2>4. SumTo(EntryTerms(src, items), k) = SumTo(EntryTerms(src, items), k - 1) + EntryTerms(src, items)[k]
    BY <1>2, SumIs
  <2>5. EntryTerms(src, items)[k] = off /\ off \in Int
    BY <2>1, <2>2
  <2> HIDE DEF off, c
  <2> QED BY <2>3, <2>4, <2>5, <1>5, <1>1
<1>8. SliceAxis(p, c, Axis(src, k), item) =
         IF item.kind # "slice"
         THEN Partial(c.data + off, c.shape, c.strides, c.suboffsets)
         ELSE Partial(c.data + off, Append(c.shape, ExtentOf(n, item)),
                      Append(c.strides, src.strides[k] * StepOf(item)),
                      Append(c.suboffsets, src.suboffsets[k]))
  <2> DEFINE axis == Axis(src, k)
  <2>1. axis.extent = n /\ axis.stride = src.strides[k] /\ axis.suboffset = src.suboffsets[k]
    BY <1>4
  <2>2. ~(axis.suboffset >= 0) /\ axis.suboffset < 0
    BY <2>1, <1>1
  <2>4. c = Partial(c.data, c.shape, c.strides, c.suboffsets)
    BY <1>5 DEF Partial
  <2> HIDE DEF axis, c, n, item
  <2>3. SliceAxis(p, Partial(c.data, c.shape, c.strides, c.suboffsets), axis, item)
          = Sliced(c.data, c.shape, c.strides, c.suboffsets, axis, item)
    BY <2>2, SliceAxisIs
  <2>5. SliceAxis(p, c, axis, item) = Sliced(c.data, c.shape, c.strides, c.suboffsets, axis, item)
    BY <2>3, <2>4
  <2> QED BY <2>1, <2>5 DEF axis, Sliced
<1>9. CASE item.kind # "slice"
  <2>1. K(k) = m
    BY <1>3, <1>9
  <2> HIDE DEF c, off, item, m, K, shape, stride, sub
  <2> QED BY <2>1, <1>5, <1>6, <1>7, <1>8, <1>9 DEF item, c, Partial
<1>10. CASE item.kind = "slice"
  <2>1. K(k) = m + 1
    BY <1>3, <1>10
  <2>2. A(m + 1) = k
    BY <2>1, <1>1, <1>10, AxisOfIs
  <2>3. shape(m + 1) = ExtentOf(n, item) /\ stride(m + 1) = src.strides[k] * StepOf(item)
        /\ sub(m + 1) = src.suboffsets[k]
    BY <2>2
  <2> HIDE DEF shape, stride, sub, m, c, A, n, item, K, off
  <2>4. \A j \in 1..(m + 1) : j = m + 1 \/ j \in 1..m
    BY <1>3
  <2>5. Append(c.shape, ExtentOf(n, item)) = [j \in 1..(m + 1) |-> shape(j)]
    <3>1. c.shape = [j \in 1..m |-> c.shape[j]]
      BY <1>5
    <3>2. Append(c.shape, ExtentOf(n, item))
            = [j \in 1..(m + 1) |-> IF j = m + 1 THEN ExtentOf(n, item) ELSE c.shape[j]]
      BY <3>1, <1>3, AppendIs
    <3> QED BY <3>2, <2>3, <2>4, <1>5
  <2>6. Append(c.strides, src.strides[k] * StepOf(item)) = [j \in 1..(m + 1) |-> stride(j)]
    <3>1. c.strides = [j \in 1..m |-> c.strides[j]]
      BY <1>5
    <3> DEFINE x == src.strides[k] * StepOf(item)
    <3> HIDE DEF x
    <3>2. Append(c.strides, x) = [j \in 1..(m + 1) |-> IF j = m + 1 THEN x ELSE c.strides[j]]
      BY <3>1, <1>3, AppendIs
    <3>3. stride(m + 1) = x
      BY <2>3 DEF x
    <3>4. Append(c.strides, x) = [j \in 1..(m + 1) |-> stride(j)]
      BY <3>2, <3>3, <2>4, <1>5
    <3> QED BY <3>4 DEF x
  <2>7. Append(c.suboffsets, src.suboffsets[k]) = [j \in 1..(m + 1) |-> sub(j)]
    <3>1. c.suboffsets = [j \in 1..m |-> c.suboffsets[j]]
      BY <1>5
    <3>2. Append(c.suboffsets, src.suboffsets[k])
            = [j \in 1..(m + 1) |-> IF j = m + 1 THEN src.suboffsets[k] ELSE c.suboffsets[j]]
      BY <3>1, <1>3, AppendIs
    <3> QED BY <3>2, <2>3, <2>4, <1>5
  <2> QED BY <2>1, <2>5, <2>6, <2>7, <1>6, <1>7, <1>8, <1>10 DEF item, c, Partial
<1> QED BY <1>9, <1>10

\* The slice that items cut from a direct one.
MadeOf(src, items) ==
    LET made == CutTo(src, items, Rank(src)) IN
    [data |-> made.data, shape |-> made.shape, strides |-> made.strides,
     suboffsets |-> made.suboffsets, owner |-> src.owner]

\* memview_slice makes that slice when every axis can be entered.
LEMMA CutIs ==
    ASSUME NEW p, NEW src, IsDirectSlice(src), NEW items, DOMAIN items = 1..Rank(src),
           \A l \in 1..Rank(src) : IsAxisItem(items[l])
    PROVE  MemviewSlice(p, src, items) =
             IF Rank(src) > 0 /\ \A k \in 1..Rank(src) : CanEnter(src.shape[k], items[k])
             THEN {MadeOf(src, items)} ELSE {}
<1> DEFINE r == Rank(src)
           Solves(f) == f = [k \in 0..r |->
              IF k = 0 THEN [data |-> src.data, shape |-> <<>>, strides |-> <<>>,
                             suboffsets |-> <<>>, behind |-> 0]
              ELSE SliceAxis(p, f[k - 1], Axis(src, k), items[k])]
           cut == CHOOSE f : Solves(f)
           W == [k \in 0..r |-> CutTo(src, items, k)]
<1>1. r \in Nat
  BY DirectSliceHas
<1>2. MemviewSlice(p, src, items) =
        IF r > 0 /\ \A k \in 1..r : CanSlice(cut[k - 1], Axis(src, k), items[k])
        THEN {[data |-> cut[r].data, shape |-> cut[r].shape, strides |-> cut[r].strides,
               suboffsets |-> cut[r].suboffsets, owner |-> src.owner]}
        ELSE {}
  BY DEF MemviewSlice
<1>3. \A k \in 1..r : CutTo(src, items, k) = SliceAxis(p, CutTo(src, items, k - 1), Axis(src, k), items[k])
  BY CutStep
<1>4. CutTo(src, items, 0) = [data |-> src.data, shape |-> <<>>, strides |-> <<>>,
                              suboffsets |-> <<>>, behind |-> 0]
  <2>1. Promised!Kept(items, 0) = 0
    BY <1>1, KeptIs
  <2>2. SumTo(EntryTerms(src, items), 0) = 0
    BY SumIs
  <2>3. src.data + 0 = src.data
    BY DirectSliceHas
  <2>4. CutTo(src, items, 0) =
          [data |-> src.data + 0,
           shape |-> [j \in 1..0 |-> ExtentOf(src.shape[Promised!AxisOf(items, j)], items[Promised!AxisOf(items, j)])],
           strides |-> [j \in 1..0 |-> src.strides[Promised!AxisOf(items, j)] * StepOf(items[Promised!AxisOf(items, j)])],
           suboffsets |-> [j \in 1..0 |-> src.suboffsets[Promised!AxisOf(items, j)]],
           behind |-> 0]
    BY <2>1, <2>2 DEF CutTo
  <2>5. \A f : f = [j \in 1..0 |-> f[j]] => f = << >>
    <3> TAKE f
    <3> HAVE f = [j \in 1..0 |-> f[j]]
    <3>1. f \in Seq({}) /\ Len(f) = 0
      OBVIOUS
    <3> QED BY <3>1, EmptySeq
  <2> DEFINE a == [j \in 1..0 |-> ExtentOf(src.shape[Promised!AxisOf(items, j)], items[Promised!AxisOf(items, j)])]
             b == [j \in 1..0 |-> src.strides[Promised!AxisOf(items, j)] * StepOf(items[Promised!AxisOf(items, j)])]
             c == [j \in 1..0 |-> src.suboffsets[Promised!AxisOf(items, j)]]
  <2>6. a = [j \in 1..0 |-> a[j]] /\ b = [j \in 1..0 |-> b[j]] /\ c = [j \in 1..0 |-> c[j]]
    OBVIOUS
  <2> HIDE DEF a, b, c
  <2>7. a = << >> /\ b = << >> /\ c = << >>
    BY <2>5, <2>6
  <2> QED BY <2>3, <2>4, <2>7 DEF a, b, c
<1> HIDE DEF r
<1>5. Solves(W)
  <2>1. ASSUME NEW k \in 0..r
        PROVE  W[k] = IF k = 0 THEN [data |-> src.data, shape |-> <<>>, strides |-> <<>>,
                                     suboffsets |-> <<>>, behind |-> 0]
                      ELSE SliceAxis(p, W[k - 1], Axis(src, k), items[k])
    <3>1. CASE k = 0
      <4>1. 0 \in 0..r
        BY <1>1
      <4> QED BY <3>1, <4>1, <1>4
    <3>2. CASE k # 0
      <4>1. k - 1 \in 0..r /\ k \in 1..r
        BY <3>2, <1>1
      <4>2. W[k] = CutTo(src, items, k) /\ W[k - 1] = CutTo(src, items, k - 1)
        BY <4>1
      <4> HIDE DEF W
      <4> QED BY <3>2, <4>1, <4>2, <1>3
    <3> QED BY <3>1, <3>2
  <2>2. W = [k \in 0..r |-> W[k]]
    OBVIOUS
  <2> HIDE DEF W
  <2> QED BY <2>1, <2>2
<1>6. Solves(cut)
  <2> HIDE DEF Solves, W
  <2> QED BY <1>5
<1> HIDE DEF cut
<1> DEFINE T == {k \in Nat : k <= r => cut[k] = W[k]}
<1>7. 0 \in T
  <2>1. 0 \in 0..r
    BY <1>1
  <2>2. cut[0] = [data |-> src.data, shape |-> <<>>, strides |-> <<>>, suboffsets |-> <<>>, behind |-> 0]
    BY <1>6, <2>1
  <2>3. W[0] = CutTo(src, items, 0)
    BY <2>1
  <2> HIDE DEF W
  <2> QED BY <2>2, <2>3, <1>4
<1>8. ASSUME NEW k \in Nat, k \in T PROVE k + 1 \in T
  <2>1. SUFFICES ASSUME k + 1 <= r PROVE cut[k + 1] = W[k + 1]
    OBVIOUS
  <2>2. k + 1 \in 0..r /\ k + 1 # 0 /\ k + 1 - 1 = k /\ k <= r
    BY <2>1, <1>1
  <2>3. cut[k + 1] = SliceAxis(p, cut[k], Axis(src, k + 1), items[k + 1])
    BY <2>2, <1>6
  <2>4. W[k + 1] = SliceAxis(p, W[k], Axis(src, k + 1), items[k + 1])
    <3> HIDE DEF W
    <3> QED BY <2>2, <1>5
  <2>5. cut[k] = W[k]
    BY <1>8, <2>2
  <2> HIDE DEF W
  <2> QED BY <2>3, <2>4, <2>5
<1>9. \A k \in Nat : k \in T
  <2> HIDE DEF T
  <2> QED BY <1>7, <1>8, Induct
<1>10. cut[r] = CutTo(src, items, r)
  <2>1. r <= r /\ r \in 0..r
    BY <1>1
  <2>2. W[r] = CutTo(src, items, r)
    BY <2>1
  <2> HIDE DEF W
  <2>3. cut[r] = W[r]
    BY <1>9, <1>1, <2>1
  <2> QED BY <2>2, <2>3
<1>11. \A k \in 1..r : CanSlice(cut[k - 1], Axis(src, k), items[k]) <=> CanEnter(src.shape[k], items[k])
  <2> TAKE k \in 1..r
  <2>1. ~(src.suboffsets[k] >= 0)
    BY DirectSliceHas DEF r
  <2> QED BY <2>1 DEF CanSlice, Axis
<1> QED BY <1>2, <1>10, <1>11 DEF MadeOf, r

\* The index tuple of the source that one of the cut slice stands for.
SourceOf(src, items, i) ==
    [k \in 1..Rank(src) |->
        EntryOf(src.shape[k], items[k])
          + (IF items[k].kind = "slice" THEN i[Promised!Kept(items, k)] * StepOf(items[k]) ELSE 0)]

MadeShape(src, items) ==
    [j \in 1..Promised!Kept(items, Rank(src)) |->
        ExtentOf(src.shape[Promised!AxisOf(items, j)], items[Promised!AxisOf(items, j)])]
MadeStrides(src, items) ==
    [j \in 1..Promised!Kept(items, Rank(src)) |->
        src.strides[Promised!AxisOf(items, j)] * StepOf(items[Promised!AxisOf(items, j)])]
MadeSuboffsets(src, items) ==
    [j \in 1..Promised!Kept(items, Rank(src)) |-> src.suboffsets[Promised!AxisOf(items, j)]]

\* The extents, all natural numbers when the axes can be entered.
LEMMA MadeIs ==
    ASSUME NEW src, IsDirectSlice(src), NEW items, DOMAIN items = 1..Rank(src),
           \A l \in 1..Rank(src) : IsAxisItem(items[l]),
           \A l \in 1..Rank(src) : items[l].kind = "slice" => ExtentOf(src.shape[l], items[l]) \in Nat
    PROVE  /\ IsDirectSlice(MadeOf(src, items))
           /\ Rank(MadeOf(src, items)) = Promised!Kept(items, Rank(src))
           /\ MadeOf(src, items).owner = src.owner
           /\ Promised!Kept(items, Rank(src)) \in 0..Rank(src)
           /\ MadeOf(src, items).shape = MadeShape(src, items)
           /\ MadeOf(src, items).strides = MadeStrides(src, items)
           /\ MadeOf(src, items).suboffsets = MadeSuboffsets(src, items)
           /\ MadeOf(src, items).data = src.data + SumTo(EntryTerms(src, items), Rank(src))
<1> DEFINE r == Rank(src)
           made == MadeOf(src, items)
           A(j) == Promised!AxisOf(items, j)
           m == Promised!Kept(items, r)
<1>1. r \in Nat /\ r \in 0..r /\ src.data \in Int /\ src.owner \in Nat
      /\ \A l \in 1..r : src.shape[l] \in Nat /\ src.strides[l] \in Int
                         /\ src.suboffsets[l] \in Int /\ src.suboffsets[l] < 0
  BY DirectSliceHas
<1>2. m \in 0..r
  BY <1>1, KeptBounds
<1>3. \A j \in 1..m : A(j) \in 1..r /\ items[A(j)].kind = "slice"
  BY <1>1, AxisOfIs
<1>4. /\ made = [data |-> made.data, shape |-> made.shape, strides |-> made.strides,
                 suboffsets |-> made.suboffsets, owner |-> src.owner]
      /\ made.owner = src.owner
      /\ made.shape = [j \in 1..m |-> ExtentOf(src.shape[A(j)], items[A(j)])]
      /\ made.strides = [j \in 1..m |-> src.strides[A(j)] * StepOf(items[A(j)])]
      /\ made.suboffsets = [j \in 1..m |-> src.suboffsets[A(j)]]
      /\ made.data = src.data + SumTo(EntryTerms(src, items), r)
  BY DEF MadeOf, CutTo
<1>5. made.data \in Int
  <2>1. \A l \in 1..r : EntryTerms(src, items)[l] \in Int
    <3> TAKE l \in 1..r
    <3>1. EntryOf(src.shape[l], items[l]) \in Int
      BY <1>1, EntryIs
    <3>2. EntryTerms(src, items)[l] = EntryOf(src.shape[l], items[l]) * src.strides[l]
      BY DEF EntryTerms
    <3> QED BY <3>1, <3>2, <1>1
  <2>2. SumTo(EntryTerms(src, items), r) \in Int
    <3> HIDE DEF r
    <3> QED BY <1>1, <2>1, SumType
  <2> HIDE DEF made
  <2> QED BY <1>1, <1>4, <2>2
<1> HIDE DEF made, m, A, r
<1>6. made.shape \in Seq(Nat) /\ Len(made.shape) = m
  <2>1. \A j \in 1..m : ExtentOf(src.shape[A(j)], items[A(j)]) \in Nat
    BY <1>3 DEF r
  <2>2. made.shape \in [1..m -> Nat]
    BY <1>4, <2>1
  <2> QED BY <1>2, <2>2
<1>7. made.strides \in Seq(Int) /\ Len(made.strides) = m
  <2>1. \A j \in 1..m : src.strides[A(j)] * StepOf(items[A(j)]) \in Int
    <3> TAKE j \in 1..m
    <3>1. IsSliceItem(items[A(j)])
      BY <1>3 DEF r, IsAxisItem
    <3>2. StepOf(items[A(j)]) \in Int
      <4>1. src.shape[A(j)] \in Nat
        BY <1>1, <1>3
      <4> QED BY <3>1, <4>1, SliceBounds
    <3> QED BY <3>2, <1>1, <1>3
  <2>2. made.strides \in [1..m -> Int]
    BY <1>4, <2>1
  <2> QED BY <1>2, <2>2
<1>8. made.suboffsets \in Seq(Int) /\ Len(made.suboffsets) = m /\ \A j \in 1..m : made.suboffsets[j] < 0
  <2>1. made.suboffsets \in [1..m -> Int]
    BY <1>1, <1>3, <1>4
  <2>2. \A j \in 1..m : made.suboffsets[j] < 0
    <3> TAKE j \in 1..m
    <3>1. A(j) \in 1..r /\ made.suboffsets[j] = src.suboffsets[A(j)]
      BY <1>3, <1>4
    <3> QED BY <3>1, <1>1
  <2> QED BY <1>2, <2>1, <2>2
<1>9. IsDirectSlice(made) /\ Rank(made) = m
  <2>1. Rank(made) = m
    BY <1>6 DEF Rank
  <2>2. made \in [data : Int, shape : Seq(Nat), strides : Seq(Int), suboffsets : Seq(Int), owner : Nat]
    <3>1. [data |-> made.data, shape |-> made.shape, strides |-> made.strides,
           suboffsets |-> made.suboffsets, owner |-> src.owner]
            \in [data : Int, shape : Seq(Nat), strides : Seq(Int), suboffsets : Seq(Int), owner : Nat]
      BY <1>1, <1>5, <1>6, <1>7, <1>8
    <3> QED BY <1>4, <3>1
  <2> QED BY <2>1, <2>2, <1>6, <1>7, <1>8 DEF IsDirectSlice, IsSlice, IsDirect
<1> QED BY <1>2, <1>4, <1>9 DEF made, A, m, r, MadeShape, MadeStrides, MadeSuboffsets

\* An item of the cut slice is the item of the source.
LEMMA MadeItem ==
    ASSUME NEW src, IsDirectSlice(src), NEW items, DOMAIN items = 1..Rank(src),
           \A l \in 1..Rank(src) : IsAxisItem(items[l]),
           \A l \in 1..Rank(src) : items[l].kind = "slice" => ExtentOf(src.shape[l], items[l]) \in Nat,
           NEW i, \A j \in 1..Promised!Kept(items, Rank(src)) : i[j] \in Int
    PROVE  /\ ItemAt(MadeOf(src, items), i) = ItemAt(src, SourceOf(src, items, i))
           /\ \A k \in 1..Rank(src) : SourceOf(src, items, i)[k] \in Int
<1> DEFINE r == Rank(src)
           made == MadeOf(src, items)
           A(j) == Promised!AxisOf(items, j)
           K(k) == Promised!Kept(items, k)
           s == SourceOf(src, items, i)
           e(k) == EntryOf(src.shape[k], items[k])
           q == Terms(src, s)
           h == EntryTerms(src, items)
           t == Terms(made, i)
<1>1. r \in Nat /\ r \in 0..r /\ src.data \in Int
      /\ \A l \in 1..r : src.shape[l] \in Nat /\ src.strides[l] \in Int
  BY DirectSliceHas
<1>2. /\ Rank(made) = K(r) /\ K(r) \in 0..r
      /\ made.strides = [j \in 1..K(r) |-> src.strides[A(j)] * StepOf(items[A(j)])]
      /\ made.data = src.data + SumTo(h, r)
  <2>1. /\ Rank(MadeOf(src, items)) = Promised!Kept(items, Rank(src))
        /\ Promised!Kept(items, Rank(src)) \in 0..Rank(src)
        /\ MadeOf(src, items).strides = MadeStrides(src, items)
        /\ MadeOf(src, items).data = src.data + SumTo(EntryTerms(src, items), Rank(src))
    BY MadeIs
  <2> QED BY <2>1 DEF MadeStrides
<1>3. /\ \A k \in 0..r : K(k) \in 0..k /\ K(k) <= K(r)
      /\ \A k \in 1..r : items[k].kind = "slice" => K(k) >= 1
      /\ K(0) = 0
      /\ \A k \in Nat : k < r => K(k + 1) = K(k) + (IF items[k + 1].kind = "slice" THEN 1 ELSE 0)
  <2>1. \A k \in 0..r : K(k) \in 0..k
    BY <1>1, KeptBounds
  <2>2. \A k, l \in 0..r : k <= l => K(k) <= K(l)
    BY <1>1, KeptBounds
  <2>3. \A k \in 1..r : items[k].kind = "slice" => K(k) >= 1
    BY <1>1, KeptBounds
  <2>4. K(0) = 0 /\ \A k \in Nat : k < r => K(k + 1) = K(k) + (IF items[k + 1].kind = "slice" THEN 1 ELSE 0)
    BY <1>1, KeptIs
  <2>5. \A k \in 0..r : k <= r
    OBVIOUS
  <2> QED BY <2>1, <2>2, <2>3, <2>4, <2>5, <1>1
<1>4. \A k \in 1..r : items[k].kind = "slice" => A(K(k)) = k
  BY <1>1, AxisOfIs
<1>5. \A l \in 1..r : e(l) \in Int
  BY <1>1, EntryIs
<1>6. \A l \in 1..r : items[l].kind = "slice" => StepOf(items[l]) \in Int
  BY <1>1, SliceBounds DEF IsAxisItem
<1>7. \A l \in 1..r : /\ h[l] = e(l) * src.strides[l] /\ h[l] \in Int
                      /\ s[l] = e(l) + (IF items[l].kind = "slice" THEN i[K(l)] * StepOf(items[l]) ELSE 0)
                      /\ q[l] = s[l] * src.strides[l]
  BY <1>1, <1>5 DEF EntryTerms, SourceOf, Terms
<1> HIDE DEF r, made, A, K, s, e, q, h, t
<1>8. ASSUME NEW l \in 1..r, items[l].kind = "slice"
      PROVE  /\ i[K(l)] \in Int /\ K(l) \in 1..K(r)
             /\ t[K(l)] = i[K(l)] * (src.strides[l] * StepOf(items[l])) /\ t[K(l)] \in Int
             /\ q[l] = h[l] + t[K(l)]
  <2>1. K(l) \in 1..K(r) /\ A(K(l)) = l
    <3>1. l \in 0..r
      BY <1>1
    <3> QED BY <3>1, <1>3, <1>4, <1>8
  <2>2. i[K(l)] \in Int /\ StepOf(items[l]) \in Int /\ e(l) \in Int /\ src.strides[l] \in Int
    BY <2>1, <1>1, <1>5, <1>6, <1>8 DEF K, r
  <2>3. t[K(l)] = i[K(l)] * made.strides[K(l)]
    BY <1>2, <2>1 DEF t, Terms
  <2>4. made.strides[K(l)] = src.strides[l] * StepOf(items[l])
    BY <1>2, <2>1
  <2>5. q[l] = (e(l) + i[K(l)] * StepOf(items[l])) * src.strides[l]
    BY <1>7, <1>8
  <2> DEFINE x == i[K(l)]
             y == StepOf(items[l])
             z == src.strides[l]
             u == e(l)
  <2>6. x \in Int /\ y \in Int /\ z \in Int /\ u \in Int
    BY <2>2
  <2> HIDE DEF x, y, z, u
  <2>7. (u + x * y) * z = u * z + x * (z * y) /\ x * (z * y) \in Int
    BY <2>6
  <2> QED BY <2>1, <2>2, <2>3, <2>4, <2>5, <2>7, <1>7 DEF x, y, z, u
<1>9. ASSUME NEW l \in 1..r, items[l].kind # "slice" PROVE q[l] = h[l]
  BY <1>1, <1>5, <1>7, <1>9
<1>10. \A l \in 1..r : q[l] \in Int /\ s[l] \in Int
  <2> TAKE l \in 1..r
  <2>1. CASE items[l].kind = "slice"
    <3>1. i[K(l)] * StepOf(items[l]) \in Int
      BY <2>1, <1>6, <1>8
    <3>2. s[l] \in Int
      BY <2>1, <3>1, <1>5, <1>7
    <3> QED BY <3>2, <1>7, <1>1
  <2>2. CASE items[l].kind # "slice"
    <3>1. s[l] \in Int
      BY <2>2, <1>5, <1>7
    <3> QED BY <3>1, <1>7, <1>1
  <2> QED BY <2>1, <2>2
<1>11. \A j \in 1..K(r) : t[j] \in Int
  <2> TAKE j \in 1..K(r)
  <2>1. A(j) \in 1..r /\ items[A(j)].kind = "slice" /\ K(A(j)) = j
    BY <1>1, AxisOfIs DEF A, K, r
  <2> QED BY <2>1, <1>8
<1>12. \A k \in 0..r : SumTo(q, k) \in Int /\ SumTo(h, k) \in Int
  <2>1. \A l \in 1..r : q[l] \in Int
    BY <1>10
  <2>2. \A l \in 1..r : h[l] \in Int
    BY <1>7
  <2> QED BY <2>1, <2>2, <1>1, SumType
<1>13. \A j \in 0..K(r) : SumTo(t, j) \in Int
  <2>1. K(r) \in Nat
    BY <1>2
  <2> QED BY <2>1, <1>11, SumType
<1> DEFINE T == {k \in Nat : k <= r => SumTo(q, k) = SumTo(h, k) + SumTo(t, K(k))}
<1>14. 0 \in T
  BY <1>3, SumIs
<1>15. ASSUME NEW k \in Nat, k \in T PROVE k + 1 \in T
  <2>1. SUFFICES ASSUME k + 1 <= r PROVE SumTo(q, k + 1) = SumTo(h, k + 1) + SumTo(t, K(k + 1))
    OBVIOUS
  <2>2. k + 1 \in 1..r /\ k \in 0..r /\ k < r /\ k <= r
    BY <2>1, <1>1
  <2>3. SumTo(q, k + 1) = SumTo(q, k) + q[k + 1] /\ SumTo(h, k + 1) = SumTo(h, k) + h[k + 1]
    BY SumIs
  <2>4. SumTo(q, k) = SumTo(h, k) + SumTo(t, K(k))
    BY <1>15, <2>2
  <2>5. K(k) \in Nat /\ K(k) \in 0..K(r) /\ K(k + 1) = K(k) + (IF items[k + 1].kind = "slice" THEN 1 ELSE 0)
    BY <1>3, <2>2
  <2>6. SumTo(q, k) \in Int /\ SumTo(h, k) \in Int /\ SumTo(t, K(k)) \in Int /\ h[k + 1] \in Int
    BY <2>2, <2>5, <1>7, <1>12, <1>13
  <2>7. CASE items[k + 1].kind = "slice"
    <3>1. K(k + 1) = K(k) + 1
      BY <2>5, <2>7
    <3>2. SumTo(t, K(k) + 1) = SumTo(t, K(k)) + t[K(k) + 1]
      BY <2>5, SumIs
    <3>3. q[k + 1] = h[k + 1] + t[K(k + 1)] /\ t[K(k + 1)] \in Int
      BY <2>2, <2>7, <1>8
    <3> QED BY <2>3, <2>4, <2>6, <3>1, <3>2, <3>3
  <2>8. CASE items[k + 1].kind # "slice"
    <3>1. K(k + 1) = K(k)
      BY <2>5, <2>8
    <3>2. q[k + 1] = h[k + 1]
      BY <2>2, <2>8, <1>9
    <3> QED BY <2>3, <2>4, <2>6, <3>1, <3>2
  <2> QED BY <2>7, <2>8
<1>16. \A k \in Nat : k \in T
  <2> HIDE DEF T
  <2> QED BY <1>14, <1>15, Induct
<1>17. SumTo(q, r) = SumTo(h, r) + SumTo(t, K(r))
  <2>1. r <= r
    BY <1>1
  <2> QED BY <1>1, <1>16, <2>1
<1>18. ItemAt(made, i) = made.data + SumTo(t, K(r))
  BY <1>2, ItemAtIs DEF t
<1>19. ItemAt(src, s) = src.data + SumTo(q, r)
  BY ItemAtIs DEF q, r
<1>20. SumTo(h, r) \in Int /\ SumTo(t, K(r)) \in Int
  <2>1. K(r) \in 0..K(r)
    BY <1>2
  <2> QED BY <2>1, <1>1, <1>12, <1>13
<1>21. ItemAt(made, i) = ItemAt(src, s)
  BY <1>1, <1>2, <1>17, <1>18, <1>19, <1>20
<1> QED BY <1>10, <1>21 DEF made, s, r

-----------------------------------------------------------------------------
(* The view that a direct slice is.                                         *)

ViewOf(s, w) ==
    [shape |-> s.shape, at |-> [i \in Tuples(s.shape) |-> ItemAt(s, i)],
     writable |-> w, direct |-> [k \in 1..Rank(s) |-> TRUE]]

\* One item for each axis, and none that is read otherwise than Python does.
Cuts(src, items) ==
    /\ DOMAIN items = 1..Rank(src)
    /\ \A k \in 1..Rank(src) : IsAxisItem(items[k]) /\ AsPython(src.shape[k], items[k])
Enters(src, items) == \A k \in 1..Rank(src) : CanEnter(src.shape[k], items[k])

\* Both modules refuse the same items of an axis.
LEMMA EnterIs ==
    ASSUME NEW n \in Nat, NEW item, IsAxisItem(item)
    PROVE  CanEnter(n, item)
             <=> IF item.kind = "slice" THEN item.step # {0}
                 ELSE Promised!PositionOf(n, item, 0) \in 0..(n - 1)
<1>1. CASE IsSliceItem(item)
  <2>1. item.kind = "slice" /\ IsBound(item.step)
    BY <1>1 DEF IsSliceItem
  <2>2. StepOf(item) = 0 <=> item.step = {0}
    <3>1. item.step = {} => StepOf(item) = 1
      BY <2>1, GivenIs DEF StepOf
    <3>2. item.step # {} => item.step = {StepOf(item)}
      BY <2>1, GivenIs DEF StepOf
    <3>3. CASE item.step = {}
      BY <3>1, <3>3
    <3>4. CASE item.step # {}
      BY <3>2, <3>4
    <3> QED BY <3>3, <3>4
  <2> QED BY <2>1, <2>2 DEF CanEnter
<1>2. CASE item.kind = "index" /\ item.at \in Int
  <2>1. Promised!PositionOf(n, item, 0) = EntryOf(n, item)
    BY <1>2 DEF Promised!PositionOf, EntryOf
  <2> QED BY <1>2, <2>1 DEF CanEnter
<1> QED BY <1>1, <1>2 DEF IsAxisItem

\* An axis that is entered shows positions of its own.
LEMMA AxisShows ==
    ASSUME NEW n \in Nat, NEW item, IsAxisItem(item), AsPython(n, item), CanEnter(n, item)
    PROVE  /\ item.kind = "slice" =>
                /\ ExtentOf(n, item) \in 0..n /\ Promised!SliceLength(n, item) = ExtentOf(n, item)
                /\ \A k \in 0..(ExtentOf(n, item) - 1) :
                      /\ Promised!PositionOf(n, item, k) = EntryOf(n, item) + k * StepOf(item)
                      /\ EntryOf(n, item) + k * StepOf(item) \in 0..(n - 1)
           /\ item.kind # "slice" =>
                Promised!PositionOf(n, item, 0) = EntryOf(n, item) /\ EntryOf(n, item) \in 0..(n - 1)
<1>1. CASE IsSliceItem(item)
  <2>1. item.kind = "slice" /\ StepOf(item) # 0 /\ EntryOf(n, item) = StartOf(n, item)
    BY <1>1 DEF IsSliceItem, CanEnter, EntryOf
  <2>2. /\ ExtentOf(n, item) \in 0..n
        /\ Promised!SliceLength(n, item) = ExtentOf(n, item)
        /\ \A k \in 0..(ExtentOf(n, item) - 1) :
              /\ Promised!PositionOf(n, item, k) = StartOf(n, item) + k * StepOf(item)
              /\ Promised!PositionOf(n, item, k) \in 0..(n - 1)
    BY <1>1, <2>1, SliceShows
  <2> QED BY <2>1, <2>2
<1>2. CASE item.kind = "index" /\ item.at \in Int
  BY <1>2 DEF Promised!PositionOf, EntryOf, CanEnter
<1> QED BY <1>1, <1>2 DEF IsAxisItem

\* What is known of items that enter every axis.
LEMMA CutExtents ==
    ASSUME NEW src, IsDirectSlice(src), NEW items, Cuts(src, items), Enters(src, items)
    PROVE  /\ \A l \in 1..Rank(src) : items[l].kind = "slice" => ExtentOf(src.shape[l], items[l]) \in Nat
           /\ \A l \in 1..Rank(src) : IsAxisItem(items[l])
           /\ DOMAIN items = 1..Rank(src)
<1>1. ASSUME NEW l \in 1..Rank(src), items[l].kind = "slice" PROVE ExtentOf(src.shape[l], items[l]) \in Nat
  <2>1. src.shape[l] \in Nat
    BY DirectSliceHas
  <2>2. ExtentOf(src.shape[l], items[l]) \in 0..src.shape[l]
    BY <1>1, <2>1, AxisShows DEF Cuts, Enters
  <2> QED BY <2>1, <2>2
<1> QED BY <1>1 DEF Cuts

\* The tuple an item of the cut slice stands for is one of the source.
LEMMA SourceIn ==
    ASSUME NEW src, IsDirectSlice(src), NEW items, Cuts(src, items), Enters(src, items),
           NEW i \in Tuples(MadeOf(src, items).shape)
    PROVE  /\ SourceOf(src, items, i) \in Tuples(src.shape)
           /\ SourceOf(src, items, i) =
                [k \in 1..Rank(src) |-> Promised!PositionOf(src.shape[k], items[k],
                       IF items[k].kind = "slice" THEN i[Promised!Kept(items, k)] ELSE 0)]
           /\ \A j \in 1..Promised!Kept(items, Rank(src)) : i[j] \in Int
           /\ ItemAt(MadeOf(src, items), i) = ItemAt(src, SourceOf(src, items, i))
<1> DEFINE r == Rank(src)
           K(k) == Promised!Kept(items, k)
           made == MadeOf(src, items)
           s == SourceOf(src, items, i)
<1>1. /\ r \in Nat /\ r \in 0..r /\ src.shape \in Seq(Nat) /\ Len(src.shape) = r
      /\ \A l \in 1..r : src.shape[l] \in Nat
  BY DirectSliceHas
<1>2. /\ \A l \in 1..r : items[l].kind = "slice" => ExtentOf(src.shape[l], items[l]) \in Nat
      /\ \A l \in 1..r : /\ IsAxisItem(items[l]) /\ AsPython(src.shape[l], items[l])
                         /\ CanEnter(src.shape[l], items[l])
      /\ DOMAIN items = 1..r
  BY CutExtents DEF Cuts, Enters
<1>3. IsDirectSlice(made) /\ Rank(made) = K(r) /\ K(r) \in 0..r /\ made.shape = MadeShape(src, items)
  BY <1>2, MadeIs
<1>4. made.shape \in Seq(Nat) /\ Len(made.shape) = K(r)
  <2> HIDE DEF made
  <2> QED BY <1>3, DirectSliceHas
<1>5. i \in [1..K(r) -> Nat] /\ \A j \in 1..K(r) : i[j] < made.shape[j]
  <2>1. i \in Tuples(made.shape)
    OBVIOUS
  <2> HIDE DEF made
  <2> QED BY <1>4, <2>1, TupleIs
<1>6. ASSUME NEW k \in 1..r
      PROVE  /\ s[k] \in 0..(src.shape[k] - 1)
             /\ s[k] = Promised!PositionOf(src.shape[k], items[k],
                          IF items[k].kind = "slice" THEN i[K(k)] ELSE 0)
  <2>1. s[k] = EntryOf(src.shape[k], items[k])
                 + (IF items[k].kind = "slice" THEN i[K(k)] * StepOf(items[k]) ELSE 0)
    BY DEF SourceOf
  <2> HIDE DEF s
  <2>2. CASE items[k].kind = "slice"
    <3>1. K(k) \in 1..K(r) /\ Promised!AxisOf(items, K(k)) = k
      <4>1. k \in 0..r /\ k <= r
        BY <1>1
      <4>2. K(k) >= 1 /\ K(k) <= K(r) /\ K(k) \in Int
        BY <4>1, <1>1, <1>2, <2>2, KeptBounds
      <4>3. Promised!AxisOf(items, K(k)) = k
        BY <1>1, <1>2, <2>2, AxisOfIs
      <4> QED BY <4>2, <4>3, <1>3
    <3>2. made.shape[K(k)] = ExtentOf(src.shape[k], items[k])
      BY <3>1, <1>3 DEF MadeShape
    <3>3. i[K(k)] \in 0..(ExtentOf(src.shape[k], items[k]) - 1)
      BY <3>1, <3>2, <1>2, <1>5, <2>2
    <3> DEFINE x == i[K(k)]
    <3>4. x \in 0..(ExtentOf(src.shape[k], items[k]) - 1)
      BY <3>3
    <3> HIDE DEF x
    <3>5. /\ Promised!PositionOf(src.shape[k], items[k], x) = EntryOf(src.shape[k], items[k]) + x * StepOf(items[k])
          /\ EntryOf(src.shape[k], items[k]) + x * StepOf(items[k]) \in 0..(src.shape[k] - 1)
      BY <1>1, <1>2, <2>2, <3>4, AxisShows
    <3> QED BY <2>1, <2>2, <3>5 DEF x
  <2>3. CASE items[k].kind # "slice"
    <3>1. /\ Promised!PositionOf(src.shape[k], items[k], 0) = EntryOf(src.shape[k], items[k])
          /\ EntryOf(src.shape[k], items[k]) \in 0..(src.shape[k] - 1)
      BY <1>1, <1>2, <2>3, AxisShows
    <3> QED BY <2>1, <2>3, <3>1
  <2> QED BY <2>2, <2>3
<1>7. s = [k \in 1..r |-> s[k]]
  BY DEF SourceOf
<1>8. s \in Tuples(src.shape)
  <2>1. s \in [1..r -> Nat] /\ \A k \in 1..r : s[k] < src.shape[k]
    <3> HIDE DEF s
    <3>1. \A k \in 1..r : s[k] \in Nat /\ s[k] < src.shape[k]
      BY <1>1, <1>6
    <3> QED BY <3>1, <1>7
  <2> HIDE DEF s
  <2> QED BY <2>1, <1>1, TupleIs
<1>9. \A j \in 1..K(r) : i[j] \in Int
  BY <1>5
<1>10. ItemAt(made, i) = ItemAt(src, s)
  BY <1>2, <1>9, MadeItem
<1> HIDE DEF s
<1>11. s = [k \in 1..r |-> Promised!PositionOf(src.shape[k], items[k],
                       IF items[k].kind = "slice" THEN i[K(k)] ELSE 0)]
  BY <1>6, <1>7
<1> QED BY <1>8, <1>9, <1>10, <1>11 DEF s

\* The view cut from a view is the one the specification selects.
LEMMA SelectIs ==
    ASSUME NEW src, IsDirectSlice(src), NEW w, NEW items, Cuts(src, items), Enters(src, items)
    PROVE  Promised!Select(ViewOf(src, w), items) = ViewOf(MadeOf(src, items), w)
<1> DEFINE r == Rank(src)
           view == ViewOf(src, w)
           made == MadeOf(src, items)
           m == Promised!Kept(items, r)
           axes == [j \in 1..m |-> Promised!AxisOf(items, j)]
           shape == [j \in DOMAIN axes |-> Promised!SliceLength(view.shape[axes[j]], items[axes[j]])]
           Source(i) == [k \in 1..r |-> Promised!PositionOf(view.shape[k], items[k],
                            IF items[k].kind = "slice" THEN i[Promised!Kept(items, k)] ELSE 0)]
           direct == [j \in DOMAIN axes |-> view.direct[axes[j]]]
           at == [i \in Tuples(shape) |-> view.at[Source(i)]]
<1>1. /\ r \in Nat /\ r \in 0..r /\ src.shape \in Seq(Nat) /\ Len(src.shape) = r
      /\ \A l \in 1..r : src.shape[l] \in Nat
  BY DirectSliceHas
<1>2. /\ \A l \in 1..r : items[l].kind = "slice" => ExtentOf(src.shape[l], items[l]) \in Nat
      /\ \A l \in 1..r : /\ IsAxisItem(items[l]) /\ AsPython(src.shape[l], items[l])
                         /\ CanEnter(src.shape[l], items[l])
      /\ DOMAIN items = 1..r
  BY CutExtents DEF Cuts, Enters
<1>3. IsDirectSlice(made) /\ Rank(made) = m /\ made.shape = MadeShape(src, items)
  BY <1>2, MadeIs
<1>4. Promised!Select(view, items) = [view EXCEPT !.shape = shape, !.direct = direct, !.at = at]
  <2>1. Len(view.shape) = r
    BY <1>1 DEF ViewOf
  <2> QED BY <2>1, SameOperators DEF Promised!Select
<1>5. \A j \in 1..m : axes[j] \in 1..r /\ items[axes[j]].kind = "slice" /\ axes[j] = Promised!AxisOf(items, j)
  BY <1>1, <1>2, AxisOfIs
<1>6. shape = made.shape
  <2>1. made.shape = [j \in 1..m |-> ExtentOf(src.shape[axes[j]], items[axes[j]])]
    BY <1>3 DEF MadeShape
  <2>2. \A j \in 1..m : Promised!SliceLength(view.shape[axes[j]], items[axes[j]]) = ExtentOf(src.shape[axes[j]], items[axes[j]])
    <3> TAKE j \in 1..m
    <3>1. axes[j] \in 1..r /\ items[axes[j]].kind = "slice"
      BY <1>5
    <3>2. view.shape = src.shape
      BY DEF ViewOf
    <3> HIDE DEF axes, view
    <3> QED BY <3>1, <3>2, <1>1, <1>2, AxisShows
  <2>3. DOMAIN axes = 1..m
    OBVIOUS
  <2> HIDE DEF axes, made, view
  <2> QED BY <2>1, <2>2, <2>3
<1>7. direct = [k \in 1..Rank(made) |-> TRUE]
  <2>1. \A j \in 1..m : view.direct[axes[j]] = TRUE
    BY <1>5 DEF ViewOf
  <2>2. DOMAIN axes = 1..m
    OBVIOUS
  <2> HIDE DEF axes, made, view
  <2> QED BY <2>1, <2>2, <1>3
<1>8. at = [i \in Tuples(made.shape) |-> ItemAt(made, i)]
  <2>1. ASSUME NEW i \in Tuples(made.shape) PROVE view.at[Source(i)] = ItemAt(made, i)
    <3>1. /\ SourceOf(src, items, i) \in Tuples(src.shape)
          /\ ItemAt(made, i) = ItemAt(src, SourceOf(src, items, i))
      BY SourceIn
    <3>2. SourceOf(src, items, i) = Source(i)
      <4>1. SourceOf(src, items, i) =
                [k \in 1..r |-> Promised!PositionOf(src.shape[k], items[k],
                       IF items[k].kind = "slice" THEN i[Promised!Kept(items, k)] ELSE 0)]
        BY SourceIn
      <4>2. view.shape = src.shape
        BY DEF ViewOf
      <4> HIDE DEF view
      <4> QED BY <4>1, <4>2
    <3>3. \A x \in Tuples(src.shape) : view.at[x] = ItemAt(src, x)
      BY DEF ViewOf
    <3> HIDE DEF Source, view, made
    <3> QED BY <3>1, <3>2, <3>3
  <2> HIDE DEF Source, view, made, shape
  <2> QED BY <2>1, <1>6
<1>9. view = [shape |-> src.shape, at |-> view.at, writable |-> w, direct |-> view.direct]
  BY DEF ViewOf
<1> HIDE DEF shape, direct, at, view
<1>10. [view EXCEPT !.shape = shape, !.direct = direct, !.at = at]
         = [shape |-> shape, at |-> at, writable |-> w, direct |-> direct]
  <2> DEFINE x == [view EXCEPT !.shape = shape]
             y == [x EXCEPT !.direct = direct]
  <2>1. x = [shape |-> shape, at |-> view.at, writable |-> w, direct |-> view.direct]
    BY <1>9
  <2>2. [view EXCEPT !.shape = shape, !.direct = direct, !.at = at] = [y EXCEPT !.at = at]
    OBVIOUS
  <2> HIDE DEF x
  <2>3. y = [shape |-> shape, at |-> view.at, writable |-> w, direct |-> direct]
    BY <2>1
  <2> HIDE DEF y
  <2> QED BY <2>2, <2>3
<1>11. ViewOf(made, w) = [shape |-> made.shape, at |-> [i \in Tuples(made.shape) |-> ItemAt(made, i)],
                          writable |-> w, direct |-> [k \in 1..Rank(made) |-> TRUE]]
  <2> HIDE DEF made
  <2> QED BY <1>3 DEF ViewOf
<1> HIDE DEF made
<1> QED BY <1>4, <1>6, <1>7, <1>8, <1>10, <1>11 DEF view, made

-----------------------------------------------------------------------------
(* unellipsify.                                                             *)

\* A tuple of numbers, slices and "...".
IsTuple(t) == t \in Seq(Range(t)) /\ \A j \in DOMAIN t : IsIndexItem(t[j])

IsEllipsis(item) == item.kind = "ellipsis"

\* An item of an index is "..." or an item of an axis, in both modules.
LEMMA IndexItemIs ==
    ASSUME NEW item, IsIndexItem(item)
    PROVE  /\ IsEllipsis(item) \/ IsAxisItem(item)
           /\ ~IsEllipsis(item) => IsAxisItem(item) /\ item.kind \in {"index", "slice"}
           /\ Promised!IsDots(item) <=> IsEllipsis(item)
           /\ IsEllipsis(item) => item.kind # "index" /\ item.kind # "slice"
<1>1. CASE item = Dots
  BY <1>1 DEF Dots, IsEllipsis, Promised!IsDots
<1>2. CASE item.kind = "index" /\ item = At(item.at) /\ item.at \in Int
  BY <1>2 DEF IsEllipsis, IsAxisItem, Promised!IsDots
<1>3. CASE /\ item.kind = "slice" /\ item = Range3(item.start, item.stop, item.step)
           /\ IsBound(item.start) /\ IsBound(item.stop) /\ IsBound(item.step)
  BY <1>3 DEF IsEllipsis, IsAxisItem, IsSliceItem, Promised!IsDots
<1> QED BY <1>1, <1>2, <1>3 DEF IsIndexItem

\* The item ":" of the list unellipsify starts with.
LEMMA AllIs ==
    /\ IsSliceItem(All) /\ IsAxisItem(All) /\ All.kind = "slice" /\ Promised!Everything = All
  BY DEF All, Range3, IsSliceItem, IsAxisItem, IsBound, Promised!Everything

\* The list before the first item of the tuple.
Blank(nd) == [idx |-> 0, seen |-> FALSE, slices |-> FALSE, items |-> [k \in 1..nd |-> All]]

\* f is the list after each of the first m items.
Lists(f, t, nd, g, m) ==
    f = [j \in 0..m |-> IF j = 0 THEN Blank(nd) ELSE PlaceItem(f[j - 1], t[j], nd, g)]

\* The walk of unellipsify over a tuple has a list for every item.
LEMMA AccExists ==
    ASSUME NEW t, NEW nd, NEW g, NEW n \in Nat
    PROVE  \E f : Lists(f, t, nd, g, n)
<1> DEFINE Solves(f, m) == f = [j \in 0..m |-> IF j = 0 THEN Blank(nd) ELSE PlaceItem(f[j - 1], t[j], nd, g)]
           T == {m \in Nat : \E f : Solves(f, m)}
<1>1. 0 \in T
  <2> DEFINE f == [k \in 0..0 |-> Blank(nd)]
  <2>1. Solves(f, 0)
    OBVIOUS
  <2> QED BY <2>1
<1>2. ASSUME NEW m \in Nat, m \in T PROVE m + 1 \in T
  <2>1. PICK f : Solves(f, m)
    BY <1>2
  <2> DEFINE more == [k \in 0..(m + 1) |-> IF k <= m THEN f[k] ELSE PlaceItem(f[m], t[k], nd, g)]
  <2>2. ASSUME NEW k \in 0..(m + 1)
        PROVE  more[k] = IF k = 0 THEN Blank(nd) ELSE PlaceItem(more[k - 1], t[k], nd, g)
    <3>1. CASE k <= m
      <4>1. k \in 0..m /\ more[k] = f[k] /\ (k # 0 => more[k - 1] = f[k - 1])
        BY <3>1
      <4>2. f[k] = IF k = 0 THEN Blank(nd) ELSE PlaceItem(f[k - 1], t[k], nd, g)
        BY <2>1, <4>1
      <4> QED BY <4>1, <4>2
    <3>2. CASE k = m + 1
      <4>1. more[k] = PlaceItem(f[m], t[k], nd, g) /\ k - 1 = m /\ more[m] = f[m] /\ k # 0
        BY <3>2
      <4> HIDE DEF more
      <4> QED BY <4>1
    <3> QED BY <3>1, <3>2
  <2>3. Solves(more, m + 1)
    BY <2>2
  <2> HIDE DEF Solves, more
  <2> QED BY <2>3
<1>3. \A m \in Nat : m \in T
  <2> HIDE DEF T
  <2> QED BY <1>1, <1>2, Induct
<1> QED BY <1>3 DEF Lists

\* The list after each item of the tuple.
ListOf(t, nd) == CHOOSE f : Lists(f, t, nd, Len(t), Len(t))

\* The lists of that walk, and what unellipsify makes of the last.
LEMMA ListIs ==
    ASSUME NEW t, IsTuple(t), NEW nd \in Nat
    PROVE  /\ Len(t) \in Nat /\ DOMAIN t = 1..Len(t)
           /\ ListOf(t, nd)[0] = Blank(nd)
           /\ \A j \in Nat : j < Len(t) =>
                 ListOf(t, nd)[j + 1] = PlaceItem(ListOf(t, nd)[j], t[j + 1], nd, Len(t))
           /\ Unellipsify(t, nd) =
                IF \A j \in 1..Len(t) : IsEllipsis(t[j]) \/ ListOf(t, nd)[j - 1].idx \in -nd..(nd - 1)
                THEN {[items |-> ListOf(t, nd)[Len(t)].items,
                       slices |-> ListOf(t, nd)[Len(t)].slices \/ ListOf(t, nd)[Len(t)].idx # nd]}
                ELSE {}
<1> DEFINE acc == ListOf(t, nd)
           g == Len(t)
<1>1. g \in Nat /\ DOMAIN t = 1..g
  BY DEF IsTuple
<1>2. acc = [j \in 0..g |-> IF j = 0 THEN Blank(nd) ELSE PlaceItem(acc[j - 1], t[j], nd, g)]
  <2>1. \E f : Lists(f, t, nd, g, g)
    <3> HIDE DEF g
    <3> QED BY <1>1, AccExists
  <2>2. Lists(ListOf(t, nd), t, nd, g, g)
    BY <2>1 DEF ListOf
  <2> QED BY <2>2 DEF Lists
<1>3. Unellipsify(t, nd) =
        IF \A j \in 1..g : IsEllipsis(t[j]) \/ acc[j - 1].idx \in -nd..(nd - 1)
        THEN {[items |-> acc[g].items, slices |-> acc[g].slices \/ acc[g].idx # nd]}
        ELSE {}
  BY DEF Unellipsify, ListOf, Lists, Blank, IsEllipsis
<1> HIDE DEF acc, g
<1>4. acc[0] = Blank(nd)
  <2>1. 0 \in 0..g
    BY <1>1
  <2> QED BY <1>2, <2>1
<1>5. ASSUME NEW j \in Nat, j < g PROVE acc[j + 1] = PlaceItem(acc[j], t[j + 1], nd, g)
  <2>1. j + 1 \in 0..g /\ j + 1 # 0 /\ j + 1 - 1 = j
    BY <1>1, <1>5
  <2> QED BY <1>2, <2>1
<1> QED BY <1>1, <1>3, <1>4, <1>5 DEF acc, g

\* The items of a tuple that are not "...".
ItemsOf(t) == { t[l] : l \in { l \in DOMAIN t : ~IsEllipsis(t[l]) } }

IsList(acc, t, nd) ==
    /\ acc = [idx |-> acc.idx, seen |-> acc.seen, slices |-> acc.slices, items |-> acc.items]
    /\ acc.idx \in Int /\ acc.seen \in BOOLEAN /\ acc.slices \in BOOLEAN
    /\ acc.items \in [1..nd -> {All} \union ItemsOf(t)]

\* One step of the walk over the tuple.
Placed(acc, t, j, nd, g) ==
    /\ IsList(PlaceItem(acc, t[j], nd, g), t, nd)
    /\ IsEllipsis(t[j]) =>
         /\ PlaceItem(acc, t[j], nd, g).idx = acc.idx + 1 + (IF acc.seen THEN 0 ELSE nd - g)
         /\ PlaceItem(acc, t[j], nd, g).seen = TRUE
         /\ PlaceItem(acc, t[j], nd, g).slices = TRUE
         /\ PlaceItem(acc, t[j], nd, g).items = acc.items
    /\ ~IsEllipsis(t[j]) =>
         /\ PlaceItem(acc, t[j], nd, g).idx = acc.idx + 1
         /\ PlaceItem(acc, t[j], nd, g).seen = acc.seen
         /\ PlaceItem(acc, t[j], nd, g).slices = (acc.slices \/ t[j].kind = "slice")
         /\ PlaceItem(acc, t[j], nd, g).items = [acc.items EXCEPT ![Slot(acc.idx, nd)] = t[j]]

\* What placing an item does to the list.
LEMMA PlaceIs ==
    ASSUME NEW t, NEW nd \in Nat, NEW g \in Nat, NEW acc, IsList(acc, t, nd),
           NEW j \in DOMAIN t
    PROVE  Placed(acc, t, j, nd, g)
<1> DEFINE item == t[j]
           new == PlaceItem(acc, item, nd, g)
<1>1. acc = [idx |-> acc.idx, seen |-> acc.seen, slices |-> acc.slices, items |-> acc.items]
      /\ acc.idx \in Int /\ acc.seen \in BOOLEAN /\ acc.slices \in BOOLEAN
      /\ acc.items \in [1..nd -> {All} \union ItemsOf(t)]
  BY DEF IsList
<1>2. CASE IsEllipsis(item)
  <2> DEFINE i == acc.idx + 1 + (IF acc.seen THEN 0 ELSE nd - g)
             x == [acc EXCEPT !.idx = i]
             yes == TRUE
             y == [x EXCEPT !.seen = yes]
  <2>1. new = [y EXCEPT !.slices = yes]
    BY <1>2 DEF PlaceItem, IsEllipsis
  <2>2. i \in Int
    BY <1>1
  <2> HIDE DEF i, new, yes
  <2>3. x = [idx |-> i, seen |-> acc.seen, slices |-> acc.slices, items |-> acc.items]
    BY <1>1
  <2> HIDE DEF x
  <2>4. y = [idx |-> i, seen |-> yes, slices |-> acc.slices, items |-> acc.items]
    BY <2>3
  <2> HIDE DEF y
  <2>5. new = [idx |-> i, seen |-> yes, slices |-> yes, items |-> acc.items]
    BY <2>1, <2>4
  <2>6. IsList(new, t, nd)
    BY <2>5, <2>2, <1>1 DEF IsList, yes
  <2> QED BY <1>2, <2>5, <2>6 DEF i, new, yes, Placed
<1>3. CASE ~IsEllipsis(item)
  <2> DEFINE i == acc.idx + 1
             p == Slot(acc.idx, nd)
             its == [acc.items EXCEPT ![p] = item]
             s == acc.slices \/ item.kind = "slice"
             x == [acc EXCEPT !.items[p] = item]
             y == [x EXCEPT !.idx = i]
  <2>1. new = [y EXCEPT !.slices = s]
    BY <1>3, <1>1 DEF PlaceItem, IsEllipsis
  <2>2. i \in Int /\ s \in BOOLEAN
    BY <1>1
  <2>3. item \in ItemsOf(t)
    BY <1>3 DEF ItemsOf
  <2>4. its \in [1..nd -> {All} \union ItemsOf(t)]
    <3> HIDE DEF item, p
    <3> QED BY <2>3, <1>1
  <2>5. x = [acc EXCEPT !.items = its]
    OBVIOUS
  <2> HIDE DEF i, new, its, s, x
  <2>6. x = [idx |-> acc.idx, seen |-> acc.seen, slices |-> acc.slices, items |-> its]
    BY <2>5, <1>1
  <2>7. y = [idx |-> i, seen |-> acc.seen, slices |-> acc.slices, items |-> its]
    BY <2>6
  <2> HIDE DEF y
  <2>8. new = [idx |-> i, seen |-> acc.seen, slices |-> s, items |-> its]
    BY <2>1, <2>7
  <2>9. IsList(new, t, nd)
    BY <2>8, <2>2, <2>4, <1>1 DEF IsList
  <2> QED BY <1>3, <2>8, <2>9 DEF i, new, its, s, Placed
<1> QED BY <1>2, <1>3

\* What the list says after the first j items, whatever the tuple.
LEMMA ListHas ==
    ASSUME NEW t, IsTuple(t), NEW nd \in Nat
    PROVE  \A j \in 0..Len(t) :
             /\ IsList(ListOf(t, nd)[j], t, nd)
             /\ ListOf(t, nd)[j].seen <=> \E l \in 1..j : IsEllipsis(t[l])
             /\ ListOf(t, nd)[j].slices <=> \E l \in 1..j : t[l].kind # "index"
             /\ ~ListOf(t, nd)[j].seen => ListOf(t, nd)[j].idx = j
<1> DEFINE acc == ListOf(t, nd)
           g == Len(t)
           Good(j) == /\ IsList(acc[j], t, nd)
                      /\ acc[j].seen <=> \E l \in 1..j : IsEllipsis(t[l])
                      /\ acc[j].slices <=> \E l \in 1..j : t[l].kind # "index"
                      /\ ~acc[j].seen => acc[j].idx = j
           T == {j \in Nat : j <= g => Good(j)}
<1>1. /\ g \in Nat /\ DOMAIN t = 1..g /\ acc[0] = Blank(nd)
      /\ \A j \in Nat : j < g => acc[j + 1] = PlaceItem(acc[j], t[j + 1], nd, g)
  BY ListIs
<1>2. \A j \in 1..g : (IsEllipsis(t[j]) => t[j].kind # "index")
                      /\ (~IsEllipsis(t[j]) => t[j].kind \in {"index", "slice"})
  BY <1>1, IndexItemIs DEF IsTuple
<1> HIDE DEF acc, g
<1>3. 0 \in T
  <2>1. IsList(Blank(nd), t, nd)
    <3> DEFINE its == [k \in 1..nd |-> All]
    <3>1. Blank(nd) = [idx |-> 0, seen |-> FALSE, slices |-> FALSE, items |-> its]
      BY DEF Blank
    <3>2. its \in [1..nd -> {All} \union ItemsOf(t)]
      OBVIOUS
    <3> HIDE DEF its
    <3> QED BY <3>1, <3>2 DEF IsList
  <2>2. Blank(nd).idx = 0 /\ Blank(nd).seen = FALSE /\ Blank(nd).slices = FALSE
    BY DEF Blank
  <2>3. Good(0)
    BY <2>1, <2>2, <1>1
  <2> HIDE DEF Good
  <2> QED BY <2>3
<1>4. ASSUME NEW j \in Nat, j \in T PROVE j + 1 \in T
  <2>1. SUFFICES ASSUME j + 1 <= g PROVE Good(j + 1)
    <3> HIDE DEF Good
    <3> QED BY <2>1
  <2>2. Good(j) /\ j < g /\ j + 1 \in 1..g /\ j + 1 \in DOMAIN t
    <3> HIDE DEF Good
    <3> QED BY <1>1, <1>4, <2>1
  <2> DEFINE new == PlaceItem(acc[j], t[j + 1], nd, g)
  <2>3. acc[j + 1] = new
    BY <1>1, <2>2
  <2>4. /\ IsList(new, t, nd)
        /\ IsEllipsis(t[j + 1]) => new.seen = TRUE /\ new.slices = TRUE
        /\ ~IsEllipsis(t[j + 1]) =>
              /\ new.idx = acc[j].idx + 1
              /\ new.seen = acc[j].seen /\ new.slices = (acc[j].slices \/ t[j + 1].kind = "slice")
    <3> DEFINE a == acc[j]
               k == j + 1
    <3>1. IsList(a, t, nd) /\ k \in DOMAIN t
      BY <2>2
    <3> HIDE DEF a, k
    <3>2. /\ IsList(PlaceItem(a, t[k], nd, g), t, nd)
          /\ IsEllipsis(t[k]) =>
                PlaceItem(a, t[k], nd, g).seen = TRUE /\ PlaceItem(a, t[k], nd, g).slices = TRUE
          /\ ~IsEllipsis(t[k]) =>
                /\ PlaceItem(a, t[k], nd, g).idx = a.idx + 1
                /\ PlaceItem(a, t[k], nd, g).seen = a.seen
                /\ PlaceItem(a, t[k], nd, g).slices = (a.slices \/ t[k].kind = "slice")
      <4>1. Placed(a, t, k, nd, g)
        BY <3>1, <1>1, PlaceIs
      <4> QED BY <4>1 DEF Placed
    <3> QED BY <3>2 DEF a, k
  <2> HIDE DEF new
  <2>5. \A l : l \in 1..(j + 1) <=> l \in 1..j \/ l = j + 1
    OBVIOUS
  <2>6. acc[j].seen \in BOOLEAN /\ acc[j].slices \in BOOLEAN /\ new.seen \in BOOLEAN /\ new.slices \in BOOLEAN
    BY <2>2, <2>4 DEF IsList
  <2>7. CASE IsEllipsis(t[j + 1])
    <3>1. t[j + 1].kind # "index" /\ j + 1 \in 1..(j + 1)
      BY <2>7, <1>2, <2>2
    <3>2. (\E l \in 1..(j + 1) : IsEllipsis(t[l])) /\ \E l \in 1..(j + 1) : t[l].kind # "index"
      BY <3>1, <2>7
    <3> QED BY <2>3, <2>4, <2>7, <3>2
  <2>8. CASE ~IsEllipsis(t[j + 1])
    <3>1. t[j + 1].kind \in {"index", "slice"}
      BY <2>8, <1>2, <2>2
    <3>2. (\E l \in 1..(j + 1) : IsEllipsis(t[l])) <=> \E l \in 1..j : IsEllipsis(t[l])
      BY <2>5, <2>8
    <3>3. (\E l \in 1..(j + 1) : t[l].kind # "index")
             <=> (\E l \in 1..j : t[l].kind # "index") \/ t[j + 1].kind # "index"
      BY <2>5
    <3>4. new.slices <=> \E l \in 1..(j + 1) : t[l].kind # "index"
      BY <2>2, <2>4, <2>6, <2>8, <3>1, <3>3
    <3>5. new.seen <=> \E l \in 1..(j + 1) : IsEllipsis(t[l])
      BY <2>2, <2>4, <2>6, <2>8, <3>2
    <3>6. ~new.seen => new.idx = j + 1
      BY <2>2, <2>4, <2>6, <2>8
    <3> QED BY <2>3, <2>4, <3>4, <3>5, <3>6
  <2> QED BY <2>7, <2>8
<1>5. \A j \in Nat : j \in T
  <2> HIDE DEF T
  <2> QED BY <1>3, <1>4, Induct
<1>6. \A j \in 0..g : Good(j)
  <2> HIDE DEF Good
  <2> QED BY <1>1, <1>5
<1> QED BY <1>6 DEF acc, g

\* What the list is after the first j items of a tuple with one meaning: "b"
\* items come before the "...", if there is one.
PlainItems(t, nd, b, j) ==
    [k \in 1..nd |->
        IF k <= b THEN IF k <= j THEN t[k] ELSE All
        ELSE IF k - nd + Len(t) > b + 1 /\ k - nd + Len(t) <= j THEN t[k - nd + Len(t)] ELSE All]

IsPlainTuple(t, nd, b) ==
    /\ b \in 0..Len(t) /\ Len(t) - nd <= (IF b = Len(t) THEN 0 ELSE 1)
    /\ \A l \in 1..Len(t) : IsEllipsis(t[l]) <=> l = b + 1

\* The lists of a tuple that has one meaning.
LEMMA PlainListIs ==
    ASSUME NEW t, IsTuple(t), NEW nd \in Nat, NEW b, IsPlainTuple(t, nd, b)
    PROVE  \A j \in 0..Len(t) :
             /\ ListOf(t, nd)[j].idx = IF j <= b THEN j ELSE j + nd - Len(t)
             /\ ListOf(t, nd)[j].items = PlainItems(t, nd, b, j)
<1> DEFINE acc == ListOf(t, nd)
           g == Len(t)
           Good(j) == /\ acc[j].idx = IF j <= b THEN j ELSE j + nd - g
                      /\ acc[j].items = PlainItems(t, nd, b, j)
           T == {j \in Nat : j <= g => Good(j)}
<1>1. /\ g \in Nat /\ DOMAIN t = 1..g /\ acc[0] = Blank(nd)
      /\ \A j \in Nat : j < g => acc[j + 1] = PlaceItem(acc[j], t[j + 1], nd, g)
  BY ListIs
<1>2. /\ \A j \in 0..g : IsList(acc[j], t, nd)
      /\ \A j \in 0..g : acc[j].seen <=> \E l \in 1..j : IsEllipsis(t[l])
  BY ListHas
<1>3. /\ b \in 0..g /\ g - nd <= (IF b = g THEN 0 ELSE 1)
      /\ \A l \in 1..g : IsEllipsis(t[l]) <=> l = b + 1
  BY DEF IsPlainTuple
<1>4. \A j : PlainItems(t, nd, b, j) =
          [k \in 1..nd |->
              IF k <= b THEN IF k <= j THEN t[k] ELSE All
              ELSE IF k - nd + g > b + 1 /\ k - nd + g <= j THEN t[k - nd + g] ELSE All]
  BY DEF PlainItems
<1> HIDE DEF acc, g
<1>5. 0 \in T
  <2>1. Blank(nd).idx = 0 /\ Blank(nd).items = [k \in 1..nd |-> All]
    BY DEF Blank
  <2>2. PlainItems(t, nd, b, 0) = [k \in 1..nd |-> All]
    <3>1. \A k \in 1..nd :
             (IF k <= b THEN IF k <= 0 THEN t[k] ELSE All
              ELSE IF k - nd + g > b + 1 /\ k - nd + g <= 0 THEN t[k - nd + g] ELSE All) = All
      BY <1>1, <1>3
    <3> QED BY <3>1, <1>4
  <2> QED BY <2>1, <2>2, <1>1, <1>3
<1>6. ASSUME NEW j \in Nat, j \in T PROVE j + 1 \in T
  <2>1. SUFFICES ASSUME j + 1 <= g PROVE Good(j + 1)
    <3> HIDE DEF Good
    <3> QED BY <2>1
  <2>2. Good(j) /\ j < g /\ j + 1 \in 1..g /\ j + 1 \in DOMAIN t /\ j \in 0..g
    <3> HIDE DEF Good
    <3> QED BY <1>1, <1>6, <2>1
  <2> DEFINE a == acc[j]
             m == j + 1
             new == PlaceItem(a, t[m], nd, g)
  <2>3. acc[j + 1] = new
    BY <1>1, <2>2
  <2>4. IsList(a, t, nd) /\ m \in DOMAIN t /\ m \in 1..g
    BY <1>2, <2>2
  <2>5. a.seen <=> \E l \in 1..j : IsEllipsis(t[l])
    BY <1>2, <2>2
  <2>6. a.idx = (IF j <= b THEN j ELSE j + nd - g) /\ a.items = PlainItems(t, nd, b, j)
    BY <2>2
  <2>7. m = j + 1
    OBVIOUS
  <2> HIDE DEF a, m
  <2>8. IsEllipsis(t[m]) => /\ new.idx = a.idx + 1 + (IF a.seen THEN 0 ELSE nd - g)
                            /\ new.items = a.items
    <3>1. Placed(a, t, m, nd, g)
      BY <2>4, <1>1, PlaceIs
    <3> QED BY <3>1 DEF Placed
  <2>9. ~IsEllipsis(t[m]) => /\ new.idx = a.idx + 1
                             /\ new.items = [a.items EXCEPT ![Slot(a.idx, nd)] = t[m]]
    <3>1. Placed(a, t, m, nd, g)
      BY <2>4, <1>1, PlaceIs
    <3> QED BY <3>1 DEF Placed
  <2> HIDE DEF new
  <2>10. new.idx = (IF m <= b THEN m ELSE m + nd - g) /\ new.items = PlainItems(t, nd, b, m)
    <3>1. CASE m = b + 1
      <4>1. IsEllipsis(t[m]) /\ j <= b
        BY <3>1, <1>3, <2>4, <2>7
      <4>2. ~a.seen
        BY <2>5, <3>1, <1>3, <2>7, <2>4, <1>1
      <4>3. new.idx = j + 1 + (nd - g)
        BY <2>6, <2>8, <4>1, <4>2
      <4>4. new.items = PlainItems(t, nd, b, j)
        BY <2>6, <2>8, <4>1
      <4>5. PlainItems(t, nd, b, j) = PlainItems(t, nd, b, m)
        <5>1. \A k \in 1..nd :
                 /\ k <= b => (k <= j <=> k <= m)
                 /\ (k - nd + g > b + 1 /\ k - nd + g <= j) <=> (k - nd + g > b + 1 /\ k - nd + g <= m)
          BY <1>1, <1>3, <2>7, <3>1
        <5> QED BY <5>1, <1>4
      <4> QED BY <4>3, <4>4, <4>5, <3>1, <2>7, <1>1, <1>3
    <3>2. CASE m <= b
      <4>1. ~IsEllipsis(t[m]) /\ a.idx = j
        BY <3>2, <1>3, <2>4, <2>6, <2>7
      <4>2. Slot(a.idx, nd) = m
        BY <4>1, <2>7 DEF Slot
      <4>3. new.idx = m /\ new.items = [PlainItems(t, nd, b, j) EXCEPT ![m] = t[m]]
        BY <2>6, <2>9, <4>1, <4>2, <2>7
      <4>4. [PlainItems(t, nd, b, j) EXCEPT ![m] = t[m]] = PlainItems(t, nd, b, m)
        <5>1. \A k \in 1..nd :
                 (IF k = m THEN t[m]
                  ELSE IF k <= b THEN IF k <= j THEN t[k] ELSE All
                  ELSE IF k - nd + g > b + 1 /\ k - nd + g <= j THEN t[k - nd + g] ELSE All)
                 = (IF k <= b THEN IF k <= m THEN t[k] ELSE All
                    ELSE IF k - nd + g > b + 1 /\ k - nd + g <= m THEN t[k - nd + g] ELSE All)
          <6> TAKE k \in 1..nd
          <6>1. CASE k = m
            BY <6>1, <3>2
          <6>2. CASE k # m /\ k <= b
            BY <6>2, <2>7
          <6>3. CASE k # m /\ ~(k <= b)
            <7>1. ~(k - nd + g > b + 1 /\ k - nd + g <= m)
              BY <3>2, <1>1, <1>3, <2>7
            <7>2. ~(k - nd + g > b + 1 /\ k - nd + g <= j)
              BY <3>2, <1>1, <1>3, <2>7
            <7> QED BY <6>3, <7>1, <7>2
          <6> QED BY <6>1, <6>2, <6>3
        <5> QED BY <5>1, <1>4
      <4> QED BY <4>3, <4>4, <3>2
    <3>3. CASE m > b + 1
      <4>1. ~IsEllipsis(t[m]) /\ a.idx = j + nd - g /\ b # g
        BY <3>3, <1>1, <1>3, <2>4, <2>6, <2>7
      <4>2. a.idx >= 0 /\ a.idx \in Int
        BY <4>1, <3>3, <1>1, <1>3, <2>7
      <4>3. Slot(a.idx, nd) = m + nd - g
        BY <4>1, <4>2, <2>7, <1>1 DEF Slot
      <4>4. new.idx = m + nd - g /\ new.items = [PlainItems(t, nd, b, j) EXCEPT ![m + nd - g] = t[m]]
        <5>1. new.idx = a.idx + 1 /\ new.items = [a.items EXCEPT ![m + nd - g] = t[m]]
          BY <2>9, <4>1, <4>3
        <5>2. a.idx + 1 = m + nd - g
          BY <4>1, <2>7, <1>1
        <5> QED BY <5>1, <5>2, <2>6
      <4>5. [PlainItems(t, nd, b, j) EXCEPT ![m + nd - g] = t[m]] = PlainItems(t, nd, b, m)
        <5>1. \A k \in 1..nd :
                 (IF k = m + nd - g THEN t[m]
                  ELSE IF k <= b THEN IF k <= j THEN t[k] ELSE All
                  ELSE IF k - nd + g > b + 1 /\ k - nd + g <= j THEN t[k - nd + g] ELSE All)
                 = (IF k <= b THEN IF k <= m THEN t[k] ELSE All
                    ELSE IF k - nd + g > b + 1 /\ k - nd + g <= m THEN t[k - nd + g] ELSE All)
          <6> TAKE k \in 1..nd
          <6>1. CASE k = m + nd - g
            <7>1. k - nd + g = m /\ m > b + 1 /\ ~(k <= b) /\ m <= m
              BY <6>1, <3>3, <4>1, <1>1, <1>3, <2>4, <2>7
            <7> DEFINE x == k - nd + g
            <7>2. x = m
              BY <7>1
            <7> HIDE DEF x
            <7>3. (IF k <= b THEN IF k <= m THEN t[k] ELSE All
                   ELSE IF x > b + 1 /\ x <= m THEN t[x] ELSE All) = t[m]
              BY <7>1, <7>2
            <7> QED BY <6>1, <7>3 DEF x
          <6>2. CASE k # m + nd - g /\ k <= b
            BY <6>2, <2>7, <3>3, <1>3, <1>1
          <6>3. CASE k # m + nd - g /\ ~(k <= b)
            <7>1. k - nd + g <= j <=> k - nd + g <= m
              BY <6>3, <1>1, <2>7, <2>4
            <7> QED BY <6>3, <7>1
          <6> QED BY <6>1, <6>2, <6>3
        <5>2. DOMAIN PlainItems(t, nd, b, j) = 1..nd
          BY <1>4
        <5> QED BY <5>1, <5>2, <1>4
      <4> QED BY <4>4, <4>5, <3>3, <1>3, <1>1, <2>7
    <3> QED BY <3>1, <3>2, <3>3, <1>3, <2>4, <1>1
  <2> QED BY <2>3, <2>7, <2>10
<1>7. \A j \in Nat : j \in T
  <2> HIDE DEF T
  <2> QED BY <1>5, <1>6, Induct
<1>8. \A j \in 0..g : Good(j)
  <2> HIDE DEF Good
  <2> QED BY <1>1, <1>7
<1> QED BY <1>8 DEF acc, g

IsItemOf(index, nd) == Len(index) = nd /\ \A k \in 1..Len(index) : index[k].kind = "index"

\* Which items are "...".
LEMMA DotsAre ==
    ASSUME NEW t, IsTuple(t)
    PROVE  Promised!DotsOf(t) = { l \in 1..Len(t) : IsEllipsis(t[l]) }
<1>1. DOMAIN t = 1..Len(t)
  BY DEF IsTuple
<1>2. \A l \in 1..Len(t) : Promised!IsDots(t[l]) <=> IsEllipsis(t[l])
  BY <1>1, IndexItemIs DEF IsTuple
<1> QED BY <1>1, <1>2 DEF Promised!DotsOf

\* How many items come before the "...".
BeforeDots(t) ==
    IF Promised!DotsOf(t) = {} THEN Len(t) ELSE (CHOOSE j \in Promised!DotsOf(t) : TRUE) - 1

\* A tuple with one meaning has at most one "..." and room for its items.
LEMMA PlainTuple ==
    ASSUME NEW t, IsTuple(t), NEW nd \in Nat, Promised!IsPlain(t, nd)
    PROVE  /\ IsPlainTuple(t, nd, BeforeDots(t))
           /\ (BeforeDots(t) = Len(t)) = (Promised!DotsOf(t) = {})
<1> DEFINE g == Len(t)
           D == Promised!DotsOf(t)
           b == BeforeDots(t)
<1>1. g \in Nat /\ D = { l \in 1..g : IsEllipsis(t[l]) }
  BY ListIs, DotsAre
<1>2. (\A j, l \in D : j = l) /\ g <= (IF D = {} THEN nd ELSE nd + 1)
  BY DEF Promised!IsPlain
<1>3. b = IF D = {} THEN g ELSE (CHOOSE j \in D : TRUE) - 1
  BY DEF BeforeDots
<1> HIDE DEF g, D, b
<1>4. CASE D = {}
  <2>1. b = g /\ g - nd <= 0 /\ \A l \in 1..g : ~IsEllipsis(t[l])
    BY <1>1, <1>2, <1>3, <1>4
  <2>2. \A l \in 1..g : l # b + 1
    BY <2>1, <1>1
  <2>3. IsPlainTuple(t, nd, b)
    BY <2>1, <2>2, <1>1 DEF IsPlainTuple, g
  <2> QED BY <2>1, <2>3, <1>4 DEF b, g, D
<1>5. CASE D # {}
  <2> DEFINE d == CHOOSE j \in D : TRUE
  <2>1. d \in D
    BY <1>5
  <2>2. b = d - 1
    BY <1>3, <1>5
  <2> HIDE DEF d
  <2>3. d \in 1..g /\ \A l \in 1..g : IsEllipsis(t[l]) <=> l = d
    BY <1>1, <1>2, <2>1
  <2>4. b \in 0..g /\ b # g /\ b + 1 = d
    BY <2>2, <2>3, <1>1
  <2>5. g - nd <= 1
    BY <1>1, <1>2, <1>5
  <2>6. IsPlainTuple(t, nd, b)
    BY <2>3, <2>4, <2>5 DEF IsPlainTuple, g
  <2> QED BY <2>4, <2>6, <1>5 DEF b, g, D
<1> QED BY <1>4, <1>5

\* What the specification makes of a tuple with one meaning.
LEMMA ExpandedIs ==
    ASSUME NEW t, IsTuple(t), NEW nd \in Nat, Promised!IsPlain(t, nd)
    PROVE  Promised!Expanded(t, nd) = PlainItems(t, nd, BeforeDots(t), Len(t))
<1> DEFINE g == Len(t)
           b == BeforeDots(t)
           after == IF Promised!DotsOf(t) = {} THEN 0 ELSE g - b - 1
<1>1. g \in Nat /\ b \in 0..g /\ g - nd <= (IF b = g THEN 0 ELSE 1)
      /\ (b = g) = (Promised!DotsOf(t) = {})
  BY ListIs, PlainTuple DEF IsPlainTuple
<1>2. Promised!Expanded(t, nd) =
        [k \in 1..nd |-> IF k <= b THEN t[k] ELSE IF k > nd - after THEN t[k - nd + g] ELSE All]
  BY AllIs DEF Promised!Expanded, BeforeDots
<1>3. PlainItems(t, nd, b, g) =
        [k \in 1..nd |->
            IF k <= b THEN IF k <= g THEN t[k] ELSE All
            ELSE IF k - nd + g > b + 1 /\ k - nd + g <= g THEN t[k - nd + g] ELSE All]
  BY DEF PlainItems
<1>4. after = IF b = g THEN 0 ELSE g - b - 1
  BY <1>1
<1> HIDE DEF g, b, after
<1>5. ASSUME NEW k \in 1..nd
      PROVE  /\ k <= b => k <= g
             /\ ~(k <= b) => (k > nd - after <=> k - nd + g > b + 1 /\ k - nd + g <= g)
  BY <1>1, <1>4
<1>6. \A k \in 1..nd :
        (IF k <= b THEN t[k] ELSE IF k > nd - after THEN t[k - nd + g] ELSE All)
        = (IF k <= b THEN IF k <= g THEN t[k] ELSE All
           ELSE IF k - nd + g > b + 1 /\ k - nd + g <= g THEN t[k - nd + g] ELSE All)
  BY <1>5
<1> QED BY <1>2, <1>3, <1>6 DEF g, b

\* A tuple with one meaning is read so.
LEMMA PlainFound ==
    ASSUME NEW t, IsTuple(t), NEW nd \in Nat, Promised!IsPlain(t, nd)
    PROVE  \E f : /\ Unellipsify(t, nd) = {f}
                  /\ f.items = Promised!Expanded(t, nd)
                  /\ f.slices <=> ~IsItemOf(t, nd)
<1> DEFINE g == Len(t)
           b == BeforeDots(t)
           acc == ListOf(t, nd)
           f == [items |-> acc[g].items, slices |-> acc[g].slices \/ acc[g].idx # nd]
<1>1. g \in Nat /\ b \in 0..g /\ g - nd <= (IF b = g THEN 0 ELSE 1)
      /\ \A l \in 1..g : IsEllipsis(t[l]) <=> l = b + 1
  BY ListIs, PlainTuple DEF IsPlainTuple
<1>2. \A j \in 0..g : /\ acc[j].idx = IF j <= b THEN j ELSE j + nd - g
                      /\ acc[j].items = PlainItems(t, nd, b, j)
  BY PlainTuple, PlainListIs
<1>3. Unellipsify(t, nd) =
        IF \A j \in 1..g : IsEllipsis(t[j]) \/ acc[j - 1].idx \in -nd..(nd - 1) THEN {f} ELSE {}
  BY ListIs
<1>4. acc[g].slices <=> \E l \in 1..g : t[l].kind # "index"
  <2>1. g \in 0..g
    BY <1>1
  <2> QED BY <2>1, ListHas
<1>5. \A l \in 1..g : IsEllipsis(t[l]) => t[l].kind # "index"
  BY IndexItemIs, ListIs DEF IsTuple
<1>6. f.items = acc[g].items /\ (f.slices <=> acc[g].slices \/ acc[g].idx # nd)
  OBVIOUS
<1> HIDE DEF acc, b, f
<1>7. ASSUME NEW j \in 1..g PROVE IsEllipsis(t[j]) \/ acc[j - 1].idx \in -nd..(nd - 1)
  <2> HIDE DEF g
  <2>1. j - 1 \in 0..g
    BY <1>1
  <2>2. acc[j - 1].idx = IF j - 1 <= b THEN j - 1 ELSE j - 1 + nd - g
    BY <2>1, <1>2
  <2>3. CASE j = b + 1
    BY <2>3, <1>1
  <2>4. CASE j <= b
    BY <2>2, <2>4, <1>1
  <2>5. CASE j > b + 1
    BY <2>2, <2>5, <1>1
  <2> QED BY <2>3, <2>4, <2>5, <1>1
<1>8. Unellipsify(t, nd) = {f}
  BY <1>3, <1>7
<1>9. f.items = Promised!Expanded(t, nd)
  <2>1. g \in 0..g
    BY <1>1
  <2>2. acc[g].items = PlainItems(t, nd, b, g)
    BY <2>1, <1>2
  <2> QED BY <2>2, <1>6, ExpandedIs DEF b
<1>10. f.slices <=> ~IsItemOf(t, nd)
  <2>1. acc[g].idx = IF g <= b THEN g ELSE nd
    <3>1. g \in 0..g
      BY <1>1
    <3>2. acc[g].idx = IF g <= b THEN g ELSE g + nd - g
      BY <1>2, <3>1
    <3> HIDE DEF g
    <3> QED BY <3>2, <1>1
  <2>2. CASE b = g
    <3>1. acc[g].idx = g
      BY <2>1, <2>2, <1>1
    <3> QED BY <3>1, <1>4, <1>6 DEF IsItemOf
  <2>3. CASE b # g
    <3>1. b + 1 \in 1..g /\ IsEllipsis(t[b + 1])
      BY <2>3, <1>1
    <3>2. t[b + 1].kind # "index"
      BY <3>1, <1>5
    <3> QED BY <3>1, <3>2, <1>4, <1>6 DEF IsItemOf
  <2> QED BY <2>2, <2>3
<1> QED BY <1>8, <1>9, <1>10

\* Any other tuple is refused or read as some choice of its items, and never as
\* a single element.
LEMMA OtherFound ==
    ASSUME NEW t, IsTuple(t), NEW nd \in Nat, ~Promised!IsPlain(t, nd)
    PROVE  /\ ~IsItemOf(t, nd)
           /\ \A f \in Unellipsify(t, nd) :
                 f.items \in [1..nd -> {All} \union ItemsOf(t)] /\ f.slices
<1> DEFINE g == Len(t)
           acc == ListOf(t, nd)
           D == Promised!DotsOf(t)
           f == [items |-> acc[g].items, slices |-> acc[g].slices \/ acc[g].idx # nd]
<1>1. g \in Nat /\ D = { l \in 1..g : IsEllipsis(t[l]) }
  BY ListIs, DotsAre
<1>2. Unellipsify(t, nd) =
        IF \A j \in 1..g : IsEllipsis(t[j]) \/ acc[j - 1].idx \in -nd..(nd - 1) THEN {f} ELSE {}
  BY ListIs
<1>3. /\ IsList(acc[g], t, nd)
      /\ acc[g].seen <=> \E l \in 1..g : IsEllipsis(t[l])
      /\ acc[g].slices <=> \E l \in 1..g : t[l].kind # "index"
      /\ ~acc[g].seen => acc[g].idx = g
  <2>1. g \in 0..g
    BY <1>1
  <2> QED BY <2>1, ListHas
<1>4. \A l \in 1..g : IsEllipsis(t[l]) => t[l].kind # "index"
  BY IndexItemIs, ListIs DEF IsTuple
<1>5. f.items = acc[g].items /\ (f.slices <=> acc[g].slices \/ acc[g].idx # nd)
  OBVIOUS
<1>6. D # {} \/ g > nd
  BY <1>1 DEF Promised!IsPlain
<1> HIDE DEF acc, f, D
<1>7. (\E l \in 1..g : t[l].kind # "index") \/ g # nd
  BY <1>1, <1>4, <1>6
<1>8. ~IsItemOf(t, nd)
  BY <1>7 DEF IsItemOf
<1>9. f.slices
  <2>1. CASE \E l \in 1..g : t[l].kind # "index"
    BY <2>1, <1>3, <1>5
  <2>2. CASE \A l \in 1..g : t[l].kind = "index"
    <3>1. ~acc[g].seen
      BY <2>2, <1>3, <1>4
    <3>2. acc[g].idx = g /\ g # nd
      BY <3>1, <1>3, <1>7, <2>2
    <3> QED BY <3>2, <1>5
  <2> QED BY <2>1, <2>2
<1>10. f.items \in [1..nd -> {All} \union ItemsOf(t)]
  BY <1>3, <1>5 DEF IsList
<1> QED BY <1>2, <1>8, <1>9, <1>10

-----------------------------------------------------------------------------
(* What an index is read as.                                                *)

IsIndex(index) ==
    /\ index \in Seq(Range(index))
    /\ index = Bare \/ \A j \in DOMAIN index : IsIndexItem(index[j])

\* The items an axis of the index can get.
AxisItems(index) == {All} \union { index[j] : j \in DOMAIN index \ Promised!DotsOf(index) }

\* The index "..." by itself.
LEMMA BareIs ==
    /\ Len(Bare) = 1 /\ DOMAIN Bare = {1} /\ Bare[1].kind = "bare" /\ Promised!DotsOf(Bare) = {1}
    /\ Bare \in Seq(Range(Bare))
    /\ IsTuple(<<Dots>>) /\ Len(<<Dots>>) = 1 /\ Promised!DotsOf(<<Dots>>) = {1}
    /\ ItemsOf(<<Dots>>) = {}
    /\ ~IsIndexItem(Bare[1])
<1>1. Len(Bare) = 1 /\ DOMAIN Bare = {1} /\ Bare[1].kind = "bare" /\ Bare[1] = [kind |-> "bare"]
  BY DEF Bare
<1>2. Promised!DotsOf(Bare) = {1}
  BY <1>1 DEF Promised!DotsOf, Promised!IsDots
<1>3. Bare \in Seq(Range(Bare))
  BY <1>1 DEF Range, Bare
<1>4. Len(<<Dots>>) = 1 /\ DOMAIN <<Dots>> = {1} /\ <<Dots>>[1] = Dots
  OBVIOUS
<1>5. Dots.kind = "ellipsis" /\ IsIndexItem(Dots)
  BY DEF Dots, IsIndexItem
<1>6. IsTuple(<<Dots>>)
  <2>1. <<Dots>> \in Seq(Range(<<Dots>>))
    BY <1>4 DEF Range
  <2> QED BY <2>1, <1>4, <1>5 DEF IsTuple
<1>7. Promised!DotsOf(<<Dots>>) = {1}
  BY <1>4, <1>5 DEF Promised!DotsOf, Promised!IsDots
<1>8. ItemsOf(<<Dots>>) = {}
  BY <1>4, <1>5 DEF ItemsOf, IsEllipsis
<1>9. ~IsIndexItem(Bare[1])
  <2>1. Bare[1].kind # Dots.kind
    BY <1>1, <1>5
  <2> QED BY <2>1, <1>1 DEF IsIndexItem
<1> QED BY <1>1, <1>2, <1>3, <1>4, <1>6, <1>7, <1>8, <1>9

\* Whatever unellipsify finds is one of the meanings the specification allows.
LEMMA Found ==
    ASSUME NEW index, IsIndex(index), NEW nd \in Nat
    PROVE  /\ \A f \in Unellipsify(AsTuple(index), nd) :
                 /\ f.items \in Promised!Readings(index, nd)
                 /\ f.slices <=> ~IsItemOf(index, nd)
           /\ Promised!IsPlain(index, nd) => Unellipsify(AsTuple(index), nd) # {}
           /\ \A items \in Promised!Readings(index, nd) : items \in [1..nd -> AxisItems(index)]
           /\ \A item \in AxisItems(index) : IsAxisItem(item)
           /\ IsItemOf(index, nd) => Promised!IsPlain(index, nd)
<1>1. CASE index = Bare
  <2> DEFINE t == <<Dots>>
  <2>1. IsTuple(t) /\ Len(t) = 1 /\ Promised!DotsOf(t) = {1} /\ AsTuple(index) = t
        /\ Len(index) = 1 /\ DOMAIN index = {1} /\ index[1].kind = "bare" /\ Promised!DotsOf(index) = {1}
    BY <1>1, BareIs DEF AsTuple
  <2> HIDE DEF t
  <2>2. Promised!IsPlain(t, nd) /\ Promised!IsPlain(index, nd)
    BY <2>1 DEF Promised!IsPlain
  <2>3. (CHOOSE j \in {1} : TRUE) = 1
    OBVIOUS
  <2>4. Promised!Expanded(t, nd) = [k \in 1..nd |-> All] /\ Promised!Expanded(index, nd) = [k \in 1..nd |-> All]
    <3>1. \A k \in 1..nd : ~(k <= 0) /\ ~(k > nd - 0)
      OBVIOUS
    <3>2. Promised!Expanded(t, nd) = [k \in 1..nd |-> IF k <= 0 THEN t[k] ELSE IF k > nd - 0 THEN t[k - nd + 1] ELSE All]
      BY <2>1, <2>3, AllIs DEF Promised!Expanded
    <3>3. Promised!Expanded(index, nd) = [k \in 1..nd |-> IF k <= 0 THEN index[k] ELSE IF k > nd - 0 THEN index[k - nd + 1] ELSE All]
      BY <2>1, <2>3, AllIs DEF Promised!Expanded
    <3> QED BY <3>1, <3>2, <3>3
  <2>5. PICK f : /\ Unellipsify(t, nd) = {f} /\ f.items = Promised!Expanded(t, nd)
                 /\ f.slices <=> ~IsItemOf(t, nd)
    BY <2>1, <2>2, PlainFound
  <2>6. ~IsItemOf(t, nd) /\ ~IsItemOf(index, nd)
    <3>1. t[1].kind # "index" /\ index[1].kind # "index" /\ 1 \in 1..1
      BY <2>1 DEF Dots, t
    <3> QED BY <3>1, <2>1 DEF IsItemOf
  <2>7. Promised!Readings(index, nd) = {Promised!Expanded(index, nd)}
    BY <2>2 DEF Promised!Readings
  <2>8. AxisItems(index) = {All}
    BY <2>1 DEF AxisItems
  <2> QED BY <2>1, <2>2, <2>4, <2>5, <2>6, <2>7, <2>8, AllIs
<1>2. CASE index # Bare
  <2>1. IsTuple(index) /\ AsTuple(index) = index
    BY <1>2 DEF IsIndex, IsTuple, AsTuple
  <2> DEFINE g == Len(index)
  <2>2. g \in Nat /\ DOMAIN index = 1..g /\ Promised!DotsOf(index) = { l \in 1..g : IsEllipsis(index[l]) }
    BY <2>1, ListIs, DotsAre
  <2>3. AxisItems(index) = {All} \union ItemsOf(index)
    BY <2>2 DEF AxisItems, ItemsOf
  <2>4. \A item \in AxisItems(index) : IsAxisItem(item)
    BY <2>1, <2>2, AllIs, IndexItemIs DEF AxisItems, IsTuple
  <2>5. CASE Promised!IsPlain(index, nd)
    <3>1. PICK f : /\ Unellipsify(index, nd) = {f} /\ f.items = Promised!Expanded(index, nd)
                   /\ f.slices <=> ~IsItemOf(index, nd)
      BY <2>1, <2>5, PlainFound
    <3>2. Promised!Readings(index, nd) = {Promised!Expanded(index, nd)}
      BY <2>5 DEF Promised!Readings
    <3>3. Promised!Expanded(index, nd) \in [1..nd -> AxisItems(index)]
      <4> DEFINE b == BeforeDots(index)
                 e == PlainItems(index, nd, b, g)
      <4>1. Promised!Expanded(index, nd) = e
        BY <2>1, <2>5, ExpandedIs
      <4>2. b \in 0..g /\ \A l \in 1..g : IsEllipsis(index[l]) <=> l = b + 1
        BY <2>1, <2>5, PlainTuple DEF IsPlainTuple
      <4> HIDE DEF b, g
      <4>3. ASSUME NEW k \in 1..nd, NEW x \in 1..g, x # b + 1 PROVE index[x] \in AxisItems(index)
        BY <2>2, <4>2, <4>3 DEF AxisItems
      <4>4. \A k \in 1..nd :
              (IF k <= b THEN IF k <= g THEN index[k] ELSE All
               ELSE IF k - nd + g > b + 1 /\ k - nd + g <= g THEN index[k - nd + g] ELSE All)
              \in AxisItems(index)
        <5> TAKE k \in 1..nd
        <5>0. All \in AxisItems(index)
          BY DEF AxisItems
        <5>1. CASE k <= b
          <6>1. k \in 1..g /\ k # b + 1
            BY <5>1, <4>2, <2>2
          <6> QED BY <5>0, <5>1, <6>1, <4>3
        <5>2. CASE ~(k <= b) /\ k - nd + g > b + 1 /\ k - nd + g <= g
          <6> DEFINE x == k - nd + g
          <6>1. x \in 1..g /\ x # b + 1
            BY <5>2, <4>2, <2>2
          <6>2. index[x] \in AxisItems(index)
            <7> HIDE DEF x
            <7> QED BY <6>1, <4>3
          <6> QED BY <5>2, <6>2
        <5> QED BY <5>0, <5>1, <5>2
      <4>5. e = [k \in 1..nd |->
              IF k <= b THEN IF k <= g THEN index[k] ELSE All
              ELSE IF k - nd + g > b + 1 /\ k - nd + g <= g THEN index[k - nd + g] ELSE All]
        BY DEF PlainItems, g
      <4> HIDE DEF e
      <4> QED BY <4>1, <4>4, <4>5
    <3> QED BY <2>1, <2>4, <2>5, <3>1, <3>2, <3>3
  <2>6. CASE ~Promised!IsPlain(index, nd)
    <3>1. Promised!Readings(index, nd) = [1..nd -> AxisItems(index)]
      BY <2>6, AllIs DEF Promised!Readings, AxisItems
    <3>2. /\ ~IsItemOf(index, nd)
          /\ \A f \in Unellipsify(index, nd) :
                f.items \in [1..nd -> {All} \union ItemsOf(index)] /\ f.slices
      BY <2>1, <2>6, OtherFound
    <3> QED BY <2>1, <2>3, <2>4, <2>6, <3>1, <3>2
  <2> QED BY <2>5, <2>6
<1> QED BY <1>1, <1>2

-----------------------------------------------------------------------------
(* Slices of n axes as a copy sees them.                                    *)

Strided(s, n) ==
    /\ n \in Nat /\ s.data \in Int /\ s.shape \in Seq(Nat) /\ Len(s.shape) = n
    /\ DOMAIN s.strides = 1..n /\ \A k \in 1..n : s.strides[k] \in Int

\* The address of an item of a strided slice.
LEMMA StridedItem ==
    ASSUME NEW n, NEW s, Strided(s, n), NEW i, \A k \in 1..n : i[k] \in Int
    PROVE  /\ ItemAt(s, i) = s.data + SumTo(Terms(s, i), n) /\ ItemAt(s, i) \in Int
           /\ \A k \in 1..n : Terms(s, i)[k] = i[k] * s.strides[k] /\ Terms(s, i)[k] \in Int
           /\ SumTo(Terms(s, i), n) \in Int /\ Rank(s) = n
<1>1. Rank(s) = n /\ n \in Nat /\ s.data \in Int /\ \A k \in 1..n : s.strides[k] \in Int
  BY DEF Strided, Rank
<1>2. \A k \in 1..n : Terms(s, i)[k] = i[k] * s.strides[k] /\ Terms(s, i)[k] \in Int
  BY <1>1 DEF Terms
<1>3. n \in 0..n
  BY <1>1
<1>4. SumTo(Terms(s, i), n) \in Int
  BY <1>1, <1>2, <1>3, SumType
<1> QED BY <1>1, <1>2, <1>4, ItemAtIs

\* The items of a tuple of the shape are numbers.
LEMMA StridedTuple ==
    ASSUME NEW n, NEW s, Strided(s, n)
    PROVE  \A i : i \in Tuples(s.shape) <=> /\ i \in [1..n -> Nat]
                                            /\ \A k \in 1..n : i[k] < s.shape[k]
  BY TupleIs DEF Strided

\* A direct slice is strided.
LEMMA DirectStrided ==
    ASSUME NEW s, IsDirectSlice(s)
    PROVE  Strided(s, Rank(s))
  BY DirectSliceHas DEF Strided

-----------------------------------------------------------------------------
(* broadcast_leading.                                                       *)

LedStride(s) == IF s.strides = <<>> THEN 0 ELSE Head(s.strides)

\* What broadcast_leading makes of a direct slice.
LEMMA LedIs ==
    ASSUME NEW s, IsDirectSlice(s), NEW n \in Nat, Rank(s) <= n
    PROVE  /\ Strided(BroadcastLeading(s, n), n) /\ IsDirect(BroadcastLeading(s, n))
           /\ BroadcastLeading(s, n).data = s.data /\ BroadcastLeading(s, n).owner = s.owner
           /\ \A k \in 1..n :
                 /\ BroadcastLeading(s, n).shape[k] = IF k <= n - Rank(s) THEN 1 ELSE s.shape[k - (n - Rank(s))]
                 /\ BroadcastLeading(s, n).strides[k] = IF k <= n - Rank(s) THEN LedStride(s) ELSE s.strides[k - (n - Rank(s))]
           /\ BroadcastLeading(s, n) =
                [data |-> s.data, shape |-> BroadcastLeading(s, n).shape,
                 strides |-> BroadcastLeading(s, n).strides,
                 suboffsets |-> BroadcastLeading(s, n).suboffsets, owner |-> s.owner]
           /\ BroadcastLeading(s, n).suboffsets = Lead(s.suboffsets, n, -1)
<1> DEFINE r == Rank(s)
           d == n - r
           led == BroadcastLeading(s, n)
           sh == Lead(s.shape, n, 1)
           st == Lead(s.strides, n, LedStride(s))
           so == Lead(s.suboffsets, n, -1)
<1>1. /\ r \in Nat /\ d \in Nat /\ s.data \in Int
      /\ DOMAIN s.suboffsets = 1..r /\ Len(s.shape) = r /\ Len(s.strides) = r
      /\ DOMAIN s.shape = 1..r /\ DOMAIN s.strides = 1..r
      /\ \A k \in 1..r : s.shape[k] \in Nat /\ s.strides[k] \in Int /\ s.suboffsets[k] < 0
      /\ s = [data |-> s.data, shape |-> s.shape, strides |-> s.strides,
              suboffsets |-> s.suboffsets, owner |-> s.owner]
  BY DirectSliceHas
<1>2. Len(s.suboffsets) = r
  BY DEF IsDirectSlice, IsSlice
<1>3. LedStride(s) \in Int
  <2>1. CASE s.strides = <<>>
    BY <2>1 DEF LedStride
  <2>2. CASE s.strides # <<>>
    <3>1. s.strides \in Seq(Int)
      BY DEF IsDirectSlice, IsSlice
    <3>2. Head(s.strides) \in Int
      BY <3>1, <2>2
    <3> QED BY <3>2, <2>2 DEF LedStride
  <2> QED BY <2>1, <2>2
<1>4. led = [data |-> s.data, shape |-> sh, strides |-> st, suboffsets |-> so, owner |-> s.owner]
  <2> DEFINE x == [s EXCEPT !.shape = sh]
             y == [x EXCEPT !.strides = st]
  <2>1. led = [y EXCEPT !.suboffsets = so]
    BY <1>1 DEF BroadcastLeading, LedStride
  <2> HIDE DEF led, sh, st, so
  <2>2. x = [data |-> s.data, shape |-> sh, strides |-> s.strides,
             suboffsets |-> s.suboffsets, owner |-> s.owner]
    BY <1>1
  <2> HIDE DEF x
  <2>3. y = [data |-> s.data, shape |-> sh, strides |-> st,
             suboffsets |-> s.suboffsets, owner |-> s.owner]
    BY <2>2
  <2> HIDE DEF y
  <2> QED BY <2>1, <2>3
<1>5. /\ sh = [k \in 1..n |-> IF k <= d THEN 1 ELSE s.shape[k - d]]
      /\ st = [k \in 1..n |-> IF k <= d THEN LedStride(s) ELSE s.strides[k - d]]
      /\ so = [k \in 1..n |-> IF k <= d THEN -1 ELSE s.suboffsets[k - d]]
  BY <1>1, <1>2 DEF Lead
<1> HIDE DEF sh, st, so, led, r
<1>6. \A k \in 1..n : ~(k <= d) => k - d \in 1..r
  BY <1>1
<1> HIDE DEF d
<1>7. sh \in Seq(Nat) /\ Len(sh) = n
  <2>1. \A k \in 1..n : (IF k <= d THEN 1 ELSE s.shape[k - d]) \in Nat
    BY <1>1, <1>6
  <2>2. sh \in [1..n -> Nat]
    BY <2>1, <1>5
  <2> HIDE DEF sh
  <2> QED BY <2>2
<1>8. \A k \in 1..n : st[k] \in Int /\ so[k] < 0
  BY <1>1, <1>3, <1>5, <1>6
<1>9. DOMAIN st = 1..n
  BY <1>5
<1>10. Strided(led, n)
  BY <1>1, <1>4, <1>7, <1>8, <1>9 DEF Strided
<1>11. IsDirect(led)
  BY <1>4, <1>7, <1>8 DEF IsDirect, Rank
<1> QED BY <1>4, <1>5, <1>10, <1>11 DEF led, d, r, so

\* The tuples of a slice that has been led, and of the slice itself.
Dropped(i, d, r) == [k \in 1..r |-> i[k + d]]
Padded(j, d, n) == [k \in 1..n |-> IF k <= d THEN 0 ELSE j[k - d]]

\* An item of the slice with axes in front is an item of the slice.
LEMMA LedItem ==
    ASSUME NEW s, IsDirectSlice(s), NEW n \in Nat, Rank(s) <= n,
           NEW i \in Tuples(BroadcastLeading(s, n).shape)
    PROVE  /\ Dropped(i, n - Rank(s), Rank(s)) \in Tuples(s.shape)
           /\ ItemAt(BroadcastLeading(s, n), i) = ItemAt(s, Dropped(i, n - Rank(s), Rank(s)))
           /\ \A k \in 1..n : i[k] \in Nat /\ i[k] < BroadcastLeading(s, n).shape[k]
           /\ \A k \in 1..n : k <= n - Rank(s) => i[k] = 0
<1> DEFINE r == Rank(s)
           d == n - r
           led == BroadcastLeading(s, n)
           j == Dropped(i, d, r)
<1>1. /\ r \in Nat /\ d \in Nat /\ n = r + d /\ Strided(s, r) /\ Strided(led, n) /\ led.data = s.data
      /\ \A k \in 1..n : /\ led.shape[k] = IF k <= d THEN 1 ELSE s.shape[k - d]
                         /\ led.strides[k] = IF k <= d THEN LedStride(s) ELSE s.strides[k - d]
  BY LedIs, DirectStrided, DirectSliceHas
<1> HIDE DEF led
<1>2. i \in [1..n -> Nat] /\ \A k \in 1..n : i[k] < led.shape[k]
  BY <1>1, StridedTuple DEF led
<1>3. \A k \in 1..r : j[k] = i[k + d]
  BY DEF Dropped
<1>4. j = [k \in 1..r |-> j[k]]
  BY DEF Dropped
<1> HIDE DEF j, r, d
<1>5. ASSUME NEW k \in 1..r PROVE j[k] \in Nat /\ j[k] < s.shape[k] /\ led.strides[k + d] = s.strides[k]
  <2>1. k + d \in 1..n /\ ~(k + d <= d) /\ k + d - d = k
    BY <1>1
  <2> QED BY <2>1, <1>1, <1>2, <1>3
<1>6. j \in [1..r -> Nat]
  BY <1>4, <1>5
<1>7. j \in Tuples(s.shape)
  BY <1>1, <1>5, <1>6, StridedTuple
<1>8. \A k \in 1..n : k <= d => i[k] = 0
  <2> TAKE k \in 1..n
  <2>1. i[k] \in Nat /\ i[k] < led.shape[k]
    BY <1>2
  <2> QED BY <2>1, <1>1
<1>9. ItemAt(led, i) = ItemAt(s, j)
  <2>1. /\ ItemAt(led, i) = led.data + SumTo(Terms(led, i), n)
        /\ \A k \in 1..n : Terms(led, i)[k] = i[k] * led.strides[k] /\ led.strides[k] \in Int
    <3>1. \A k \in 1..n : i[k] \in Int
      BY <1>2
    <3>2. Strided(led, n)
      BY <1>1
    <3>3. \A k \in 1..n : led.strides[k] \in Int
      BY <3>2 DEF Strided
    <3>4. /\ ItemAt(led, i) = led.data + SumTo(Terms(led, i), n)
          /\ \A k \in 1..n : Terms(led, i)[k] = i[k] * led.strides[k]
      BY <3>1, <3>2, StridedItem
    <3> QED BY <3>3, <3>4
  <2>2. /\ ItemAt(s, j) = s.data + SumTo(Terms(s, j), r)
        /\ \A k \in 1..r : Terms(s, j)[k] = j[k] * s.strides[k] /\ Terms(s, j)[k] \in Int
    BY <1>1, <1>5, StridedItem
  <2>3. ASSUME NEW k \in 1..(r + d) PROVE Terms(led, i)[k] = IF k <= d THEN 0 ELSE Terms(s, j)[k - d]
    <3>1. k \in 1..n
      BY <1>1
    <3>2. CASE k <= d
      <4>1. i[k] = 0 /\ led.strides[k] \in Int
        BY <3>1, <3>2, <1>8, <2>1
      <4> QED BY <4>1, <3>1, <3>2, <2>1
    <3>3. CASE ~(k <= d)
      <4> DEFINE x == k - d
      <4>1. x \in 1..r /\ k = x + d
        BY <3>3, <1>1
      <4> HIDE DEF x
      <4>2. j[x] = i[k] /\ led.strides[k] = s.strides[x]
        BY <4>1, <1>3, <1>5
      <4> QED BY <4>1, <4>2, <3>1, <3>3, <2>1, <2>2 DEF x
    <3> QED BY <3>2, <3>3
  <2>4. SumTo(Terms(led, i), r + d) = SumTo(Terms(s, j), r)
    <3> DEFINE q == Terms(s, j)
               u == Terms(led, i)
    <3>1. r \in Nat /\ d \in Nat
      BY <1>1
    <3>2. \A k \in 1..r : q[k] \in Int
      BY <2>2
    <3>3. \A k \in 1..(r + d) : u[k] = IF k <= d THEN 0 ELSE q[k - d]
      BY <2>3
    <3> HIDE DEF q, u
    <3>4. SumTo(u, r + d) = SumTo(q, r)
      BY <3>1, <3>2, <3>3, SumLed
    <3> QED BY <3>4 DEF q, u
  <2> QED BY <1>1, <2>1, <2>2, <2>4
<1> QED BY <1>2, <1>7, <1>8, <1>9 DEF led, j, d, r

\* And the other way.
LEMMA PaddedItem ==
    ASSUME NEW s, IsDirectSlice(s), NEW n \in Nat, Rank(s) <= n, NEW j \in Tuples(s.shape)
    PROVE  /\ Padded(j, n - Rank(s), n) \in Tuples(BroadcastLeading(s, n).shape)
           /\ Dropped(Padded(j, n - Rank(s), n), n - Rank(s), Rank(s)) = j
           /\ ItemAt(BroadcastLeading(s, n), Padded(j, n - Rank(s), n)) = ItemAt(s, j)
<1> DEFINE r == Rank(s)
           d == n - r
           led == BroadcastLeading(s, n)
           i == Padded(j, d, n)
<1>1. /\ r \in Nat /\ d \in Nat /\ n = r + d /\ Strided(s, r) /\ Strided(led, n)
      /\ \A k \in 1..n : led.shape[k] = IF k <= d THEN 1 ELSE s.shape[k - d]
  BY LedIs, DirectStrided, DirectSliceHas
<1>2. j \in [1..r -> Nat] /\ \A k \in 1..r : j[k] < s.shape[k]
  BY <1>1, StridedTuple
<1>3. i = [k \in 1..n |-> IF k <= d THEN 0 ELSE j[k - d]]
  BY DEF Padded
<1>4. Dropped(i, d, r) = [k \in 1..r |-> i[k + d]]
  BY DEF Dropped
<1> HIDE DEF i, r, d, led
<1>5. ASSUME NEW k \in 1..n PROVE i[k] \in Nat /\ i[k] < led.shape[k]
  <2>1. CASE k <= d
    BY <2>1, <1>1, <1>3
  <2>2. CASE ~(k <= d)
    <3> DEFINE x == k - d
    <3>1. x \in 1..r
      BY <2>2, <1>1
    <3>2. i[k] = j[x] /\ led.shape[k] = s.shape[x]
      BY <2>2, <1>1, <1>3
    <3> HIDE DEF x
    <3> QED BY <3>1, <3>2, <1>2
  <2> QED BY <2>1, <2>2
<1>6. i \in Tuples(led.shape)
  <2>1. i \in [1..n -> Nat]
    BY <1>3, <1>5
  <2> QED BY <2>1, <1>1, <1>5, StridedTuple
<1>7. Dropped(i, d, r) = j
  <2>1. \A k \in 1..r : i[k + d] = j[k]
    <3> TAKE k \in 1..r
    <3> DEFINE x == k + d
    <3>1. x \in 1..n /\ ~(x <= d) /\ x - d = k
      BY <1>1
    <3> HIDE DEF x
    <3>2. i[x] = j[x - d]
      BY <3>1, <1>3
    <3> QED BY <3>1, <3>2 DEF x
  <2> QED BY <2>1, <1>2, <1>4
<1>8. ItemAt(led, i) = ItemAt(s, j)
  <2>1. ItemAt(BroadcastLeading(s, n), i) = ItemAt(s, Dropped(i, n - Rank(s), Rank(s)))
    BY <1>6, LedItem DEF led
  <2> QED BY <2>1, <1>7 DEF led, d, r
<1> QED BY <1>6, <1>7, <1>8 DEF i, r, d, led

\* Axes in front leave the cells.
LEMMA LedCells ==
    ASSUME NEW s, IsDirectSlice(s), NEW n \in Nat, Rank(s) <= n
    PROVE  CellsOf(BroadcastLeading(s, n)) = CellsOf(s)
<1> DEFINE led == BroadcastLeading(s, n)
<1>1. ASSUME NEW i \in Tuples(led.shape) PROVE ItemAt(led, i) \in CellsOf(s)
  BY LedItem DEF CellsOf
<1>2. ASSUME NEW j \in Tuples(s.shape) PROVE ItemAt(s, j) \in CellsOf(led)
  <2>1. Padded(j, n - Rank(s), n) \in Tuples(led.shape)
        /\ ItemAt(led, Padded(j, n - Rank(s), n)) = ItemAt(s, j)
    BY PaddedItem
  <2> HIDE DEF led
  <2> QED BY <2>1 DEF CellsOf
<1> HIDE DEF led
<1>3. CellsOf(led) \subseteq CellsOf(s)
  BY <1>1 DEF CellsOf
<1>4. CellsOf(s) \subseteq CellsOf(led)
  BY <1>2 DEF CellsOf
<1> QED BY <1>3, <1>4 DEF led

-----------------------------------------------------------------------------
(* A source that is stretched to the destination.                           *)

IsRecord(s) == s = [data |-> s.data, shape |-> s.shape, strides |-> s.strides,
                    suboffsets |-> s.suboffsets, owner |-> s.owner]

\* What stretching does to the strides.
LEMMA StretchIs ==
    ASSUME NEW n, NEW src, Strided(src, n), IsRecord(src), NEW dst, Strided(dst, n)
    PROVE  /\ Strided(Stretch(src, dst), n) /\ IsRecord(Stretch(src, dst))
           /\ Stretch(src, dst).data = src.data /\ Stretch(src, dst).shape = src.shape
           /\ Stretch(src, dst).suboffsets = src.suboffsets /\ Stretch(src, dst).owner = src.owner
           /\ \A k \in 1..n : Stretch(src, dst).strides[k] =
                 IF src.shape[k] # dst.shape[k] THEN 0 ELSE src.strides[k]
           /\ Stretched(src, dst) = { k \in 1..n : src.shape[k] # dst.shape[k] }
<1> DEFINE S == Stretch(src, dst)
           st == [k \in DOMAIN src.strides |-> IF k \in Stretched(src, dst) THEN 0 ELSE src.strides[k]]
<1>1. /\ n \in Nat /\ src.data \in Int /\ src.shape \in Seq(Nat) /\ Len(src.shape) = n
      /\ DOMAIN src.strides = 1..n /\ \A k \in 1..n : src.strides[k] \in Int
  BY DEF Strided
<1>2. DOMAIN dst.shape = 1..n
  BY DEF Strided
<1>3. Stretched(src, dst) = { k \in 1..n : src.shape[k] # dst.shape[k] }
  BY <1>2 DEF Stretched
<1>4. S = [src EXCEPT !.strides = st]
  BY DEF Stretch
<1>5. DOMAIN st = 1..n /\ \A k \in 1..n : st[k] = (IF src.shape[k] # dst.shape[k] THEN 0 ELSE src.strides[k])
  BY <1>1, <1>3
<1> HIDE DEF S, st
<1>6. S = [data |-> src.data, shape |-> src.shape, strides |-> st,
           suboffsets |-> src.suboffsets, owner |-> src.owner]
  BY <1>4 DEF IsRecord
<1>7. IsRecord(S)
  BY <1>6 DEF IsRecord
<1>8. \A k \in 1..n : st[k] \in Int
  BY <1>1, <1>5
<1>9. Strided(S, n)
  BY <1>1, <1>5, <1>6, <1>8 DEF Strided
<1> QED BY <1>3, <1>5, <1>6, <1>7, <1>9 DEF S

\* The item of the source an item of the destination gets.
Home(src, dst, i) == [k \in 1..Len(dst.shape) |-> IF src.shape[k] = dst.shape[k] THEN i[k] ELSE 0]

\* A stretched axis shows its one item everywhere.
LEMMA HomeItem ==
    ASSUME NEW n, NEW src, Strided(src, n), IsRecord(src), NEW dst, Strided(dst, n),
           \A k \in Stretched(src, dst) : src.shape[k] = 1,
           NEW i \in Tuples(dst.shape)
    PROVE  /\ Home(src, dst, i) \in Tuples(src.shape)
           /\ ItemAt(Stretch(src, dst), i) = ItemAt(src, Home(src, dst, i))
           /\ ItemAt(Stretch(src, dst), Home(src, dst, i)) = ItemAt(src, Home(src, dst, i))
<1> DEFINE S == Stretch(src, dst)
           h == Home(src, dst, i)
<1>1. n \in Nat /\ Len(dst.shape) = n /\ \A k \in 1..n : src.shape[k] \in Nat
  BY DEF Strided
<1>2. i \in [1..n -> Nat] /\ \A k \in 1..n : i[k] < dst.shape[k]
  BY StridedTuple
<1>3. /\ Strided(S, n) /\ S.data = src.data
      /\ \A k \in 1..n : S.strides[k] = IF src.shape[k] # dst.shape[k] THEN 0 ELSE src.strides[k]
      /\ \A k \in 1..n : src.shape[k] # dst.shape[k] => src.shape[k] = 1
  <2>1. /\ Strided(S, n) /\ S.data = src.data
        /\ \A k \in 1..n : S.strides[k] = IF src.shape[k] # dst.shape[k] THEN 0 ELSE src.strides[k]
        /\ Stretched(src, dst) = { k \in 1..n : src.shape[k] # dst.shape[k] }
    BY StretchIs
  <2> HIDE DEF S
  <2> QED BY <2>1
<1>4. h = [k \in 1..n |-> IF src.shape[k] = dst.shape[k] THEN i[k] ELSE 0]
  BY <1>1 DEF Home
<1> HIDE DEF S, h
<1>5. \A k \in 1..n : h[k] \in Nat /\ h[k] < src.shape[k]
  BY <1>2, <1>3, <1>4
<1>6. h \in [1..n -> Nat]
  BY <1>4, <1>5
<1>7. h \in Tuples(src.shape)
  BY <1>5, <1>6, StridedTuple
<1>8. \A k \in 1..n : i[k] \in Int /\ h[k] \in Int
  BY <1>2, <1>5
<1> DEFINE a == Terms(S, i)
           b == Terms(S, h)
           c == Terms(src, h)
<1>9. /\ ItemAt(S, i) = S.data + SumTo(a, n)
      /\ \A k \in 1..n : a[k] = i[k] * S.strides[k]
  BY <1>3, <1>8, StridedItem
<1>10. /\ ItemAt(S, h) = S.data + SumTo(b, n)
       /\ \A k \in 1..n : b[k] = h[k] * S.strides[k]
  BY <1>3, <1>8, StridedItem
<1>11. /\ ItemAt(src, h) = src.data + SumTo(c, n)
       /\ \A k \in 1..n : c[k] = h[k] * src.strides[k]
  BY <1>8, StridedItem
<1> HIDE DEF a, b, c
<1>12. \A k \in 1..n : src.strides[k] \in Int
  BY DEF Strided
<1>13. ASSUME NEW k \in 1..n PROVE a[k] = c[k] /\ b[k] = c[k]
  <2>1. CASE src.shape[k] = dst.shape[k]
    <3>1. h[k] = i[k] /\ S.strides[k] = src.strides[k]
      BY <2>1, <1>3, <1>4
    <3> QED BY <3>1, <1>9, <1>10, <1>11
  <2>2. CASE src.shape[k] # dst.shape[k]
    <3>1. h[k] = 0 /\ S.strides[k] = 0
      BY <2>2, <1>3, <1>4
    <3>2. a[k] = i[k] * 0 /\ b[k] = 0 /\ c[k] = 0 * src.strides[k]
      BY <3>1, <1>9, <1>10, <1>11
    <3>3. a[k] = 0 /\ c[k] = 0
      BY <3>2, <1>8, <1>12
    <3> QED BY <3>2, <3>3
  <2> QED BY <2>1, <2>2
<1>14. SumTo(a, n) = SumTo(c, n)
  BY <1>1, <1>13, SumSame
<1>15. SumTo(b, n) = SumTo(c, n)
  BY <1>1, <1>13, SumSame
<1> QED BY <1>3, <1>7, <1>9, <1>10, <1>11, <1>14, <1>15 DEF S, h

-----------------------------------------------------------------------------
(* The addresses a slice spans.                                             *)

\* What an axis adds to an address lies between its ends.
LEMMA TermBounds ==
    ASSUME NEW x \in Nat, NEW e \in Nat, x < e, NEW s \in Int
    PROVE  /\ s * (e - 1) \in Int /\ Min({0, s * (e - 1)}) \in Int /\ Max({0, s * (e - 1)}) \in Int
           /\ Min({0, s * (e - 1)}) <= x * s /\ x * s <= Max({0, s * (e - 1)})
<1>1. PICK z \in Nat : e - 1 = x + z
  <2>1. e - 1 - x \in Nat /\ e - 1 = x + (e - 1 - x)
    OBVIOUS
  <2> QED BY <2>1
<1> DEFINE w == s * (e - 1)
           p == x * s
           q == z * s
<1>2. w = p + q /\ w \in Int /\ p \in Int /\ q \in Int
  BY <1>1
<1>3. (s >= 0 => p >= 0 /\ q >= 0) /\ (s < 0 => p <= 0 /\ q <= 0)
  OBVIOUS
<1> HIDE DEF w, p, q
<1>4. Min({0, w}) = (IF 0 <= w THEN 0 ELSE w) /\ Max({0, w}) = (IF 0 >= w THEN 0 ELSE w)
  BY <1>2, PairBounds
<1> QED BY <1>2, <1>3, <1>4 DEF w, p

\* Every item lies in the interval get_array_memory_extents finds.
LEMMA ExtentsHold ==
    ASSUME NEW n, NEW s, Strided(s, n), NEW i \in Tuples(s.shape)
    PROVE  /\ MemoryExtents(s).start <= ItemAt(s, i)
           /\ ItemAt(s, i) + ItemSize <= MemoryExtents(s).end
           /\ MemoryExtents(s).start \in Int /\ MemoryExtents(s).end \in Int
<1>1. /\ n \in Nat /\ s.data \in Int /\ Rank(s) = n
      /\ \A k \in 1..n : s.shape[k] \in Nat /\ s.strides[k] \in Int
  BY DEF Strided, Rank
<1>2. i \in [1..n -> Nat] /\ \A k \in 1..n : i[k] < s.shape[k]
  BY StridedTuple
<1> DEFINE lo == [k \in 1..n |-> Min({0, Reach(s, k)})]
           hi == [k \in 1..n |-> Max({0, Reach(s, k)})]
           q == Terms(s, i)
<1>3. MemoryExtents(s).start = s.data + SumTo(lo, n)
      /\ MemoryExtents(s).end = s.data + SumTo(hi, n) + ItemSize
  <2>1. { k \in 1..n : s.shape[k] = 0 } = {}
    BY <1>1, <1>2
  <2> QED BY <1>1, <2>1 DEF MemoryExtents
<1>4. ItemAt(s, i) = s.data + SumTo(q, n) /\ SumTo(q, n) \in Int
      /\ \A k \in 1..n : q[k] = i[k] * s.strides[k] /\ q[k] \in Int
  <2>1. \A k \in 1..n : i[k] \in Int
    BY <1>2
  <2> QED BY <2>1, StridedItem
<1>5. ASSUME NEW k \in 1..n
      PROVE  lo[k] \in Int /\ hi[k] \in Int /\ lo[k] <= q[k] /\ q[k] <= hi[k]
  <2> DEFINE x == i[k]
             e == s.shape[k]
             t == s.strides[k]
  <2>1. x \in Nat /\ e \in Nat /\ x < e /\ t \in Int
    BY <1>1, <1>2
  <2>2. lo[k] = Min({0, t * (e - 1)}) /\ hi[k] = Max({0, t * (e - 1)}) /\ q[k] = x * t
    BY <1>4 DEF Reach
  <2> HIDE DEF x, e, t, lo, hi, q
  <2>3. /\ Min({0, t * (e - 1)}) \in Int /\ Max({0, t * (e - 1)}) \in Int
        /\ Min({0, t * (e - 1)}) <= x * t /\ x * t <= Max({0, t * (e - 1)})
    BY <2>1, TermBounds
  <2> QED BY <2>2, <2>3
<1> HIDE DEF lo, hi, q
<1>6. SumTo(lo, n) <= SumTo(q, n)
  BY <1>1, <1>4, <1>5, SumMonotone
<1>7. SumTo(q, n) <= SumTo(hi, n)
  BY <1>1, <1>4, <1>5, SumMonotone
<1>8. SumTo(lo, n) \in Int /\ SumTo(hi, n) \in Int
  <2>1. n \in 0..n
    BY <1>1
  <2>2. \A m \in 0..n : SumTo(lo, m) \in Int
    BY <1>1, <1>5, SumType
  <2>3. \A m \in 0..n : SumTo(hi, m) \in Int
    BY <1>1, <1>5, SumType
  <2> QED BY <2>1, <2>2, <2>3
<1>9. ItemSize \in Nat
  BY ItemSizeAssumption
<1> QED BY <1>1, <1>3, <1>4, <1>6, <1>7, <1>8, <1>9

\* Slices that do not overlap have no item in common.
LEMMA ApartCells ==
    ASSUME NEW n, NEW a, Strided(a, n), NEW b, Strided(b, n), ~SlicesOverlap(a, b)
    PROVE  \A i \in Tuples(a.shape), j \in Tuples(b.shape) : ItemAt(a, i) # ItemAt(b, j)
<1> TAKE i \in Tuples(a.shape), j \in Tuples(b.shape)
<1>1. /\ MemoryExtents(a).start <= ItemAt(a, i) /\ ItemAt(a, i) + ItemSize <= MemoryExtents(a).end
      /\ MemoryExtents(a).start \in Int /\ MemoryExtents(a).end \in Int
  BY ExtentsHold
<1>2. /\ MemoryExtents(b).start <= ItemAt(b, j) /\ ItemAt(b, j) + ItemSize <= MemoryExtents(b).end
      /\ MemoryExtents(b).start \in Int /\ MemoryExtents(b).end \in Int
  BY ExtentsHold
<1>3. ItemAt(a, i) \in Int /\ ItemAt(b, j) \in Int
  <2>1. \A k \in 1..n : i[k] \in Int
    <3>1. i \in [1..n -> Nat]
      BY StridedTuple
    <3> QED BY <3>1
  <2>2. \A k \in 1..n : j[k] \in Int
    <3>1. j \in [1..n -> Nat]
      BY StridedTuple
    <3> QED BY <3>1
  <2>3. ItemAt(a, i) \in Int
    BY <2>1, StridedItem
  <2>4. ItemAt(b, j) \in Int
    BY <2>2, StridedItem
  <2> QED BY <2>3, <2>4
<1>4. ~(MemoryExtents(a).start < MemoryExtents(b).end /\ MemoryExtents(b).start < MemoryExtents(a).end)
  BY DEF SlicesOverlap
<1> QED BY <1>1, <1>2, <1>3, <1>4, ItemSizeAssumption

-----------------------------------------------------------------------------
(* Slices whose items lie one behind the other.                             *)

SizeOfShape(shape) == ProductTo(shape, Len(shape))

\* Turning a shape round twice, and its size.
LEMMA TurnedTwice ==
    ASSUME NEW shape \in Seq(Nat)
    PROVE  Reverse(Reverse(shape)) = shape /\ SizeOfShape(Reverse(shape)) = SizeOfShape(shape)
           /\ SizeOfShape(shape) \in Nat
<1> DEFINE n == Len(shape)
           r == Reverse(shape)
<1>1. n \in Nat /\ \A k \in 1..n : shape[k] \in Nat
  OBVIOUS
<1>2. r \in Seq(Nat) /\ Len(r) = n /\ \A k \in 1..n : r[k] = shape[n + 1 - k]
  BY TurnedShape
<1>3. Reverse(r) \in Seq(Nat) /\ Len(Reverse(r)) = n /\ \A k \in 1..n : Reverse(r)[k] = r[n + 1 - k]
  <2> HIDE DEF r
  <2>1. Reverse(r) \in Seq(Nat) /\ Len(Reverse(r)) = Len(r) /\ \A k \in 1..Len(r) : Reverse(r)[k] = r[Len(r) + 1 - k]
    BY <1>2, TurnedShape
  <2> QED BY <2>1, <1>2
<1> HIDE DEF n, r
<1>4. \A k \in 1..n : Reverse(r)[k] = shape[k]
  <2> TAKE k \in 1..n
  <2> DEFINE m == n + 1 - k
  <2>1. m \in 1..n /\ n + 1 - m = k
    BY <1>1
  <2>2. Reverse(r)[k] = r[m]
    BY <1>3
  <2> HIDE DEF m
  <2>3. r[m] = shape[n + 1 - m]
    BY <1>2, <2>1
  <2> QED BY <2>1, <2>2, <2>3
<1>5. Reverse(r) = shape
  <2>1. Len(shape) = n
    BY DEF n
  <2> QED BY <1>3, <1>4, <2>1
<1>6. ProductTo(r, n) = ProductTo(shape, n)
  <2>1. \A k \in 1..n : shape[k] \in Nat /\ r[k] = shape[n + 1 - k]
    BY <1>1, <1>2
  <2> QED BY <1>1, <2>1, ProductTurned
<1>7. ProductTo(shape, n) \in Nat
  <2>1. n \in 0..n
    BY <1>1
  <2> QED BY <1>1, <2>1, ProductType
<1> QED BY <1>2, <1>5, <1>6, <1>7 DEF SizeOfShape, n, r

\* The places of the tuples, in either order, are the numbers below the size.
LEMMA PlacesAre ==
    ASSUME NEW shape \in Seq(Nat), NEW order
    PROVE  /\ \A i \in Tuples(shape) : Place(shape, i, order) \in 0..(SizeOfShape(shape) - 1)
           /\ \A i, j \in Tuples(shape) : Place(shape, i, order) = Place(shape, j, order) => i = j
           /\ \A x \in 0..(SizeOfShape(shape) - 1) : \E i \in Tuples(shape) : Place(shape, i, order) = x
<1>1. ASSUME NEW sh \in Seq(Nat)
      PROVE  /\ \A i \in Tuples(sh) : PlaceF(sh, i) \in 0..(SizeOfShape(sh) - 1)
             /\ \A i, j \in Tuples(sh) : PlaceF(sh, i) = PlaceF(sh, j) => i = j
             /\ \A x \in 0..(SizeOfShape(sh) - 1) : \E i \in Tuples(sh) : PlaceF(sh, i) = x
  <2>1. ASSUME NEW i \in Tuples(sh) PROVE PlaceF(sh, i) \in 0..(SizeOfShape(sh) - 1)
    <3>1. Len(sh) \in 0..Len(sh)
      OBVIOUS
    <3>2. SumTo(PlaceTerms(sh, i), Len(sh)) \in 0..(ProductTo(sh, Len(sh)) - 1)
      BY <3>1, PlaceBounds
    <3> QED BY <3>2 DEF PlaceF, PlaceTerms, SizeOfShape
  <2>2. \A i, j \in Tuples(sh) : PlaceF(sh, i) = PlaceF(sh, j) => i = j
    BY PlaceInjective
  <2>3. \A x \in 0..(SizeOfShape(sh) - 1) : \E i \in Tuples(sh) : PlaceF(sh, i) = x
    BY PlaceSurjective DEF SizeOfShape
  <2> QED BY <2>1, <2>2, <2>3
<1>2. CASE order = "F"
  BY <1>1, <1>2 DEF Place
<1>3. CASE order # "F"
  <2> DEFINE r == Reverse(shape)
  <2>1. r \in Seq(Nat) /\ Reverse(r) = shape /\ SizeOfShape(r) = SizeOfShape(shape)
    BY TurnedShape, TurnedTwice
  <2>2. \A i \in Tuples(shape) : Reverse(i) \in Tuples(r) /\ Reverse(Reverse(i)) = i
    BY TurnedTuple
  <2>3. \A j \in Tuples(r) : Reverse(j) \in Tuples(shape) /\ Reverse(Reverse(j)) = j
    <3> HIDE DEF r
    <3>1. \A j \in Tuples(r) : Reverse(j) \in Tuples(Reverse(r)) /\ Reverse(Reverse(j)) = j
      BY <2>1, TurnedTuple
    <3> QED BY <2>1, <3>1
  <2>4. \A i : Place(shape, i, order) = PlaceF(r, Reverse(i))
    BY <1>3 DEF Place
  <2> HIDE DEF r
  <2>5. /\ \A i \in Tuples(r) : PlaceF(r, i) \in 0..(SizeOfShape(r) - 1)
        /\ \A i, j \in Tuples(r) : PlaceF(r, i) = PlaceF(r, j) => i = j
        /\ \A x \in 0..(SizeOfShape(r) - 1) : \E i \in Tuples(r) : PlaceF(r, i) = x
    BY <1>1, <2>1
  <2>6. \A i \in Tuples(shape) : Place(shape, i, order) \in 0..(SizeOfShape(shape) - 1)
    BY <2>1, <2>2, <2>4, <2>5
  <2>7. \A i, j \in Tuples(shape) : Place(shape, i, order) = Place(shape, j, order) => i = j
    <3> TAKE i, j \in Tuples(shape)
    <3>1. Place(shape, i, order) = Place(shape, j, order) => Reverse(i) = Reverse(j)
      BY <2>2, <2>4, <2>5
    <3> QED BY <3>1, <2>2
  <2>8. ASSUME NEW x \in 0..(SizeOfShape(shape) - 1)
        PROVE  \E i \in Tuples(shape) : Place(shape, i, order) = x
    <3>1. PICK j \in Tuples(r) : PlaceF(r, j) = x
      BY <2>1, <2>5
    <3>2. Reverse(j) \in Tuples(shape) /\ Reverse(Reverse(j)) = j
      BY <2>3
    <3>3. Place(shape, Reverse(j), order) = x
      BY <2>4, <3>1, <3>2
    <3> QED BY <3>2, <3>3
  <2> QED BY <2>6, <2>7, <2>8
<1> QED BY <1>2, <1>3

\* A dense slice puts each item at its place.
IsDense(s, order) == s.strides = ContigStrides(s.shape, order)

\* The address of an item of a dense slice, by its place.
LEMMA DenseItem ==
    ASSUME NEW n, NEW s, Strided(s, n), NEW order, IsDense(s, order), NEW i \in Tuples(s.shape)
    PROVE  ItemAt(s, i) = s.data + ItemSize * Place(s.shape, i, order)
<1> DEFINE shape == s.shape
           q == Terms(s, i)
<1>1. n \in Nat /\ shape \in Seq(Nat) /\ Len(shape) = n /\ DOMAIN shape = 1..n
      /\ \A k \in 1..n : shape[k] \in Nat
  BY DEF Strided
<1>2. i \in [1..n -> Nat]
  BY StridedTuple
<1>3. /\ ItemAt(s, i) = s.data + SumTo(q, n)
      /\ \A k \in 1..n : q[k] = i[k] * s.strides[k]
  <2>1. \A k \in 1..n : i[k] \in Int
    BY <1>2
  <2> QED BY <2>1, StridedItem
<1>4. ItemSize \in Int
  BY ItemSizeAssumption
<1>5. \A k \in 1..n : s.strides[k] = ItemSize * (IF order = "F" THEN ProductTo(shape, k - 1)
                                                 ELSE ProductTo(Reverse(shape), n - k))
  BY <1>1 DEF IsDense, ContigStrides
<1> HIDE DEF q, shape
<1>6. CASE order = "F"
  <2> DEFINE p == PlaceTerms(shape, i)
  <2>1. \A k \in 1..n : p[k] = i[k] * ProductTo(shape, k - 1)
    BY <1>1 DEF PlaceTerms
  <2>2. \A m \in 0..n : ProductTo(shape, m) \in Nat
    BY <1>1, ProductType
  <2> HIDE DEF p
  <2>3. ASSUME NEW k \in 1..n PROVE p[k] \in Int /\ q[k] = ItemSize * p[k]
    <3> DEFINE w == ProductTo(shape, k - 1)
    <3>1. k - 1 \in 0..n
      BY <1>1
    <3>2. w \in Int /\ i[k] \in Int
      BY <3>1, <2>2, <1>2
    <3>3. q[k] = i[k] * (ItemSize * w) /\ p[k] = i[k] * w
      BY <1>3, <1>5, <1>6, <2>1
    <3> HIDE DEF w
    <3> QED BY <1>4, <3>2, <3>3
  <2>4. SumTo(q, n) = ItemSize * SumTo(p, n)
    BY <1>1, <1>4, <2>3, SumScaled
  <2>5. Place(shape, i, order) = SumTo(p, n)
    BY <1>1, <1>6 DEF Place, PlaceF, PlaceTerms, p
  <2> QED BY <1>3, <2>4, <2>5 DEF shape
<1>7. CASE order # "F"
  <2> DEFINE r == Reverse(shape)
             j == Reverse(i)
             p == PlaceTerms(r, j)
  <2>1. r \in Seq(Nat) /\ Len(r) = n /\ DOMAIN r = 1..n /\ \A k \in 1..n : r[k] \in Nat
    <3>1. r \in Seq(Nat) /\ Len(r) = Len(shape)
      BY <1>1, TurnedShape
    <3> HIDE DEF r
    <3> QED BY <3>1, <1>1
  <2>2. \A k \in 1..n : j[k] = i[n + 1 - k]
    <3>1. i \in Tuples(shape)
      BY DEF shape
    <3> QED BY <1>1, <3>1, TurnedTuple
  <2> HIDE DEF r, j
  <2>3. \A k \in 1..n : p[k] = j[k] * ProductTo(r, k - 1)
    BY <2>1 DEF PlaceTerms
  <2>4. \A m \in 0..n : ProductTo(r, m) \in Nat
    BY <1>1, <2>1, ProductType
  <2> DEFINE u == [k \in 1..n |-> p[n + 1 - k]]
  <2>5. \A k \in 1..n : u[k] = p[n + 1 - k]
    OBVIOUS
  <2> HIDE DEF p, u
  <2>6. ASSUME NEW k \in 1..n PROVE p[k] \in Int
    <3>1. k - 1 \in 0..n /\ n + 1 - k \in 1..n
      BY <1>1
    <3>2. j[k] \in Int /\ ProductTo(r, k - 1) \in Int
      BY <3>1, <1>2, <2>2, <2>4
    <3> QED BY <3>2, <2>3
  <2>7. ASSUME NEW k \in 1..n PROVE u[k] \in Int /\ q[k] = ItemSize * u[k]
    <3> DEFINE m == n + 1 - k
    <3>1. m \in 1..n /\ n + 1 - m = k /\ m - 1 = n - k
      BY <1>1
    <3>2. u[k] = p[m]
      BY <2>5
    <3>3. p[m] = j[m] * ProductTo(r, m - 1) /\ j[m] = i[n + 1 - m] /\ p[m] \in Int
      BY <3>1, <2>2, <2>3, <2>6
    <3> DEFINE w == ProductTo(r, n - k)
    <3>4. w \in Int
      <4>1. n - k \in 0..n
        BY <1>1
      <4> QED BY <4>1, <2>4
    <3>5. q[k] = i[k] * (ItemSize * w)
      BY <1>3, <1>5, <1>7 DEF r
    <3> HIDE DEF m
    <3>6. p[m] = i[k] * w
      BY <3>1, <3>3
    <3> HIDE DEF w
    <3>7. i[k] \in Int
      BY <1>2
    <3> QED BY <1>4, <3>2, <3>3, <3>4, <3>5, <3>6, <3>7
  <2>8. SumTo(q, n) = ItemSize * SumTo(u, n)
    BY <1>1, <1>4, <2>7, SumScaled
  <2>9. SumTo(u, n) = SumTo(p, n)
    <3>1. n \in 0..n /\ \A k \in 1..n : p[k] \in Int /\ u[k] = IF k > n THEN p[k] ELSE p[n + 1 - k]
      BY <1>1, <2>5, <2>6
    <3> QED BY <1>1, <3>1, SumTurned
  <2>10. Place(shape, i, order) = SumTo(p, n)
    BY <1>1, <1>7, <2>1 DEF Place, PlaceF, PlaceTerms, p, r, j
  <2> QED BY <1>3, <2>8, <2>9, <2>10 DEF shape
<1> QED BY <1>6, <1>7

-----------------------------------------------------------------------------
(* What a copy should leave behind: V says what each item of the            *)
(* destination gets.                                                        *)

KeepsOthers(r, m, dst) ==
    DOMAIN r = DOMAIN m /\ \A a \in DOMAIN m \ CellsOf(dst) : r[a] = m[a]

Right(r, m, dst, V) ==
    /\ KeepsOthers(r, m, dst)
    /\ \A a \in CellsOf(dst) : \E i \in Tuples(dst.shape) : ItemAt(dst, i) = a /\ r[a] = V[i]

\* The items the copy finds are those.
Reads(from, src, dst, V) ==
    \A i \in Tuples(dst.shape) : ItemFound(from, ItemAt(src, i), CellsOf(dst)) = V[i]

\* copy_strided_to_strided writes what it reads.
LEMMA StridedRight ==
    ASSUME NEW from, NEW src, NEW m, NEW dst, NEW V,
           CellsOf(dst) \subseteq DOMAIN m, Reads(from, src, dst, V)
    PROVE  Right(CopyStrided(from, src, m, dst), m, dst, V)
<1> DEFINE r == CopyStrided(from, src, m, dst)
           I(a) == CHOOSE i \in Tuples(dst.shape) : ItemAt(dst, i) = a
<1>1. r = [a \in DOMAIN m |->
             IF a \in CellsOf(dst) THEN ItemFound(from, ItemAt(src, I(a)), CellsOf(dst)) ELSE m[a]]
  BY DEF CopyStrided
<1>2. \A a \in CellsOf(dst) : I(a) \in Tuples(dst.shape) /\ ItemAt(dst, I(a)) = a
  BY DEF CellsOf
<1> HIDE DEF r, I
<1>3. KeepsOthers(r, m, dst)
  BY <1>1 DEF KeepsOthers
<1>4. \A a \in CellsOf(dst) : r[a] = V[I(a)]
  BY <1>1, <1>2 DEF Reads
<1> QED BY <1>2, <1>3, <1>4 DEF Right, r

\* The items of memory do not overlap.
Spaced(m) ==
    DOMAIN m \subseteq Int /\ \A a, b \in DOMAIN m : a < b => a + ItemSize <= b

\* The addresses of the bytes of a dense slice are those of its items.
LEMMA DenseCells ==
    ASSUME NEW m, Spaced(m), NEW n, NEW dst, Strided(dst, n), NEW order, IsDense(dst, order),
           CellsOf(dst) \subseteq DOMAIN m
    PROVE  { a \in DOMAIN m : dst.data <= a /\ a < dst.data + ItemSize * SizeOfShape(dst.shape) }
             = CellsOf(dst)
<1> DEFINE size == SizeOfShape(dst.shape)
           W == { a \in DOMAIN m : dst.data <= a /\ a < dst.data + ItemSize * size }
           data == dst.data
<1>1. dst.shape \in Seq(Nat) /\ data \in Int /\ size \in Nat /\ ItemSize \in Nat /\ ItemSize # 0
  BY TurnedTwice, ItemSizeAssumption DEF Strided
<1>2. /\ \A i \in Tuples(dst.shape) : Place(dst.shape, i, order) \in 0..(size - 1)
      /\ \A x \in 0..(size - 1) : \E i \in Tuples(dst.shape) : Place(dst.shape, i, order) = x
  BY <1>1, PlacesAre
<1>3. \A i \in Tuples(dst.shape) : ItemAt(dst, i) = data + ItemSize * Place(dst.shape, i, order)
  BY DenseItem
<1> HIDE DEF size, data
<1>4. ASSUME NEW x \in 0..(size - 1) PROVE data + ItemSize * x \in CellsOf(dst)
  <2>1. PICK i \in Tuples(dst.shape) : Place(dst.shape, i, order) = x
    BY <1>2
  <2> QED BY <2>1, <1>3 DEF CellsOf
<1>5. ASSUME NEW a \in CellsOf(dst) PROVE a \in W
  <2>1. PICK i \in Tuples(dst.shape) : a = ItemAt(dst, i)
    BY DEF CellsOf
  <2> DEFINE x == Place(dst.shape, i, order)
  <2>2. a = data + ItemSize * x /\ x \in 0..(size - 1)
    BY <2>1, <1>2, <1>3
  <2> HIDE DEF x
  <2>3. PICK z \in Nat : size = x + 1 + z
    <3>1. size - 1 - x \in Nat /\ size = x + 1 + (size - 1 - x)
      BY <1>1, <2>2
    <3> QED BY <3>1
  <2>4. /\ ItemSize * size = ItemSize * x + ItemSize + ItemSize * z
        /\ ItemSize * x \in Nat /\ ItemSize * z \in Nat
    BY <1>1, <2>2, <2>3
  <2>5. data <= a /\ a < data + ItemSize * size
    BY <1>1, <2>2, <2>4
  <2> QED BY <2>5 DEF data
<1>6. ASSUME NEW a \in W PROVE a \in CellsOf(dst)
  <2>1. a \in DOMAIN m /\ a \in Int /\ data <= a /\ a < data + ItemSize * size
    BY DEF Spaced, data
  <2> DEFINE d == a - data
             x == d \div ItemSize
             y == d % ItemSize
  <2>2. d \in Nat /\ a = data + d /\ d < ItemSize * size
    <3>1. ItemSize * size \in Nat
      BY <1>1
    <3> QED BY <2>1, <1>1, <3>1
  <2> HIDE DEF d
  <2>3. x \in Nat /\ y \in Nat /\ y < ItemSize /\ d = ItemSize * x + y
    BY <2>2, <1>1
  <2> HIDE DEF x, y
  <2>4. x < size
    <3>1. SUFFICES ASSUME size <= x PROVE FALSE
      BY <2>3, <1>1
    <3>2. PICK z \in Nat : x = size + z
      <4>1. x - size \in Nat /\ x = size + (x - size)
        BY <3>1, <2>3, <1>1
      <4> QED BY <4>1
    <3>3. ItemSize * x = ItemSize * size + ItemSize * z /\ ItemSize * z \in Nat /\ ItemSize * size \in Nat
      BY <3>2, <1>1
    <3> QED BY <3>3, <2>2, <2>3
  <2> DEFINE c == data + ItemSize * x
  <2>5. c \in CellsOf(dst) /\ c \in Int /\ c <= a /\ a < c + ItemSize
    <3>1. ItemSize * x \in Nat
      BY <1>1, <2>3
    <3>2. x \in 0..(size - 1)
      BY <2>3, <2>4, <1>1
    <3>3. c \in CellsOf(dst)
      BY <3>2, <1>4
    <3>4. c <= a /\ a < c + ItemSize /\ c \in Int
      BY <3>1, <1>1, <2>2, <2>3
    <3> QED BY <3>3, <3>4
  <2> HIDE DEF c
  <2>6. ~(c < a)
    <3>1. c \in DOMAIN m
      BY <2>5
    <3>2. c < a => c + ItemSize <= a
      BY <3>1, <2>1 DEF Spaced
    <3> QED BY <3>2, <2>1, <2>5, <1>1
  <2>7. c = a
    BY <2>1, <2>5, <2>6
  <2> QED BY <2>5, <2>7
<1> HIDE DEF W
<1>7. W = CellsOf(dst)
  BY <1>5, <1>6
<1> QED BY <1>7 DEF W, size, data

\* And so does memcpy, between dense slices of the same order.
LEMMA BytesRight ==
    ASSUME NEW from, NEW n, NEW src, Strided(src, n), NEW dst, Strided(dst, n), src.shape = dst.shape,
           NEW order, IsDense(src, order), IsDense(dst, order),
           NEW m, Spaced(m), CellsOf(dst) \subseteq DOMAIN m, NEW V, Reads(from, src, dst, V)
    PROVE  Right(CopyBytes(from, src, m, dst), m, dst, V)
<1> DEFINE r == CopyBytes(from, src, m, dst)
           W == { a \in DOMAIN m : dst.data <= a /\ a < dst.data + SliceGetSize(src) }
<1>1. W = CellsOf(dst)
  <2>1. SliceGetSize(src) = ItemSize * SizeOfShape(dst.shape)
    BY DEF SliceGetSize, Rank, SizeOfShape
  <2> QED BY <2>1, DenseCells
<1>2. r = [a \in DOMAIN m |-> IF a \in CellsOf(dst)
                              THEN ItemFound(from, src.data + a - dst.data, CellsOf(dst)) ELSE m[a]]
  BY <1>1 DEF CopyBytes
<1> HIDE DEF r
<1>3. KeepsOthers(r, m, dst)
  BY <1>2 DEF KeepsOthers
<1>4. ASSUME NEW a \in CellsOf(dst)
      PROVE  \E i \in Tuples(dst.shape) : ItemAt(dst, i) = a /\ r[a] = V[i]
  <2>1. PICK i \in Tuples(dst.shape) : a = ItemAt(dst, i)
    BY DEF CellsOf
  <2> DEFINE p == ItemSize * Place(dst.shape, i, order)
  <2>2. a = dst.data + p
    BY <2>1, DenseItem
  <2>3. ItemAt(src, i) = src.data + p
    BY DenseItem
  <2>4. p \in Int /\ src.data \in Int /\ dst.data \in Int
    <3>1. Place(dst.shape, i, order) \in 0..(SizeOfShape(dst.shape) - 1)
      BY PlacesAre DEF Strided
    <3>2. Place(dst.shape, i, order) \in Int /\ ItemSize \in Int
      BY <3>1, ItemSizeAssumption
    <3> QED BY <3>2 DEF Strided
  <2> HIDE DEF p
  <2>5. src.data + a - dst.data = ItemAt(src, i)
    BY <2>2, <2>3, <2>4
  <2>6. r[a] = ItemFound(from, ItemAt(src, i), CellsOf(dst))
    BY <1>2, <2>5
  <2>7. r[a] = V[i]
    BY <2>6 DEF Reads
  <2> QED BY <2>1, <2>7
<1> QED BY <1>3, <1>4 DEF Right, r

-----------------------------------------------------------------------------
(* The temporary copy.                                                      *)

\* Positions on axes of stride 0 do not matter.
LEMMA SameItem ==
    ASSUME NEW n, NEW s, Strided(s, n), NEW i, NEW j, \A k \in 1..n : i[k] \in Int /\ j[k] \in Int,
           \A k \in 1..n : i[k] = j[k] \/ s.strides[k] = 0
    PROVE  ItemAt(s, i) = ItemAt(s, j)
<1> DEFINE a == Terms(s, i)
           b == Terms(s, j)
<1>1. ItemAt(s, i) = s.data + SumTo(a, n) /\ \A k \in 1..n : a[k] = i[k] * s.strides[k]
  BY StridedItem
<1>2. ItemAt(s, j) = s.data + SumTo(b, n) /\ \A k \in 1..n : b[k] = j[k] * s.strides[k]
  BY StridedItem
<1> HIDE DEF a, b
<1>3. ASSUME NEW k \in 1..n PROVE a[k] = b[k]
  <2>1. CASE i[k] = j[k]
    BY <2>1, <1>1, <1>2
  <2>2. CASE s.strides[k] = 0
    <3>1. a[k] = i[k] * 0 /\ b[k] = j[k] * 0
      BY <2>2, <1>1, <1>2
    <3> QED BY <3>1
  <2> QED BY <2>1, <2>2
<1>4. SumTo(a, n) = SumTo(b, n)
  BY <1>3, SumSame DEF Strided
<1> QED BY <1>1, <1>2, <1>4

\* What is known of the temporary slice t of a slice.
IsTemp(t, n, src, order) ==
    /\ Strided(t, n) /\ IsRecord(t)
    /\ t.data = 0 /\ t.shape = src.shape /\ t.owner = src.owner
    /\ t.suboffsets = [k \in DOMAIN src.suboffsets |-> -1]
    /\ \A k \in 1..n : src.shape[k] = 1 => t.strides[k] = 0
    /\ \A i \in Tuples(src.shape) : ItemAt(t, i) = ItemSize * Place(src.shape, i, order)

\* What copy_data_to_temp makes.
LEMMA TempIs ==
    ASSUME NEW n, NEW src, Strided(src, n), IsRecord(src), NEW order
    PROVE  IsTemp(TempSlice(src, order), n, src, order)
<1> DEFINE t == TempSlice(src, order)
           d == DenseSlice(src, order)
           cs == ContigStrides(src.shape, order)
           so == [k \in DOMAIN src.suboffsets |-> -1]
<1>1. n \in Nat /\ src.shape \in Seq(Nat) /\ Len(src.shape) = n /\ DOMAIN src.shape = 1..n
      /\ \A k \in 1..n : src.shape[k] \in Nat
  BY DEF Strided
<1>2. d = [data |-> 0, shape |-> src.shape, strides |-> cs, suboffsets |-> so, owner |-> src.owner]
  <2> DEFINE x == [src EXCEPT !.data = 0]
             y == [x EXCEPT !.suboffsets = so]
  <2>1. d = [y EXCEPT !.strides = cs]
    BY DEF DenseSlice, IsRecord
  <2> HIDE DEF d, cs, so
  <2>2. x = [data |-> 0, shape |-> src.shape, strides |-> src.strides,
             suboffsets |-> src.suboffsets, owner |-> src.owner]
    BY DEF IsRecord
  <2> HIDE DEF x
  <2>3. y = [data |-> 0, shape |-> src.shape, strides |-> src.strides, suboffsets |-> so, owner |-> src.owner]
    BY <2>2
  <2> HIDE DEF y
  <2> QED BY <2>1, <2>3
<1>3. DOMAIN cs = 1..n /\ \A k \in 1..n : cs[k] \in Int
  <2>1. \A k \in 1..n : cs[k] = ItemSize * (IF order = "F" THEN ProductTo(src.shape, k - 1)
                                            ELSE ProductTo(Reverse(src.shape), n - k))
    BY <1>1 DEF ContigStrides
  <2>2. DOMAIN cs = 1..n
    BY <1>1 DEF ContigStrides
  <2>3. \A m \in 0..n : ProductTo(src.shape, m) \in Nat
    BY <1>1, ProductType
  <2>4. \A m \in 0..n : ProductTo(Reverse(src.shape), m) \in Nat
    <3> DEFINE r == Reverse(src.shape)
    <3>1. r \in Seq(Nat) /\ Len(r) = n
      BY <1>1, TurnedShape
    <3> HIDE DEF r
    <3>2. \A k \in 1..n : r[k] \in Nat
      BY <3>1
    <3>3. \A m \in 0..n : ProductTo(r, m) \in Nat
      BY <1>1, <3>2, ProductType
    <3> QED BY <3>3 DEF r
  <2> HIDE DEF cs
  <2>5. ASSUME NEW k \in 1..n PROVE cs[k] \in Int
    <3>1. k - 1 \in 0..n /\ n - k \in 0..n
      BY <1>1
    <3> DEFINE w == IF order = "F" THEN ProductTo(src.shape, k - 1) ELSE ProductTo(Reverse(src.shape), n - k)
    <3>2. w \in Int
      BY <3>1, <2>3, <2>4
    <3>3. cs[k] = ItemSize * w
      BY <2>1
    <3> HIDE DEF w
    <3> QED BY <3>2, <3>3, ItemSizeAssumption
  <2> QED BY <2>2, <2>5
<1> DEFINE st == [k \in 1..n |-> IF src.shape[k] = 1 THEN 0 ELSE cs[k]]
<1>4. t = [data |-> 0, shape |-> src.shape, strides |-> st, suboffsets |-> so, owner |-> src.owner]
  <2>1. t = [d EXCEPT !.strides = [k \in DOMAIN @ |-> IF src.shape[k] = 1 THEN 0 ELSE @[k]]]
    BY DEF TempSlice
  <2> HIDE DEF t, d, cs, so
  <2>2. [k \in DOMAIN d.strides |-> IF src.shape[k] = 1 THEN 0 ELSE d.strides[k]] = st
    BY <1>2, <1>3
  <2>3. t = [d EXCEPT !.strides = st]
    BY <2>1, <2>2
  <2> HIDE DEF st
  <2> QED BY <2>3, <1>2
<1>5. DOMAIN st = 1..n /\ \A k \in 1..n : st[k] = IF src.shape[k] = 1 THEN 0 ELSE cs[k]
  OBVIOUS
<1> HIDE DEF t, d, so, st
<1>6. Strided(t, n) /\ Strided(d, n) /\ IsDense(d, order)
  <2>1. \A k \in 1..n : st[k] \in Int
    BY <1>3, <1>5
  <2>2. Strided(t, n)
    BY <1>1, <1>4, <1>5, <2>1 DEF Strided
  <2>3. IsDense(d, order)
    BY <1>2 DEF IsDense
  <2>4. Strided(d, n)
    <3> HIDE DEF cs
    <3> QED BY <1>1, <1>2, <1>3 DEF Strided
  <2> QED BY <2>2, <2>3, <2>4
<1>7. IsRecord(t)
  BY <1>4 DEF IsRecord
<1>8. ASSUME NEW i \in Tuples(src.shape) PROVE ItemAt(t, i) = ItemSize * Place(src.shape, i, order)
  <2>1. ItemAt(d, i) = 0 + ItemSize * Place(src.shape, i, order)
    <3>1. d.shape = src.shape /\ d.data = 0
      BY <1>2
    <3> QED BY <3>1, <1>6, DenseItem
  <2>2. ItemAt(t, i) = ItemAt(d, i)
    <3>1. i \in [1..n -> Nat] /\ \A k \in 1..n : i[k] < src.shape[k]
      BY StridedTuple
    <3>2. \A k \in 1..n : i[k] \in Int
      BY <3>1
    <3> DEFINE p == Terms(t, i)
               q == Terms(d, i)
    <3>3. ItemAt(t, i) = t.data + SumTo(p, n) /\ \A k \in 1..n : p[k] = i[k] * t.strides[k]
      BY <1>6, <3>2, StridedItem
    <3>4. ItemAt(d, i) = d.data + SumTo(q, n) /\ \A k \in 1..n : q[k] = i[k] * d.strides[k]
      BY <1>6, <3>2, StridedItem
    <3>5. t.data = 0 /\ d.data = 0 /\ t.strides = st /\ d.strides = cs
      BY <1>2, <1>4
    <3> HIDE DEF p, q, cs
    <3>6. ASSUME NEW k \in 1..n PROVE p[k] = q[k]
      <4>1. CASE src.shape[k] = 1
        <5>1. i[k] = 0
          BY <4>1, <3>1
        <5>2. p[k] = 0 * st[k] /\ q[k] = 0 * cs[k] /\ st[k] = 0 /\ cs[k] \in Int
          BY <5>1, <3>3, <3>4, <3>5, <1>3, <1>5, <4>1
        <5> QED BY <5>2
      <4>2. CASE src.shape[k] # 1
        BY <4>2, <3>3, <3>4, <3>5, <1>5
      <4> QED BY <4>1, <4>2
    <3>7. SumTo(p, n) = SumTo(q, n)
      BY <1>1, <3>6, SumSame
    <3> QED BY <3>3, <3>4, <3>5, <3>7
  <2>3. ItemSize * Place(src.shape, i, order) \in Int
    <3>1. Place(src.shape, i, order) \in 0..(SizeOfShape(src.shape) - 1)
      BY <1>1, PlacesAre
    <3>2. Place(src.shape, i, order) \in Int /\ ItemSize \in Int
      BY <3>1, ItemSizeAssumption
    <3> QED BY <3>2
  <2> DEFINE x == ItemSize * Place(src.shape, i, order)
  <2> HIDE DEF x
  <2> QED BY <2>1, <2>2, <2>3 DEF x
<1>9. /\ t.data = 0 /\ t.shape = src.shape /\ t.owner = src.owner /\ t.suboffsets = so
      /\ \A k \in 1..n : src.shape[k] = 1 => t.strides[k] = 0
  BY <1>4, <1>5
<1> QED BY <1>6, <1>7, <1>8, <1>9 DEF t, so, IsTemp

\* The temporary copy holds the items of the source.
LEMMA TempHolds ==
    ASSUME NEW n, NEW src, Strided(src, n), IsRecord(src), NEW order, NEW m,
           CellsOf(src) \subseteq DOMAIN m, NEW i \in Tuples(src.shape)
    PROVE  /\ ItemAt(TempSlice(src, order), i) \in DOMAIN TempItems(m, src, order)
           /\ TempItems(m, src, order)[ItemAt(TempSlice(src, order), i)] = m[ItemAt(src, i)]
<1> DEFINE t == TempSlice(src, order)
           size == SizeOfShape(src.shape)
           Own == { ItemSize * x : x \in 0..(size - 1) }
           from == [items |-> m, shared |-> FALSE, rest |-> 0]
           none == [a \in Own |-> Stray]
           T == TempItems(m, src, order)
           at(j) == ItemSize * Place(src.shape, j, order)
<1>1. /\ Strided(t, n) /\ t.data = 0 /\ t.shape = src.shape
      /\ \A j \in Tuples(src.shape) : ItemAt(t, j) = at(j)
  <2>1. IsTemp(t, n, src, order)
    BY TempIs
  <2> HIDE DEF t
  <2> QED BY <2>1 DEF IsTemp
<1>2. /\ src.shape \in Seq(Nat) /\ Rank(src) = Len(src.shape)
      /\ src.data \in Int
  BY DEF Strided, Rank
<1>3. /\ \A j \in Tuples(src.shape) : Place(src.shape, j, order) \in 0..(size - 1)
      /\ \A j, k \in Tuples(src.shape) : Place(src.shape, j, order) = Place(src.shape, k, order) => j = k
  BY <1>2, PlacesAre
<1>4. T = IF IsContig(src, order) THEN CopyBytes(from, src, none, t) ELSE CopyStrided(from, src, none, t)
  BY <1>2 DEF TempItems, SizeOfShape
<1>5. DOMAIN none = Own
  OBVIOUS
<1>6. size \in Nat /\ ItemSize \in Nat /\ ItemSize # 0
  BY <1>2, TurnedTwice, ItemSizeAssumption
<1> HIDE DEF size
<1>7. ASSUME NEW x \in 0..(size - 1) PROVE 0 <= ItemSize * x /\ ItemSize * x < 0 + ItemSize * size /\ ItemSize * x \in Int
  <2>1. PICK z \in Nat : size = x + 1 + z
    <3>1. size - 1 - x \in Nat /\ size = x + 1 + (size - 1 - x)
      BY <1>6
    <3> QED BY <3>1
  <2>2. /\ ItemSize * size = ItemSize * x + ItemSize + ItemSize * z
        /\ ItemSize * x \in Nat /\ ItemSize * z \in Nat
    BY <1>6, <2>1
  <2> QED BY <1>6, <2>2
<1>8. ItemAt(t, i) = at(i) /\ at(i) \in Own
  BY <1>1, <1>3
<1>9. ItemAt(src, i) \in DOMAIN m
  BY DEF CellsOf
<1>10. \A a, W : a \in DOMAIN m => ItemFound(from, a, W) = m[a]
  BY DEF ItemFound
<1> HIDE DEF t, T, from
<1>11. CASE IsContig(src, order)
  <2> DEFINE W == { a \in DOMAIN none : t.data <= a /\ a < t.data + SliceGetSize(src) }
  <2>1. T = [a \in DOMAIN none |-> IF a \in W THEN ItemFound(from, src.data + a - t.data, W) ELSE none[a]]
    BY <1>4, <1>11 DEF CopyBytes
  <2>2. SliceGetSize(src) = ItemSize * size
    BY <1>2 DEF SliceGetSize, SizeOfShape, size
  <2> DEFINE p == Place(src.shape, i, order)
  <2>3. p \in 0..(size - 1) /\ at(i) = ItemSize * p
    BY <1>3
  <2>4. 0 <= ItemSize * p /\ ItemSize * p < 0 + ItemSize * size /\ ItemSize * p \in Int
    <3> HIDE DEF p
    <3> QED BY <2>3, <1>7
  <2>5. at(i) \in W
    <3> DEFINE b == at(i)
               c == ItemSize * size
    <3>1. 0 <= b /\ b < 0 + c /\ b \in Own
      BY <2>3, <2>4, <1>8
    <3> HIDE DEF b, c, none, Own
    <3>2. b \in W
      BY <3>1, <2>2, <1>1, <1>5 DEF c
    <3> QED BY <3>2 DEF b
  <2>6. ItemAt(src, i) = src.data + at(i)
    <3>1. IsDense(src, order)
      BY <1>11 DEF IsContig, IsDense
    <3> QED BY <3>1, DenseItem
  <2>7. src.data + at(i) - t.data = src.data + at(i)
    <3> DEFINE b == at(i)
    <3>1. b \in Int
      BY <2>3, <2>4
    <3> HIDE DEF b
    <3>2. src.data + b - t.data = src.data + b
      BY <3>1, <1>1, <1>2
    <3> QED BY <3>2 DEF b
  <2> HIDE DEF W, none, Own, at
  <2>8. T[at(i)] = ItemFound(from, src.data + at(i) - t.data, W) /\ DOMAIN T = Own
    BY <2>1, <2>5, <1>5, <1>8
  <2>9. T[at(i)] = m[ItemAt(src, i)]
    BY <2>6, <2>7, <2>8, <1>9, <1>10
  <2> QED BY <2>8, <2>9, <1>8 DEF t, T
<1>12. CASE ~IsContig(src, order)
  <2> DEFINE J(a) == CHOOSE j \in Tuples(t.shape) : ItemAt(t, j) = a
  <2>1. T = [a \in DOMAIN none |-> IF a \in CellsOf(t)
                                   THEN ItemFound(from, ItemAt(src, J(a)), CellsOf(t)) ELSE none[a]]
    BY <1>4, <1>12 DEF CopyStrided
  <2>2. i \in Tuples(t.shape) /\ ItemAt(t, i) = at(i)
    BY <1>1
  <2>3. at(i) \in CellsOf(t)
    BY <2>2 DEF CellsOf
  <2>4. J(at(i)) \in Tuples(t.shape) /\ ItemAt(t, J(at(i))) = at(i)
    BY <2>2
  <2>5. J(at(i)) = i
    <3> DEFINE j == J(at(i))
    <3>1. j \in Tuples(src.shape) /\ at(j) = at(i)
      BY <2>4, <1>1
    <3> HIDE DEF j
    <3> DEFINE x == Place(src.shape, j, order)
               y == Place(src.shape, i, order)
    <3>2. x \in 0..(size - 1) /\ y \in 0..(size - 1) /\ ItemSize * x = ItemSize * y
      BY <3>1, <1>3
    <3> HIDE DEF x, y
    <3>3. x = y
      <4>1. ASSUME NEW u \in Nat, NEW v \in Nat, u < v PROVE ItemSize * u # ItemSize * v
        <5>1. PICK z \in Nat : v = u + 1 + z
          <6>1. v - 1 - u \in Nat /\ v = u + 1 + (v - 1 - u)
            BY <4>1
          <6> QED BY <6>1
        <5>2. ItemSize * v = ItemSize * u + ItemSize + ItemSize * z /\ ItemSize * u \in Nat /\ ItemSize * z \in Nat
          BY <1>6, <5>1
        <5> QED BY <5>2, <1>6
      <4>2. x \in Nat /\ y \in Nat
        BY <3>2
      <4>3. ~(x < y) /\ ~(y < x)
        BY <3>2, <4>1, <4>2
      <4> QED BY <4>2, <4>3
    <3>4. j = i
      BY <3>1, <3>3, <1>3 DEF x, y
    <3> QED BY <3>4 DEF j
  <2> HIDE DEF J, none, Own, at
  <2>6. T[at(i)] = ItemFound(from, ItemAt(src, i), CellsOf(t)) /\ DOMAIN T = Own
    BY <2>1, <2>3, <2>5, <1>5, <1>8
  <2> QED BY <2>6, <1>8, <1>9, <1>10 DEF t, T
<1> QED BY <1>11, <1>12

\* What the temporary copy holds are items, or stray ones.
LEMMA ValuesCopied ==
    ASSUME NEW from, NEW src, NEW m, NEW dst, \A a \in DOMAIN m : m[a] \in Values,
           \A a \in DOMAIN from.items : from.items[a] \in Values
    PROVE  /\ \A a \in DOMAIN m : CopyStrided(from, src, m, dst)[a] \in Values
           /\ \A a \in DOMAIN m : CopyBytes(from, src, m, dst)[a] \in Values
           /\ DOMAIN CopyStrided(from, src, m, dst) = DOMAIN m
           /\ DOMAIN CopyBytes(from, src, m, dst) = DOMAIN m
<1>1. \A a, W : ItemFound(from, a, W) \in Values
  BY OtherAssumptions DEF ItemFound
<1>2. DOMAIN CopyStrided(from, src, m, dst) = DOMAIN m
      /\ \A a \in DOMAIN m : CopyStrided(from, src, m, dst)[a] \in Values
  <2> DEFINE I(a) == CHOOSE i \in Tuples(dst.shape) : ItemAt(dst, i) = a
  <2>1. CopyStrided(from, src, m, dst) =
          [a \in DOMAIN m |->
             IF a \in CellsOf(dst) THEN ItemFound(from, ItemAt(src, I(a)), CellsOf(dst)) ELSE m[a]]
    BY DEF CopyStrided
  <2> HIDE DEF I
  <2> QED BY <2>1, <1>1
<1>3. DOMAIN CopyBytes(from, src, m, dst) = DOMAIN m
      /\ \A a \in DOMAIN m : CopyBytes(from, src, m, dst)[a] \in Values
  <2> DEFINE W == { a \in DOMAIN m : dst.data <= a /\ a < dst.data + SliceGetSize(src) }
  <2>1. CopyBytes(from, src, m, dst) =
          [a \in DOMAIN m |-> IF a \in W THEN ItemFound(from, src.data + a - dst.data, W) ELSE m[a]]
    BY DEF CopyBytes
  <2> HIDE DEF W
  <2> QED BY <2>1, <1>1
<1> QED BY <1>2, <1>3

\* Its items are values.
LEMMA TempValues ==
    ASSUME NEW m, \A a \in DOMAIN m : m[a] \in Values, NEW src, NEW order
    PROVE  \A a \in DOMAIN TempItems(m, src, order) : TempItems(m, src, order)[a] \in Values
<1> DEFINE Own == { ItemSize * x : x \in 0..(ProductTo(src.shape, Rank(src)) - 1) }
           from == [items |-> m, shared |-> FALSE, rest |-> 0]
           none == [a \in Own |-> Stray]
           t == TempSlice(src, order)
<1>1. TempItems(m, src, order) =
        IF IsContig(src, order) THEN CopyBytes(from, src, none, t) ELSE CopyStrided(from, src, none, t)
  BY DEF TempItems
<1>2. \A a \in DOMAIN none : none[a] \in Values
  BY OtherAssumptions
<1>3. \A a \in DOMAIN from.items : from.items[a] \in Values
  OBVIOUS
<1> HIDE DEF from, none, t
<1>4. /\ \A a \in DOMAIN none : CopyStrided(from, src, none, t)[a] \in Values
      /\ \A a \in DOMAIN none : CopyBytes(from, src, none, t)[a] \in Values
      /\ DOMAIN CopyStrided(from, src, none, t) = DOMAIN none
      /\ DOMAIN CopyBytes(from, src, none, t) = DOMAIN none
  BY <1>2, <1>3, ValuesCopied
<1> QED BY <1>1, <1>4

-----------------------------------------------------------------------------
(* Slices whose axes are turned round.                                      *)

\* transpose_memslice over m axes.
Turned(s, m, rest) ==
    [s EXCEPT !.shape = SwapEnds(@, m, rest), !.strides = SwapEnds(@, m, rest)]

\* What transpose_memslice makes, if it does not refuse.
LEMMA TurnedIs ==
    ASSUME NEW n, NEW s, Strided(s, n), IsRecord(s), NEW rest
    PROVE  /\ \A t \in TransposeMemslice(s, rest) : t = Turned(s, s.owner, rest)
           /\ Transposable(s, rest) => TransposeMemslice(s, rest) = {Turned(s, s.owner, rest)}
           /\ ~Transposable(s, rest) => TransposeMemslice(s, rest) = {}
           /\ Turned(s, s.owner, rest) =
                [data |-> s.data, shape |-> SwapEnds(s.shape, s.owner, rest),
                 strides |-> SwapEnds(s.strides, s.owner, rest),
                 suboffsets |-> s.suboffsets, owner |-> s.owner]
<1> DEFINE t == Turned(s, s.owner, rest)
           sh == SwapEnds(s.shape, s.owner, rest)
           st == SwapEnds(s.strides, s.owner, rest)
           x == [s EXCEPT !.shape = sh]
<1>1. TransposeMemslice(s, rest) = IF Transposable(s, rest) THEN {t} ELSE {}
  BY DEF TransposeMemslice, Turned
<1>2. t = [x EXCEPT !.strides = st]
  BY DEF Turned, IsRecord
<1> HIDE DEF t, sh, st
<1>3. x = [data |-> s.data, shape |-> sh, strides |-> s.strides, suboffsets |-> s.suboffsets, owner |-> s.owner]
  BY DEF IsRecord
<1> HIDE DEF x
<1>4. t = [data |-> s.data, shape |-> sh, strides |-> st, suboffsets |-> s.suboffsets, owner |-> s.owner]
  BY <1>2, <1>3
<1> QED BY <1>1, <1>4 DEF t, sh, st

\* The tuple with its first m positions turned round.
Flip(i, m, n) == [k \in 1..n |-> IF k > m THEN i[k] ELSE i[m + 1 - k]]

\* What is known of a slice t that is s with the ends of its first axes swapped.
IsTurned(t, s, n) ==
    /\ Strided(t, n) /\ IsRecord(t) /\ t.suboffsets = s.suboffsets /\ t.owner = s.owner
    /\ t.data = s.data
    /\ \A k \in 1..n : t.shape[k] = IF k > s.owner THEN s.shape[k] ELSE s.shape[s.owner + 1 - k]
    /\ \A k \in 1..n : t.strides[k] = IF k > s.owner THEN s.strides[k] ELSE s.strides[s.owner + 1 - k]
    /\ \A i : (\A k \in 1..n : i[k] \in Int) => ItemAt(t, i) = ItemAt(s, Flip(i, s.owner, n))
    /\ \A i \in Tuples(t.shape) : Flip(i, s.owner, n) \in Tuples(s.shape)
    /\ \A i \in Tuples(s.shape) : /\ Flip(i, s.owner, n) \in Tuples(t.shape)
                                  /\ Flip(Flip(i, s.owner, n), s.owner, n) = i
    /\ CellsOf(t) = CellsOf(s)

\* A slice with the ends of its first m axes swapped shows the same items.
LEMMA TurnedItem ==
    ASSUME NEW n, NEW s, Strided(s, n), IsRecord(s), NEW rest, s.owner \in 0..n
    PROVE  IsTurned(Turned(s, s.owner, rest), s, n)
<1> DEFINE m == s.owner
           t == Turned(s, m, rest)
           M(k) == IF k > m THEN k ELSE m + 1 - k
<1>1. /\ n \in Nat /\ s.data \in Int /\ s.shape \in Seq(Nat) /\ Len(s.shape) = n /\ DOMAIN s.shape = 1..n
      /\ DOMAIN s.strides = 1..n
      /\ \A k \in 1..n : s.shape[k] \in Nat /\ s.strides[k] \in Int
  BY DEF Strided
<1>2. /\ t.data = s.data /\ t.suboffsets = s.suboffsets /\ t.owner = s.owner /\ IsRecord(t)
      /\ t.shape = SwapEnds(s.shape, m, rest) /\ t.strides = SwapEnds(s.strides, m, rest)
  <2>1. t = [data |-> s.data, shape |-> SwapEnds(s.shape, m, rest), strides |-> SwapEnds(s.strides, m, rest),
             suboffsets |-> s.suboffsets, owner |-> s.owner]
    BY TurnedIs
  <2> HIDE DEF t
  <2> QED BY <2>1 DEF IsRecord
<1>3. m \in 0..n
  OBVIOUS
<1> HIDE DEF t, m
<1>4. \A k \in 1..n : M(k) \in 1..n /\ (k > m => M(k) = k) /\ (~(k > m) => M(k) = m + 1 - k) /\ M(M(k)) = k
  BY <1>1, <1>3
<1>5. ASSUME NEW q, DOMAIN q = 1..n
      PROVE  /\ DOMAIN SwapEnds(q, m, rest) = 1..n
             /\ \A k \in 1..n : SwapEnds(q, m, rest)[k] = q[M(k)]
             /\ \A k \in 1..n : SwapEnds(q, m, rest)[k] = IF k > m THEN q[k] ELSE q[m + 1 - k]
  <2>1. SwapEnds(q, m, rest) =
          [k \in 1..n |-> IF k > m THEN q[k] ELSE IF m + 1 - k \in 1..n THEN q[m + 1 - k] ELSE rest]
    BY <1>5 DEF SwapEnds
  <2> QED BY <2>1, <1>4
<1>6. /\ DOMAIN t.shape = 1..n /\ DOMAIN t.strides = 1..n
      /\ \A k \in 1..n : t.shape[k] = s.shape[M(k)] /\ t.strides[k] = s.strides[M(k)]
      /\ \A k \in 1..n : t.shape[k] = IF k > m THEN s.shape[k] ELSE s.shape[m + 1 - k]
      /\ \A k \in 1..n : t.strides[k] = IF k > m THEN s.strides[k] ELSE s.strides[m + 1 - k]
  <2> HIDE DEF M
  <2> DEFINE sh == s.shape
             st == s.strides
  <2>1. DOMAIN sh = 1..n /\ DOMAIN st = 1..n
    BY <1>1
  <2> HIDE DEF sh, st
  <2>2. /\ DOMAIN SwapEnds(sh, m, rest) = 1..n
        /\ \A k \in 1..n : SwapEnds(sh, m, rest)[k] = sh[M(k)]
        /\ \A k \in 1..n : SwapEnds(sh, m, rest)[k] = IF k > m THEN sh[k] ELSE sh[m + 1 - k]
    BY <1>5, <2>1
  <2>3. /\ DOMAIN SwapEnds(st, m, rest) = 1..n
        /\ \A k \in 1..n : SwapEnds(st, m, rest)[k] = st[M(k)]
        /\ \A k \in 1..n : SwapEnds(st, m, rest)[k] = IF k > m THEN st[k] ELSE st[m + 1 - k]
    BY <1>5, <2>1
  <2>4. t.shape = SwapEnds(sh, m, rest) /\ t.strides = SwapEnds(st, m, rest)
    BY <1>2 DEF sh, st
  <2> QED BY <2>2, <2>3, <2>4 DEF sh, st
<1>7. Strided(t, n)
  <2> HIDE DEF M
  <2>1. \A k \in 1..n : t.shape[k] \in Nat /\ t.strides[k] \in Int
    BY <1>1, <1>4, <1>6
  <2>2. t.shape = [k \in 1..n |-> t.shape[k]]
    BY <1>1, <1>2 DEF SwapEnds
  <2>3. t.shape \in Seq(Nat) /\ Len(t.shape) = n
    <3> DEFINE sh == t.shape
    <3>1. sh \in [1..n -> Nat]
      BY <2>1, <2>2
    <3> HIDE DEF sh
    <3>2. sh \in Seq(Nat) /\ Len(sh) = n
      BY <3>1, <1>1
    <3> QED BY <3>2 DEF sh
  <2> QED BY <1>1, <1>2, <1>6, <2>1, <2>3 DEF Strided
<1>8. \A i : \A k \in 1..n : Flip(i, m, n)[k] = i[M(k)] /\ Flip(i, m, n) = [l \in 1..n |-> i[M(l)]]
  <2> TAKE i
  <2>1. \A l \in 1..n : (IF l > m THEN i[l] ELSE i[m + 1 - l]) = i[M(l)]
    OBVIOUS
  <2>2. Flip(i, m, n) = [l \in 1..n |-> i[M(l)]]
    BY <2>1 DEF Flip
  <2> QED BY <2>2
<1> HIDE DEF M
<1>9. ASSUME NEW i, \A k \in 1..n : i[k] \in Int PROVE ItemAt(t, i) = ItemAt(s, Flip(i, m, n))
  <2> DEFINE f == Flip(i, m, n)
             p == Terms(t, i)
             q == Terms(s, f)
  <2>1. \A k \in 1..n : f[k] = i[M(k)] /\ f[k] \in Int
    BY <1>4, <1>8, <1>9
  <2> HIDE DEF f
  <2>2. ItemAt(t, i) = t.data + SumTo(p, n) /\ \A k \in 1..n : p[k] = i[k] * t.strides[k]
    BY <1>7, <1>9, StridedItem
  <2>3. ItemAt(s, f) = s.data + SumTo(q, n) /\ \A k \in 1..n : q[k] = f[k] * s.strides[k] /\ q[k] \in Int
    BY <2>1, StridedItem
  <2> HIDE DEF p, q
  <2>4. ASSUME NEW k \in 1..n PROVE p[k] = IF k > m THEN q[k] ELSE q[m + 1 - k]
    <3> DEFINE l == M(k)
    <3>1. l \in 1..n /\ M(l) = k
      BY <1>4
    <3>2. t.strides[k] = s.strides[l]
      BY <1>6
    <3> HIDE DEF l
    <3>3. f[l] = i[k] /\ q[l] = f[l] * s.strides[l]
      BY <2>1, <2>3, <3>1
    <3>4. p[k] = q[l]
      BY <2>2, <3>2, <3>3
    <3> QED BY <3>4, <1>4 DEF l
  <2>5. \A k \in 1..n : q[k] \in Int /\ p[k] = IF k > m THEN q[k] ELSE q[m + 1 - k]
    BY <2>3, <2>4
  <2>6. SumTo(p, n) = SumTo(q, n)
    BY <1>1, <1>3, <2>5, SumTurned
  <2> QED BY <1>2, <2>2, <2>3, <2>6 DEF f
<1>10. ASSUME NEW i \in Tuples(t.shape) PROVE Flip(i, m, n) \in Tuples(s.shape)
  <2> DEFINE f == Flip(i, m, n)
  <2>1. i \in [1..n -> Nat] /\ \A k \in 1..n : i[k] < t.shape[k]
    BY <1>7, StridedTuple
  <2>3. \A k \in 1..n : f[k] = i[M(k)]
    BY <1>8
  <2>4. f = [l \in 1..n |-> f[l]]
    BY DEF Flip
  <2> HIDE DEF f
  <2>5. ASSUME NEW k \in 1..n PROVE f[k] \in Nat /\ f[k] < s.shape[k]
    <3>1. M(k) \in 1..n /\ M(M(k)) = k
      BY <1>4
    <3>2. i[M(k)] < t.shape[M(k)] /\ t.shape[M(k)] = s.shape[k]
      BY <2>1, <3>1, <1>6
    <3> QED BY <2>1, <2>3, <3>1, <3>2
  <2>6. f \in [1..n -> Nat]
    BY <2>4, <2>5
  <2> QED BY <2>5, <2>6, StridedTuple DEF f
<1>11. ASSUME NEW i \in Tuples(s.shape)
       PROVE  Flip(i, m, n) \in Tuples(t.shape) /\ Flip(Flip(i, m, n), m, n) = i
  <2> DEFINE f == Flip(i, m, n)
             g == Flip(f, m, n)
  <2>1. i \in [1..n -> Nat] /\ \A k \in 1..n : i[k] < s.shape[k]
    BY StridedTuple
  <2>2. \A k \in 1..n : f[k] = i[M(k)]
    BY <1>8
  <2>3. f = [l \in 1..n |-> f[l]]
    BY DEF Flip
  <2> HIDE DEF f
  <2>4. \A k \in 1..n : f[k] \in Nat /\ f[k] < t.shape[k]
    BY <2>1, <2>2, <1>4, <1>6
  <2>5. f \in [1..n -> Nat]
    BY <2>3, <2>4
  <2>6. f \in Tuples(t.shape)
    BY <1>7, <2>4, <2>5, StridedTuple
  <2>7. \A k \in 1..n : g[k] = f[M(k)]
    BY <1>8
  <2>8. g = [l \in 1..n |-> g[l]]
    BY DEF Flip
  <2> HIDE DEF g
  <2>9. \A k \in 1..n : g[k] = i[k]
    BY <2>2, <2>7, <1>4
  <2>10. g = i
    BY <2>1, <2>8, <2>9
  <2> QED BY <2>6, <2>10 DEF f, g
<1>12. CellsOf(t) = CellsOf(s)
  <2>1. ASSUME NEW i \in Tuples(t.shape) PROVE ItemAt(t, i) \in CellsOf(s)
    <3>1. i \in [1..n -> Nat]
      BY <1>7, StridedTuple
    <3>2. \A k \in 1..n : i[k] \in Int
      BY <3>1
    <3>3. ItemAt(t, i) = ItemAt(s, Flip(i, m, n))
      BY <3>2, <1>9
    <3> QED BY <3>3, <1>10 DEF CellsOf
  <2>2. ASSUME NEW i \in Tuples(s.shape) PROVE ItemAt(s, i) \in CellsOf(t)
    <3> DEFINE f == Flip(i, m, n)
    <3>1. f \in Tuples(t.shape) /\ Flip(f, m, n) = i
      BY <1>11
    <3> HIDE DEF f
    <3>2. f \in [1..n -> Nat]
      BY <1>7, <3>1, StridedTuple
    <3>3. \A k \in 1..n : f[k] \in Int
      BY <3>2
    <3>4. ItemAt(t, f) = ItemAt(s, i)
      BY <3>1, <3>3, <1>9
    <3> QED BY <3>1, <3>4 DEF CellsOf
  <2>3. CellsOf(t) \subseteq CellsOf(s)
    BY <2>1 DEF CellsOf
  <2>4. CellsOf(s) \subseteq CellsOf(t)
    BY <2>2 DEF CellsOf
  <2> QED BY <2>3, <2>4
<1> QED BY <1>2, <1>6, <1>7, <1>9, <1>10, <1>11, <1>12 DEF t, m, IsTurned

-----------------------------------------------------------------------------
(* memoryview_copy_contents.                                                *)

\* Turned over all their axes, two slices are copied as they are.
LEMMA TurnedRight ==
    ASSUME NEW n, NEW src, Strided(src, n), IsRecord(src), src.owner = n, NEW rest,
           NEW dst, Strided(dst, n), IsRecord(dst), dst.owner = n,
           NEW from, NEW V, Reads(from, src, dst, V), NEW m, CellsOf(dst) \subseteq DOMAIN m
    PROVE  Right(CopyStrided(from, Turned(src, src.owner, rest), m, Turned(dst, dst.owner, 0)), m, dst, V)
<1> DEFINE s == Turned(src, src.owner, rest)
           d == Turned(dst, dst.owner, 0)
           F(i) == Flip(i, n, n)
           W == [i \in Tuples(d.shape) |-> V[F(i)]]
           r == CopyStrided(from, s, m, d)
<1>1. n \in Nat
  BY DEF Strided
<1>2. IsTurned(s, src, n) /\ IsTurned(d, dst, n)
  <2>1. src.owner \in 0..n /\ dst.owner \in 0..n
    BY <1>1
  <2> QED BY <2>1, TurnedItem
<1> HIDE DEF s, d
<1>3. /\ \A i : (\A k \in 1..n : i[k] \in Int) => ItemAt(s, i) = ItemAt(src, F(i))
      /\ Strided(d, n)
      /\ \A i : (\A k \in 1..n : i[k] \in Int) => ItemAt(d, i) = ItemAt(dst, F(i))
      /\ \A i \in Tuples(d.shape) : F(i) \in Tuples(dst.shape)
      /\ CellsOf(d) = CellsOf(dst)
  BY <1>2 DEF IsTurned
<1> HIDE DEF F
<1>4. \A i \in Tuples(d.shape) : \A k \in 1..n : i[k] \in Int
  <2> SUFFICES ASSUME NEW i \in Tuples(d.shape), NEW k \in 1..n PROVE i[k] \in Int
    OBVIOUS
  <2>1. i \in [1..n -> Nat]
    BY <1>3, StridedTuple
  <2> QED BY <2>1
<1>5. Reads(from, s, d, W)
  <2>1. ASSUME NEW i \in Tuples(d.shape) PROVE ItemFound(from, ItemAt(s, i), CellsOf(d)) = W[i]
    <3>1. ItemAt(s, i) = ItemAt(src, F(i))
      BY <1>3, <1>4
    <3>2. ItemFound(from, ItemAt(src, F(i)), CellsOf(dst)) = V[F(i)]
      BY <1>3 DEF Reads
    <3> QED BY <3>1, <3>2, <1>3
  <2> QED BY <2>1 DEF Reads
<1>6. \A i \in Tuples(d.shape) : W[i] = V[F(i)]
  OBVIOUS
<1> HIDE DEF W
<1>7. CellsOf(d) \subseteq DOMAIN m
  BY <1>3
<1>8. Right(r, m, d, W)
  BY <1>5, <1>7, StridedRight
<1> HIDE DEF r
<1>9. KeepsOthers(r, m, dst)
  BY <1>3, <1>8 DEF Right, KeepsOthers
<1>10. ASSUME NEW a \in CellsOf(dst) PROVE \E i \in Tuples(dst.shape) : ItemAt(dst, i) = a /\ r[a] = V[i]
  <2>1. PICK i \in Tuples(d.shape) : ItemAt(d, i) = a /\ r[a] = W[i]
    BY <1>3, <1>8 DEF Right
  <2>2. F(i) \in Tuples(dst.shape) /\ ItemAt(dst, F(i)) = a /\ r[a] = V[F(i)]
    BY <2>1, <1>3, <1>4, <1>6
  <2> QED BY <2>2
<1> QED BY <1>9, <1>10 DEF Right, r, s, d

\* Turned over any number of axes, a slice has no other cells.
LEMMA TurnedWithin ==
    ASSUME NEW n, n # 0, NEW dst, Strided(dst, n), IsRecord(dst), dst.owner \in Nat
    PROVE  CellsOf(Turned(dst, dst.owner, 0)) \subseteq CellsOf(dst)
<1> DEFINE d == Turned(dst, dst.owner, 0)
<1>1. n \in Nat /\ DOMAIN dst.shape = 1..n
  BY DEF Strided
<1>2. CASE dst.owner <= n
  <2>1. dst.owner \in 0..n
    BY <1>1, <1>2
  <2>2. IsTurned(d, dst, n)
    BY <2>1, TurnedItem
  <2> QED BY <2>2 DEF IsTurned
<1>3. CASE n < dst.owner
  <2>1. d.shape = SwapEnds(dst.shape, dst.owner, 0)
    <3>1. d = [data |-> dst.data, shape |-> SwapEnds(dst.shape, dst.owner, 0),
               strides |-> SwapEnds(dst.strides, dst.owner, 0),
               suboffsets |-> dst.suboffsets, owner |-> dst.owner]
      BY TurnedIs
    <3> HIDE DEF d
    <3> QED BY <3>1
  <2>2. 1 \in DOMAIN dst.shape /\ ~(1 > dst.owner) /\ dst.owner + 1 - 1 \notin DOMAIN dst.shape
    BY <1>1, <1>3
  <2>3. DOMAIN d.shape = DOMAIN dst.shape /\ d.shape[1] = 0
    BY <2>1, <2>2 DEF SwapEnds
  <2> HIDE DEF d
  <2>4. ASSUME NEW i \in Tuples(d.shape) PROVE FALSE
    <3>1. i \in [DOMAIN d.shape -> UNION { 0..(d.shape[k] - 1) : k \in DOMAIN d.shape }]
          /\ \A k \in DOMAIN d.shape : i[k] < d.shape[k]
      BY DEF Tuples
    <3>2. i[1] < 0 /\ i[1] \in UNION { 0..(d.shape[k] - 1) : k \in DOMAIN d.shape }
      BY <3>1, <2>2, <2>3
    <3>3. PICK k \in DOMAIN d.shape : i[1] \in 0..(d.shape[k] - 1)
      BY <3>2
    <3> QED BY <3>2, <3>3
  <2> QED BY <2>4 DEF CellsOf, d
<1> QED BY <1>1, <1>2, <1>3

\* The copies that may exchange axes which are not all of the slices' own.
Loose(src, dst, n) == ~ (src.owner = n /\ dst.owner = n) /\ BestOrder(dst) = "F"

\* A slice without axes leans C.
LEMMA NoAxisLeans ==
    ASSUME NEW s, Rank(s) = 0
    PROVE  BestOrder(s) = "C"
<1> DEFINE long == { k \in 1..Rank(s) : s.shape[k] > 1 }
<1>1. long = {}
  OBVIOUS
<1>2. Max({0} \union long) = 0
  <2>1. {0} \union long = {0, 0}
    BY <1>1
  <2>2. Max({0, 0}) = 0
    BY PairBounds
  <2> QED BY <2>1, <2>2
<1> HIDE DEF long
<1>3. StrideAt(s, 0) = 0
  BY DEF StrideAt
<1>4. BestOrder(s) = IF StrideAt(s, Max({0} \union long)) <= StrideAt(s, IF long = {} THEN 0 ELSE Min(long))
                     THEN "C" ELSE "F"
  BY DEF BestOrder, long
<1> QED BY <1>1, <1>2, <1>3, <1>4

\* What a copy does once the source is known to read V.
LEMMA CopyFromIs ==
    ASSUME NEW n, NEW src, Strided(src, n), IsRecord(src), IsDirect(src),
           NEW dst, Strided(dst, n), IsRecord(dst), IsDirect(dst), dst.owner \in Nat,
           NEW from, NEW V, Reads(from, src, dst, V), NEW m, Spaced(m), CellsOf(dst) \subseteq DOMAIN m,
           NEW order, NEW broadcasting, ~broadcasting => src.shape = dst.shape
    PROVE  /\ \A r \in CopyFrom(from, src, m, dst, order, broadcasting) : KeepsOthers(r, m, dst)
           /\ ~Loose(src, dst, n) =>
                /\ CopyFrom(from, src, m, dst, order, broadcasting) # {}
                /\ \A r \in CopyFrom(from, src, m, dst, order, broadcasting) : Right(r, m, dst, V)
<1> DEFINE R == CopyFrom(from, src, m, dst, order, broadcasting)
<1>1. n \in Nat /\ Rank(src) = n /\ Rank(dst) = n
  BY DEF Strided, Rank
<1>2. CASE ~broadcasting /\ DirectCopy(src, dst)
  <2>1. R = {CopyBytes(from, src, m, dst)}
    BY <1>2 DEF CopyFrom
  <2>2. \/ IsDense(src, "C") /\ IsDense(dst, "C")
        \/ IsDense(src, "F") /\ IsDense(dst, "F")
    BY <1>2 DEF DirectCopy, IsContig, IsDense
  <2>3. Right(CopyBytes(from, src, m, dst), m, dst, V)
    BY <1>2, <2>2, BytesRight
  <2> QED BY <2>1, <2>3 DEF Right
<1>3. CASE ~(~broadcasting /\ DirectCopy(src, dst)) /\ ~(order = "F" /\ BestOrder(dst) = "F")
  <2>1. R = {CopyStrided(from, src, m, dst)}
    BY <1>3 DEF CopyFrom, CopyOrdered
  <2>2. Right(CopyStrided(from, src, m, dst), m, dst, V)
    BY StridedRight
  <2> QED BY <2>1, <2>2 DEF Right
<1>4. CASE ~(~broadcasting /\ DirectCopy(src, dst)) /\ order = "F" /\ BestOrder(dst) = "F"
  <2>1. R = { CopyStrided(from, s, m, d) : s \in TransposeMemslice(src, from.rest), d \in TransposeMemslice(dst, 0) }
    BY <1>4 DEF CopyFrom, CopyOrdered
  <2>2. n # 0
    BY <1>1, <1>4, NoAxisLeans
  <2> DEFINE d == Turned(dst, dst.owner, 0)
             s == Turned(src, src.owner, from.rest)
  <2>3. /\ \A x \in TransposeMemslice(dst, 0) : x = d
        /\ Transposable(dst, 0) => TransposeMemslice(dst, 0) = {d}
    BY TurnedIs
  <2>4. /\ \A x \in TransposeMemslice(src, from.rest) : x = s
        /\ Transposable(src, from.rest) => TransposeMemslice(src, from.rest) = {s}
    BY TurnedIs
  <2>5. CellsOf(d) \subseteq CellsOf(dst)
    BY <2>2, TurnedWithin
  <2> HIDE DEF d, s
  <2>6. ASSUME NEW x PROVE KeepsOthers(CopyStrided(from, x, m, d), m, dst)
    BY <2>5 DEF KeepsOthers, CopyStrided
  <2>7. \A r \in R : KeepsOthers(r, m, dst)
    BY <2>1, <2>3, <2>6
  <2>8. ASSUME ~Loose(src, dst, n) PROVE R # {} /\ \A r \in R : Right(r, m, dst, V)
    <3>1. src.owner = n /\ dst.owner = n
      BY <1>4, <2>8 DEF Loose
    <3>2. Transposable(dst, 0) /\ Transposable(src, from.rest)
      <4>1. \A k \in 1..(n \div 2) : k \in 1..n /\ n + 1 - k \in 1..n /\ k <= n /\ n + 1 - k <= n
        BY <1>1
      <4>2. \A k \in 1..n : src.suboffsets[k] < 0 /\ dst.suboffsets[k] < 0
        BY <1>1 DEF IsDirect
      <4> QED BY <1>1, <3>1, <4>1, <4>2 DEF Transposable
    <3>3. R = {CopyStrided(from, s, m, d)}
      <4>1. TransposeMemslice(dst, 0) = {d} /\ TransposeMemslice(src, from.rest) = {s}
        BY <2>3, <2>4, <3>2
      <4> QED BY <2>1, <4>1
    <3>4. Right(CopyStrided(from, s, m, d), m, dst, V)
      BY <3>1, TurnedRight DEF s, d
    <3> QED BY <3>3, <3>4
  <2> QED BY <2>7, <2>8
<1> QED BY <1>2, <1>3, <1>4

\* Whatever is copied, memory holds items afterwards.
LEMMA CopyFromValues ==
    ASSUME NEW from, NEW src, NEW m, NEW dst, \A a \in DOMAIN m : m[a] \in Values,
           \A a \in DOMAIN from.items : from.items[a] \in Values, NEW order, NEW broadcasting
    PROVE  \A r \in CopyFrom(from, src, m, dst, order, broadcasting) : \A a \in DOMAIN m : r[a] \in Values
<1>1. \A s, d : /\ \A a \in DOMAIN m : CopyStrided(from, s, m, d)[a] \in Values
                /\ \A a \in DOMAIN m : CopyBytes(from, s, m, d)[a] \in Values
  BY ValuesCopied
<1>2. ASSUME NEW r \in CopyFrom(from, src, m, dst, order, broadcasting)
      PROVE  \E s, d : r = CopyStrided(from, s, m, d) \/ r = CopyBytes(from, s, m, d)
  BY DEF CopyFrom, CopyOrdered
<1> QED BY <1>1, <1>2

\* Stretching a source leaves its cells.
LEMMA StretchCells ==
    ASSUME NEW n, NEW src, Strided(src, n), IsRecord(src), NEW dst, Strided(dst, n),
           \A k \in Stretched(src, dst) : src.shape[k] = 1
    PROVE  CellsOf(Stretch(src, dst)) = CellsOf(src)
<1> DEFINE S == Stretch(src, dst)
<1>1. /\ Strided(S, n) /\ S.data = src.data /\ S.shape = src.shape
      /\ \A k \in 1..n : S.strides[k] = IF src.shape[k] # dst.shape[k] THEN 0 ELSE src.strides[k]
      /\ Stretched(src, dst) = { k \in 1..n : src.shape[k] # dst.shape[k] }
  BY StretchIs
<1> HIDE DEF S
<1>2. ASSUME NEW i \in Tuples(src.shape) PROVE ItemAt(S, i) = ItemAt(src, i)
  <2> DEFINE p == Terms(S, i)
             q == Terms(src, i)
  <2>1. i \in [1..n -> Nat] /\ \A k \in 1..n : i[k] < src.shape[k]
    BY StridedTuple
  <2>2. \A k \in 1..n : i[k] \in Int
    BY <2>1
  <2>3. ItemAt(S, i) = S.data + SumTo(p, n) /\ \A k \in 1..n : p[k] = i[k] * S.strides[k]
    BY <1>1, <2>2, StridedItem
  <2>4. ItemAt(src, i) = src.data + SumTo(q, n) /\ \A k \in 1..n : q[k] = i[k] * src.strides[k]
    BY <2>2, StridedItem
  <2> HIDE DEF p, q
  <2>5. ASSUME NEW k \in 1..n PROVE p[k] = q[k]
    <3>1. CASE src.shape[k] = dst.shape[k]
      BY <3>1, <1>1, <2>3, <2>4
    <3>2. CASE src.shape[k] # dst.shape[k]
      <4>1. src.shape[k] = 1
        BY <3>2, <1>1
      <4>2. i[k] = 0 /\ src.strides[k] \in Int /\ S.strides[k] \in Int
        BY <4>1, <2>1, <1>1 DEF Strided
      <4>3. p[k] = 0 * S.strides[k] /\ q[k] = 0 * src.strides[k]
        BY <4>2, <2>3, <2>4
      <4> QED BY <4>2, <4>3
    <3> QED BY <3>1, <3>2
  <2>6. SumTo(p, n) = SumTo(q, n)
    BY <2>5, SumSame DEF Strided
  <2> QED BY <1>1, <2>3, <2>4, <2>6
<1>3. CellsOf(S) = CellsOf(src)
  BY <1>1, <1>2 DEF CellsOf
<1> QED BY <1>3 DEF S

\* What each item of the destination gets.
Gets(m, src, dst) == [i \in Tuples(dst.shape) |-> m[ItemAt(Stretch(src, dst), i)]]

\* Read from memory, when the slices do not overlap.
LEMMA DirectReads ==
    ASSUME NEW n, NEW src, Strided(src, n), IsRecord(src), NEW dst, Strided(dst, n),
           \A k \in Stretched(src, dst) : src.shape[k] = 1,
           NEW m, CellsOf(src) \subseteq DOMAIN m, ~SlicesOverlap(Stretch(src, dst), dst)
    PROVE  Reads([items |-> m, shared |-> TRUE, rest |-> 0], Stretch(src, dst), dst, Gets(m, src, dst))
<1> DEFINE S == Stretch(src, dst)
           from == [items |-> m, shared |-> TRUE, rest |-> 0]
<1>1. Strided(S, n) /\ S.shape = src.shape
  BY StretchIs
<1>2. \A i \in Tuples(dst.shape) : /\ Home(src, dst, i) \in Tuples(src.shape)
                                   /\ ItemAt(S, i) = ItemAt(src, Home(src, dst, i))
                                   /\ ItemAt(S, Home(src, dst, i)) = ItemAt(src, Home(src, dst, i))
  BY HomeItem
<1>3. \A i \in Tuples(S.shape), j \in Tuples(dst.shape) : ItemAt(S, i) # ItemAt(dst, j)
  BY <1>1, ApartCells
<1> HIDE DEF S
<1>4. from.items = m
  OBVIOUS
<1> HIDE DEF from
<1>5. ASSUME NEW i \in Tuples(dst.shape)
      PROVE  ItemFound(from, ItemAt(S, i), CellsOf(dst)) = m[ItemAt(S, i)]
  <2> DEFINE h == Home(src, dst, i)
  <2>1. h \in Tuples(S.shape) /\ ItemAt(S, i) = ItemAt(S, h) /\ ItemAt(S, i) = ItemAt(src, h)
    BY <1>1, <1>2
  <2> HIDE DEF h
  <2>2. ItemAt(S, i) \in DOMAIN m
    BY <2>1, <1>1 DEF CellsOf
  <2>3. ItemAt(S, i) \notin CellsOf(dst)
    BY <2>1, <1>3 DEF CellsOf
  <2> QED BY <2>2, <2>3, <1>4 DEF ItemFound
<1> QED BY <1>5 DEF Reads, Gets, S, from

\* Read from the temporary copy.
LEMMA TempReads ==
    ASSUME NEW n, NEW src, Strided(src, n), IsRecord(src), NEW dst, Strided(dst, n),
           \A k \in Stretched(src, dst) : src.shape[k] = 1,
           NEW m, CellsOf(src) \subseteq DOMAIN m, NEW order, NEW rest
    PROVE  Reads([items |-> TempItems(m, Stretch(src, dst), order), shared |-> FALSE, rest |-> rest],
                 TempSlice(Stretch(src, dst), order), dst, Gets(m, src, dst))
<1> DEFINE S == Stretch(src, dst)
           t == TempSlice(S, order)
           T == TempItems(m, S, order)
           from == [items |-> T, shared |-> FALSE, rest |-> rest]
<1>1. /\ Strided(S, n) /\ IsRecord(S) /\ S.shape = src.shape
      /\ Stretched(src, dst) = { k \in 1..n : src.shape[k] # dst.shape[k] }
  BY StretchIs
<1>2. \A i \in Tuples(dst.shape) : /\ Home(src, dst, i) \in Tuples(src.shape)
                                   /\ ItemAt(S, i) = ItemAt(src, Home(src, dst, i))
                                   /\ ItemAt(S, Home(src, dst, i)) = ItemAt(src, Home(src, dst, i))
  BY HomeItem
<1>3. CellsOf(S) \subseteq DOMAIN m
  BY StretchCells
<1> HIDE DEF S
<1>4. IsTemp(t, n, S, order)
  BY <1>1, TempIs
<1>5. \A i \in Tuples(S.shape) : ItemAt(t, i) \in DOMAIN T /\ T[ItemAt(t, i)] = m[ItemAt(S, i)]
  BY <1>1, <1>3, TempHolds
<1>6. from.items = T /\ from.shared = FALSE
  OBVIOUS
<1> HIDE DEF t, T, from
<1>7. ASSUME NEW i \in Tuples(dst.shape)
      PROVE  ItemFound(from, ItemAt(t, i), CellsOf(dst)) = m[ItemAt(S, i)]
  <2> DEFINE h == Home(src, dst, i)
  <2>1. h \in Tuples(S.shape) /\ ItemAt(S, i) = ItemAt(S, h)
    BY <1>1, <1>2
  <2>2. \A k \in 1..n : h[k] = IF src.shape[k] = dst.shape[k] THEN i[k] ELSE 0
    <3>1. Len(dst.shape) = n
      BY DEF Strided
    <3> QED BY <3>1 DEF Home
  <2>3. i \in [1..n -> Nat]
    BY StridedTuple
  <2> HIDE DEF h
  <2>4. \A k \in 1..n : i[k] \in Int /\ h[k] \in Int
    BY <2>2, <2>3
  <2>5. \A k \in 1..n : i[k] = h[k] \/ t.strides[k] = 0
    BY <1>1, <1>4, <2>2 DEF IsTemp
  <2>6. ItemAt(t, i) = ItemAt(t, h)
    <3>1. Strided(t, n)
      BY <1>4 DEF IsTemp
    <3> QED BY <3>1, <2>4, <2>5, SameItem
  <2>7. ItemAt(t, i) \in DOMAIN T /\ T[ItemAt(t, i)] = m[ItemAt(S, i)]
    BY <2>1, <2>6, <1>5
  <2> QED BY <2>7, <1>6 DEF ItemFound
<1> QED BY <1>7 DEF Reads, Gets, S, t, T, from

\* What copying slices with the same number of axes does.
Copied(R, src, m, dst, n) ==
    /\ \A r \in R : KeepsOthers(r, m, dst) /\ \A a \in DOMAIN m : r[a] \in Values
    /\ ~Loose(src, dst, n) => R # {} /\ \A r \in R : Right(r, m, dst, Gets(m, src, dst))

\* A copy of matched slices, direct or through the temporary one.
LEMMA CopyMatchedIs ==
    ASSUME NEW n, NEW src, Strided(src, n), IsRecord(src), IsDirect(src), DOMAIN src.suboffsets = 1..n,
           NEW dst, Strided(dst, n), IsRecord(dst), IsDirect(dst), dst.owner \in Nat,
           Matches(src, dst), NEW m, Spaced(m), \A a \in DOMAIN m : m[a] \in Values,
           CellsOf(src) \subseteq DOMAIN m, CellsOf(dst) \subseteq DOMAIN m,
           NEW order, NEW rest
    PROVE  Copied(CopyMatched(m, Stretch(src, dst), dst, order, Stretched(src, dst) # {}, rest), src, m, dst, n)
<1> DEFINE S == Stretch(src, dst)
           V == Gets(m, src, dst)
           bc == Stretched(src, dst) # {}
           R == CopyMatched(m, S, dst, order, bc, rest)
<1>1. \A k \in Stretched(src, dst) : src.shape[k] = 1
  BY DEF Matches
<1>2. /\ Strided(S, n) /\ IsRecord(S) /\ S.shape = src.shape /\ S.owner = src.owner /\ S.suboffsets = src.suboffsets
      /\ Stretched(src, dst) = { k \in 1..n : src.shape[k] # dst.shape[k] }
  BY StretchIs
<1>3. IsDirect(S)
  <2> HIDE DEF S
  <2> QED BY <1>2 DEF IsDirect, Rank
<1>4. ~bc => S.shape = dst.shape
  <2> HIDE DEF S
  <2> SUFFICES ASSUME Stretched(src, dst) = {} PROVE S.shape = dst.shape
    OBVIOUS
  <2>1. \A k \in 1..n : src.shape[k] = dst.shape[k]
    BY <1>2
  <2>2. src.shape \in Seq(Nat) /\ dst.shape \in Seq(Nat) /\ Len(src.shape) = n /\ Len(dst.shape) = n
    BY DEF Strided
  <2>3. src.shape = dst.shape
    BY <2>1, <2>2
  <2> QED BY <2>3, <1>2
<1>5. \A x : Loose(x, dst, n) <=> ~ (x.owner = n /\ dst.owner = n) /\ BestOrder(dst) = "F"
  BY DEF Loose
<1> HIDE DEF V, bc
<1>6. CASE ~SlicesOverlap(S, dst)
  <2> DEFINE from == [items |-> m, shared |-> TRUE, rest |-> 0]
  <2>1. R = CopyFrom(from, S, m, dst, order, bc)
    BY <1>6 DEF CopyMatched
  <2>2. Reads(from, S, dst, V)
    BY <1>1, <1>6, DirectReads DEF V
  <2>3. \A a \in DOMAIN from.items : from.items[a] \in Values
    OBVIOUS
  <2> HIDE DEF S, from, R
  <2>4. /\ \A r \in CopyFrom(from, S, m, dst, order, bc) : KeepsOthers(r, m, dst)
        /\ ~Loose(S, dst, n) =>
             /\ CopyFrom(from, S, m, dst, order, bc) # {}
             /\ \A r \in CopyFrom(from, S, m, dst, order, bc) : Right(r, m, dst, V)
    BY <1>2, <1>3, <1>4, <2>2, CopyFromIs
  <2>5. \A r \in CopyFrom(from, S, m, dst, order, bc) : \A a \in DOMAIN m : r[a] \in Values
    BY <2>3, CopyFromValues
  <2>6. Copied(R, src, m, dst, n)
    BY <2>1, <2>4, <2>5, <1>2, <1>5 DEF Copied, V
  <2> QED BY <2>6 DEF R, S, bc
<1>7. CASE SlicesOverlap(S, dst)
  <2> DEFINE through == IF IsContig(S, order) THEN order ELSE BestOrder(dst)
             t == TempSlice(S, through)
             T == TempItems(m, S, through)
             from == [items |-> T, shared |-> FALSE, rest |-> rest]
  <2>1. R = CopyFrom(from, t, m, dst, through, bc)
    BY <1>7 DEF CopyMatched
  <2>2. Reads(from, t, dst, V)
    BY <1>1, TempReads DEF V
  <2>3. \A a \in DOMAIN T : T[a] \in Values
    <3> HIDE DEF S, through
    <3> QED BY TempValues
  <2>4. \A a \in DOMAIN from.items : from.items[a] \in Values
    <3> HIDE DEF T
    <3> QED BY <2>3
  <2>5. IsTemp(t, n, S, through)
    <3> HIDE DEF S, through
    <3> QED BY <1>2, TempIs
  <2> HIDE DEF S, from, R, T, t, through
  <2>6. /\ Strided(t, n) /\ IsRecord(t) /\ t.owner = src.owner /\ t.shape = S.shape
        /\ t.suboffsets = [k \in DOMAIN S.suboffsets |-> -1]
    BY <2>5, <1>2 DEF IsTemp
  <2>7. IsDirect(t)
    <3>1. Rank(t) = n /\ Rank(src) = n
      BY <2>6 DEF Strided, Rank
    <3>2. DOMAIN S.suboffsets = 1..n
      <4>1. S.suboffsets = src.suboffsets
        BY <1>2
      <4> QED BY <4>1
    <3>3. \A k \in 1..n : t.suboffsets[k] = -1
      BY <2>6, <3>2
    <3>4. \A k \in 1..n : t.suboffsets[k] < 0
      BY <3>3
    <3> QED BY <3>1, <3>4 DEF IsDirect
  <2>8. ~bc => t.shape = dst.shape
    BY <2>6, <1>4
  <2>9. /\ \A r \in CopyFrom(from, t, m, dst, through, bc) : KeepsOthers(r, m, dst)
        /\ ~Loose(t, dst, n) =>
             /\ CopyFrom(from, t, m, dst, through, bc) # {}
             /\ \A r \in CopyFrom(from, t, m, dst, through, bc) : Right(r, m, dst, V)
    BY <2>2, <2>6, <2>7, <2>8, CopyFromIs
  <2>10. \A r \in CopyFrom(from, t, m, dst, through, bc) : \A a \in DOMAIN m : r[a] \in Values
    BY <2>4, CopyFromValues
  <2>11. Copied(R, src, m, dst, n)
    BY <2>1, <2>6, <2>9, <2>10, <1>5 DEF Copied, V
  <2> QED BY <2>11 DEF R, S, bc
<1> QED BY <1>6, <1>7

-----------------------------------------------------------------------------
(* What a copy does to the views.                                           *)

\* How many axes two slices are matched over.
AxesOf(source, target) == Max({Rank(source), Rank(target)})

\* The axes of two slices are matched over as many as the longer one has.
LEMMA AxesAre ==
    ASSUME NEW source, IsDirectSlice(source), NEW target, IsDirectSlice(target)
    PROVE  /\ AxesOf(source, target) \in Nat
           /\ Rank(source) <= AxesOf(source, target) /\ Rank(target) <= AxesOf(source, target)
           /\ Rank(source) \in Nat /\ Rank(target) \in Nat
<1>1. Rank(source) \in Nat /\ Rank(target) \in Nat
  BY DirectSliceHas
<1> QED BY <1>1, PairBounds DEF AxesOf

\* The extents of both agree, or the source's is one.
LEMMA FitsIs ==
    ASSUME NEW source, IsDirectSlice(source), NEW target, IsDirectSlice(target), NEW w, NEW u
    PROVE  LET n == AxesOf(source, target) IN
           Promised!Fits(ViewOf(source, w), ViewOf(target, u))
             <=> Matches(BroadcastLeading(source, n), BroadcastLeading(target, n))
<1> DEFINE n == AxesOf(source, target)
           a == ViewOf(source, w)
           b == ViewOf(target, u)
           rs == Rank(source)
           rt == Rank(target)
           src == BroadcastLeading(source, n)
           dst == BroadcastLeading(target, n)
<1>1. n \in Nat /\ rs <= n /\ rt <= n /\ rs \in Nat /\ rt \in Nat
  BY AxesAre
<1>2. /\ a.shape = source.shape /\ b.shape = target.shape
      /\ Len(source.shape) = rs /\ Len(target.shape) = rt
  BY DEF ViewOf, Rank
<1>3. Promised!Max({rs, rt}) = n
  BY SameOperators DEF AxesOf
<1> HIDE DEF n
<1>4. /\ IsDirect(src)
      /\ \A k \in 1..n : src.shape[k] = IF k <= n - rs THEN 1 ELSE source.shape[k - (n - rs)]
  BY <1>1, LedIs
<1>5. /\ Strided(dst, n)
      /\ \A k \in 1..n : dst.shape[k] = IF k <= n - rt THEN 1 ELSE target.shape[k - (n - rt)]
  BY <1>1, LedIs
<1>6. DOMAIN dst.shape = 1..n
  <2> HIDE DEF dst
  <2> QED BY <1>5 DEF Strided
<1> HIDE DEF src, dst
<1>7. Matches(src, dst) <=> \A k \in 1..n : src.shape[k] \in {1, dst.shape[k]}
  BY <1>4, <1>6 DEF Matches, Stretched
<1> HIDE DEF a, b, rs, rt
<1>8. Promised!Fits(a, b) <=>
        \A k \in 1..n : (IF k - (n - rs) < 1 THEN 1 ELSE source.shape[k - (n - rs)])
                          \in {1, IF k - (n - rt) < 1 THEN 1 ELSE target.shape[k - (n - rt)]}
  BY <1>2, <1>3 DEF Promised!Fits
<1>9. \A k \in 1..n : /\ (k - (n - rs) < 1) <=> (k <= n - rs)
                      /\ (k - (n - rt) < 1) <=> (k <= n - rt)
  BY <1>1
<1>10. Promised!Fits(a, b) <=> Matches(src, dst)
  BY <1>4, <1>5, <1>7, <1>8, <1>9
<1> QED BY <1>10 DEF a, b, src, dst, n

\* The cell a source has for an item of the destination.
LEMMA CellIs ==
    ASSUME NEW source, IsDirectSlice(source), NEW target, IsDirectSlice(target), NEW w, NEW u,
           NEW n, n = AxesOf(source, target),
           Matches(BroadcastLeading(source, n), BroadcastLeading(target, n)),
           NEW i \in Tuples(BroadcastLeading(target, n).shape), NEW j,
           j = Dropped(i, n - Rank(target), Rank(target))
    PROVE  Promised!CellFor(ViewOf(source, w), ViewOf(target, u), j)
             = ItemAt(Stretch(BroadcastLeading(source, n), BroadcastLeading(target, n)), i)
<1> DEFINE a == ViewOf(source, w)
           b == ViewOf(target, u)
           rs == Rank(source)
           rt == Rank(target)
           src == BroadcastLeading(source, n)
           dst == BroadcastLeading(target, n)
           h == Home(src, dst, i)
           g == Dropped(h, n - rs, rs)
           c == [q \in 1..rs |-> IF q + rt - rs < 1 \/ source.shape[q] = 1 THEN 0 ELSE j[q + rt - rs]]
<1>1. n \in Nat /\ rs <= n /\ rt <= n /\ rs \in Nat /\ rt \in Nat
  BY AxesAre
<1>2. /\ Strided(src, n) /\ IsDirect(src)
      /\ \A k \in 1..n : src.shape[k] = IF k <= n - rs THEN 1 ELSE source.shape[k - (n - rs)]
  BY <1>1, LedIs
<1>3. IsRecord(src)
  <2>1. src = [data |-> source.data, shape |-> src.shape, strides |-> src.strides,
               suboffsets |-> src.suboffsets, owner |-> source.owner]
    BY <1>1, LedIs
  <2> HIDE DEF src
  <2> QED BY <2>1 DEF IsRecord
<1>4. /\ Strided(dst, n)
      /\ \A k \in 1..n : dst.shape[k] = IF k <= n - rt THEN 1 ELSE target.shape[k - (n - rt)]
  BY <1>1, LedIs
<1>5. /\ \A k \in 1..n : i[k] \in Nat /\ i[k] < dst.shape[k]
      /\ \A k \in 1..n : k <= n - rt => i[k] = 0
  BY <1>1, LedItem
<1>6. Len(dst.shape) = n /\ DOMAIN dst.shape = 1..n
  <2> HIDE DEF dst
  <2> QED BY <1>4 DEF Strided
<1>7. \A k \in Stretched(src, dst) : src.shape[k] = 1
  BY DEF Matches
<1>8. \A k \in 1..n : src.shape[k] # dst.shape[k] => src.shape[k] = 1
  <2> HIDE DEF src, dst
  <2> QED BY <1>6, <1>7 DEF Stretched
<1>9. h \in Tuples(src.shape) /\ ItemAt(Stretch(src, dst), i) = ItemAt(src, h)
  <2>1. i \in Tuples(dst.shape)
    OBVIOUS
  <2> HIDE DEF src, dst
  <2> QED BY <2>1, <1>2, <1>3, <1>4, <1>7, HomeItem
<1>10. g \in Tuples(source.shape) /\ ItemAt(src, h) = ItemAt(source, g)
  <2> HIDE DEF h
  <2> QED BY <1>1, <1>9, LedItem
<1>11. \A k \in 1..n : h[k] = IF src.shape[k] = dst.shape[k] THEN i[k] ELSE 0
  BY <1>6 DEF Home
<1>12. \A q \in 1..rt : j[q] = i[q + (n - rt)]
  BY DEF Dropped
<1>13. g = [q \in 1..rs |-> h[q + (n - rs)]]
  BY DEF Dropped
<1> HIDE DEF src, dst, h, g, rs, rt
<1>14. ASSUME NEW q \in 1..rs PROVE g[q] = c[q]
  <2> DEFINE k == q + (n - rs)
             l == q + rt - rs
  <2>1. k \in 1..n /\ ~(k <= n - rs) /\ k - (n - rs) = q /\ (k <= n - rt <=> l < 1)
        /\ (~(l < 1) => l \in 1..rt /\ l + (n - rt) = k)
    BY <1>1
  <2>2. g[q] = h[k] /\ c[q] = IF l < 1 \/ source.shape[q] = 1 THEN 0 ELSE j[l]
    BY <1>13
  <2> HIDE DEF k, l
  <2>3. h[k] = (IF src.shape[k] = dst.shape[k] THEN i[k] ELSE 0) /\ src.shape[k] = source.shape[q]
    BY <2>1, <1>2, <1>11
  <2>4. CASE l < 1
    <3>1. i[k] = 0
      BY <2>1, <2>4, <1>5
    <3> QED BY <3>1, <2>2, <2>3, <2>4
  <2>5. CASE ~(l < 1) /\ source.shape[q] = 1
    <3>1. src.shape[k] = dst.shape[k] => i[k] = 0
      <4>1. src.shape[k] = dst.shape[k] => dst.shape[k] = 1
        BY <2>3, <2>5
      <4> QED BY <4>1, <2>1, <1>5
    <3> QED BY <3>1, <2>2, <2>3, <2>5
  <2>6. CASE ~(l < 1) /\ source.shape[q] # 1
    <3>1. src.shape[k] = dst.shape[k]
      BY <2>1, <2>3, <2>6, <1>8
    <3>2. j[l] = i[k]
      BY <2>1, <2>6, <1>12
    <3> QED BY <3>1, <3>2, <2>2, <2>3, <2>6
  <2> QED BY <2>4, <2>5, <2>6
<1>15. g = c
  <2> DEFINE e == [q \in 1..rs |-> g[q]]
  <2>1. g = e
    BY <1>13
  <2>2. e = c
    BY <1>14
  <2> QED BY <2>1, <2>2
<1>16. Promised!CellFor(a, b, j) = a.at[c]
  <2>1. Len(a.shape) = rs /\ Len(b.shape) = rt /\ a.shape = source.shape
    BY DEF ViewOf, Rank, rs, rt
  <2> HIDE DEF a, b
  <2> QED BY <2>1 DEF Promised!CellFor
<1>17. a.at[g] = ItemAt(source, g)
  <2>1. a.at = [x \in Tuples(source.shape) |-> ItemAt(source, x)]
    BY DEF ViewOf
  <2> HIDE DEF a
  <2> QED BY <2>1, <1>10
<1>18. Promised!CellFor(a, b, j) = ItemAt(Stretch(src, dst), i)
  BY <1>9, <1>10, <1>15, <1>16, <1>17
<1> QED BY <1>18 DEF a, b, src, dst

\* What copying one slice to another does, where a and b are the views they are.
Copies(R, m, source, a, target, b) ==
    /\ \A r \in R : KeepsOthers(r, m, target) /\ \A c \in DOMAIN m : r[c] \in Values
    /\ R # {} => Promised!Fits(a, b)
    /\ Promised!Fits(a, b) /\ OwnRanks(source, target) =>
         /\ R # {}
         /\ \A r \in R : \A c \in CellsOf(target) : \E j \in Tuples(target.shape) :
               ItemAt(target, j) = c /\ r[c] = m[Promised!CellFor(a, b, j)]

\* Callers that keep to "ranks" stay away from them.
LEMMA NotLoose ==
    ASSUME NEW source, IsDirectSlice(source), NEW target, IsDirectSlice(target),
           OwnRanks(source, target), NEW n, n = AxesOf(source, target)
    PROVE  ~Loose(BroadcastLeading(source, n), BroadcastLeading(target, n), n)
<1> DEFINE src == BroadcastLeading(source, n)
           dst == BroadcastLeading(target, n)
<1>1. n \in Nat /\ Rank(source) <= n /\ Rank(target) <= n
  BY AxesAre
<1>2. src.owner = source.owner /\ dst.owner = target.owner
  BY <1>1, LedIs
<1>3. BestOrder(dst) = "F" => source.owner = n /\ target.owner = n
  BY DEF OwnRanks, AxesOf
<1> HIDE DEF src, dst
<1>4. ~Loose(src, dst, n)
  BY <1>2, <1>3 DEF Loose
<1> QED BY <1>4 DEF src, dst

\* memoryview_copy_contents does that to direct slices of memory.
LEMMA CopiesIs ==
    ASSUME NEW source, IsDirectSlice(source), NEW target, IsDirectSlice(target), NEW w, NEW u,
           NEW m, Spaced(m), \A c \in DOMAIN m : m[c] \in Values,
           CellsOf(source) \subseteq DOMAIN m, CellsOf(target) \subseteq DOMAIN m, NEW rest
    PROVE  Copies(CopyContents(m, source, target, rest), m, source, ViewOf(source, w),
                  target, ViewOf(target, u))
<1> DEFINE n == AxesOf(source, target)
           a == ViewOf(source, w)
           b == ViewOf(target, u)
           src == BroadcastLeading(source, n)
           dst == BroadcastLeading(target, n)
           R == CopyContents(m, source, target, rest)
<1>1. n \in Nat /\ Rank(source) <= n /\ Rank(target) <= n
  BY AxesAre
<1>2. Promised!Fits(a, b) <=> Matches(src, dst)
  BY FitsIs
<1>3. R = IF Matches(src, dst)
          THEN CopyMatched(m, Stretch(src, dst), dst, BestOrder(source), Stretched(src, dst) # {}, rest) ELSE {}
  BY DEF CopyContents, AxesOf
<1>4. OwnRanks(source, target) => ~Loose(src, dst, n)
  BY NotLoose
<1>5. CellsOf(src) = CellsOf(source) /\ CellsOf(dst) = CellsOf(target)
  BY <1>1, LedCells
<1> HIDE DEF n
<1>6. /\ Strided(src, n) /\ IsDirect(src)
      /\ Strided(dst, n) /\ IsDirect(dst) /\ dst.owner = target.owner
  BY <1>1, LedIs
<1>7. IsRecord(src) /\ DOMAIN src.suboffsets = 1..n /\ IsRecord(dst)
  <2>1. src = [data |-> source.data, shape |-> src.shape, strides |-> src.strides,
               suboffsets |-> src.suboffsets, owner |-> source.owner]
    BY <1>1, LedIs
  <2>2. src.suboffsets = Lead(source.suboffsets, n, -1)
    BY <1>1, LedIs
  <2>3. dst = [data |-> target.data, shape |-> dst.shape, strides |-> dst.strides,
               suboffsets |-> dst.suboffsets, owner |-> target.owner]
    BY <1>1, LedIs
  <2> HIDE DEF src, dst
  <2> QED BY <2>1, <2>2, <2>3 DEF IsRecord, Lead
<1>8. target.owner \in Nat
  BY DirectSliceHas
<1> DEFINE V == Gets(m, src, dst)
<1>9. ASSUME Matches(src, dst) PROVE Copied(R, src, m, dst, n)
  <2> HIDE DEF src, dst, R
  <2>1. R = CopyMatched(m, Stretch(src, dst), dst, BestOrder(source), Stretched(src, dst) # {}, rest)
    BY <1>3, <1>9
  <2>2. Copied(CopyMatched(m, Stretch(src, dst), dst, BestOrder(source), Stretched(src, dst) # {}, rest),
               src, m, dst, n)
    BY <1>5, <1>6, <1>7, <1>8, <1>9, CopyMatchedIs
  <2> QED BY <2>1, <2>2
<1>10. ASSUME Matches(src, dst), NEW i \in Tuples(dst.shape)
       PROVE  /\ Dropped(i, n - Rank(target), Rank(target)) \in Tuples(target.shape)
              /\ ItemAt(dst, i) = ItemAt(target, Dropped(i, n - Rank(target), Rank(target)))
              /\ V[i] = m[Promised!CellFor(a, b, Dropped(i, n - Rank(target), Rank(target)))]
  <2> DEFINE j == Dropped(i, n - Rank(target), Rank(target))
  <2>1. j \in Tuples(target.shape) /\ ItemAt(dst, i) = ItemAt(target, j)
    BY <1>1, LedItem
  <2>2. Promised!CellFor(a, b, j) = ItemAt(Stretch(src, dst), i)
    BY <1>10, CellIs DEF n
  <2>3. V[i] = m[ItemAt(Stretch(src, dst), i)]
    BY DEF Gets
  <2> QED BY <2>1, <2>2, <2>3
<1> HIDE DEF src, dst, R, a, b, V
<1>11. ASSUME NEW r \in R PROVE Matches(src, dst) /\ KeepsOthers(r, m, target) /\ \A c \in DOMAIN m : r[c] \in Values
  <2>1. Matches(src, dst)
    BY <1>3 DEF R
  <2>2. KeepsOthers(r, m, dst) /\ \A c \in DOMAIN m : r[c] \in Values
    BY <2>1, <1>9 DEF Copied
  <2>3. KeepsOthers(r, m, target)
    BY <2>2, <1>5 DEF KeepsOthers
  <2> QED BY <2>1, <2>2, <2>3
<1>12. ASSUME Promised!Fits(a, b), OwnRanks(source, target)
       PROVE  /\ R # {}
              /\ \A r \in R : \A c \in CellsOf(target) : \E j \in Tuples(target.shape) :
                    ItemAt(target, j) = c /\ r[c] = m[Promised!CellFor(a, b, j)]
  <2>1. Matches(src, dst) /\ ~Loose(src, dst, n)
    BY <1>2, <1>4, <1>12
  <2>2. R # {} /\ \A r \in R : Right(r, m, dst, V)
    BY <2>1, <1>9 DEF Copied, V
  <2>3. ASSUME NEW r \in R, NEW c \in CellsOf(target)
        PROVE  \E j \in Tuples(target.shape) : ItemAt(target, j) = c /\ r[c] = m[Promised!CellFor(a, b, j)]
    <3>1. PICK i \in Tuples(dst.shape) : ItemAt(dst, i) = c /\ r[c] = V[i]
      BY <2>2, <1>5 DEF Right
    <3> DEFINE j == Dropped(i, n - Rank(target), Rank(target))
    <3>2. j \in Tuples(target.shape) /\ ItemAt(dst, i) = ItemAt(target, j) /\ V[i] = m[Promised!CellFor(a, b, j)]
      BY <2>1, <1>10
    <3> HIDE DEF j
    <3> QED BY <3>1, <3>2
  <2> QED BY <2>2, <2>3
<1>13. R # {} => Promised!Fits(a, b)
  BY <1>2, <1>11
<1>14. Copies(R, m, source, a, target, b)
  BY <1>11, <1>12, <1>13 DEF Copies
<1> QED BY <1>14 DEF R, a, b

-----------------------------------------------------------------------------
(* Memory, and what is written there.                                       *)

\* A finite set of numbers has a greatest one.
LEMMA GreatestOf ==
    ASSUME NEW S, IsFiniteSet(S), S \subseteq Int, S # {}
    PROVE  Max(S) \in S /\ \A x \in S : x <= Max(S)
<1>1. PICK q \in Seq(S) : \A s \in S : \E n \in 1..Len(q) : q[n] = s
  BY DEF IsFiniteSet
<1>2. Len(q) \in Nat /\ \A k \in 1..Len(q) : q[k] \in S /\ q[k] \in Int
  <2>1. Len(q) \in Nat
    OBVIOUS
  <2>2. \A k \in 1..Len(q) : q[k] \in S
    OBVIOUS
  <2> QED BY <2>1, <2>2
<1> DEFINE T == { n \in Nat : n \in 1..Len(q) => \E a \in 1..n : \A b \in 1..n : q[b] <= q[a] }
<1>3. 0 \in T
  OBVIOUS
<1>4. ASSUME NEW n \in Nat, n \in T PROVE n + 1 \in T
  <2>1. SUFFICES ASSUME n + 1 \in 1..Len(q)
                 PROVE  \E a \in 1..(n + 1) : \A b \in 1..(n + 1) : q[b] <= q[a]
    OBVIOUS
  <2>2. CASE n = 0
    <3>1. \A b \in 1..(n + 1) : b = 1
      BY <2>2
    <3>2. q[1] <= q[1] /\ 1 \in 1..(n + 1)
      BY <1>2, <2>1, <2>2
    <3> QED BY <3>1, <3>2
  <2>3. CASE n # 0
    <3>1. n \in 1..Len(q)
      BY <2>1, <2>3, <1>2
    <3>2. PICK a \in 1..n : \A b \in 1..n : q[b] <= q[a]
      BY <1>4, <3>1
    <3> DEFINE y == n + 1
    <3>3. y \in 1..Len(q) /\ a \in 1..Len(q) /\ a \in 1..y /\ y \in 1..y
          /\ \A b \in 1..y : b = y \/ b \in 1..n
      BY <2>1, <1>2
    <3> HIDE DEF y
    <3>4. q[y] \in Int /\ q[a] \in Int /\ \A b \in 1..n : q[b] \in Int
      BY <3>1, <3>3, <1>2
    <3>5. CASE q[y] <= q[a]
      BY <3>2, <3>3, <3>5 DEF y
    <3>6. CASE ~(q[y] <= q[a])
      <4>1. q[a] <= q[y] /\ q[y] <= q[y]
        BY <3>4, <3>6
      <4>2. \A b \in 1..n : q[b] <= q[y]
        <5> SUFFICES ASSUME NEW b \in 1..n PROVE q[b] <= q[y]
          OBVIOUS
        <5>1. q[b] \in Int /\ q[b] <= q[a]
          BY <3>2, <3>4
        <5> QED BY <5>1, <4>1, <3>4
      <4> QED BY <3>3, <4>1, <4>2 DEF y
    <3> QED BY <3>5, <3>6
  <2> QED BY <2>2, <2>3
<1>5. \A n \in Nat : n \in T
  <2> HIDE DEF T
  <2> QED BY <1>3, <1>4, Induct
<1>6. Len(q) \in 1..Len(q)
  <2>1. PICK s : s \in S
    OBVIOUS
  <2>2. PICK n \in 1..Len(q) : q[n] = s
    BY <1>1, <2>1
  <2> QED BY <1>2, <2>2
<1>7. PICK a \in 1..Len(q) : \A b \in 1..Len(q) : q[b] <= q[a]
  BY <1>2, <1>5, <1>6
<1>8. q[a] \in S /\ \A x \in S : x <= q[a]
  BY <1>1, <1>2, <1>7
<1>9. \A x \in S : q[a] >= x
  BY <1>8
<1>10. Max(S) \in S /\ \A x \in S : Max(S) >= x
  BY <1>8, <1>9 DEF Max
<1> HIDE DEF Max
<1>11. ASSUME NEW x \in S PROVE x <= Max(S)
  BY <1>10
<1> QED BY <1>10, <1>11

\* Writing items leaves a memory of items.
LEMMA MemoryKept ==
    ASSUME NEW m, IsMemory(m), NEW r, DOMAIN r = DOMAIN m, \A c \in DOMAIN m : r[c] \in Values
    PROVE  IsMemory(r)
  BY DEF IsMemory

-----------------------------------------------------------------------------
(* The transpose of a whole view.                                           *)

\* Swapping the ends of all axes turns a sequence round.
LEMMA SwappedSeq ==
    ASSUME NEW n \in Nat, NEW S, NEW q \in Seq(S), Len(q) = n, NEW rest
    PROVE  SwapEnds(q, n, rest) \in Seq(S) /\ Len(SwapEnds(q, n, rest)) = n
           /\ \A k \in 1..n : SwapEnds(q, n, rest)[k] = q[n + 1 - k]
<1> DEFINE f == SwapEnds(q, n, rest)
<1>1. DOMAIN q = 1..n /\ \A k \in 1..n : q[k] \in S /\ ~(k > n) /\ n + 1 - k \in 1..n
  OBVIOUS
<1>2. f = [k \in 1..n |-> IF k > n THEN q[k] ELSE IF n + 1 - k \in 1..n THEN q[n + 1 - k] ELSE rest]
  BY <1>1 DEF SwapEnds
<1>3. \A k \in 1..n : f[k] = q[n + 1 - k] /\ f[k] \in S
  BY <1>1, <1>2
<1>4. f \in [1..n -> S]
  BY <1>2, <1>3
<1> HIDE DEF f
<1>5. f \in Seq(S) /\ Len(f) = n
  BY <1>4
<1> QED BY <1>3, <1>5 DEF f

\* slice_copy of a direct slice, and what transpose_memslice makes of it.
TurnedView(s) == Turned(SliceCopy(s), SliceCopy(s).owner, 0)

IsTurnedView(t, s) ==
    /\ IsDirectSlice(t) /\ t.owner = Rank(s) /\ Rank(t) = Rank(s)
    /\ t.shape = Reverse(s.shape)
    /\ CellsOf(t) = CellsOf(s)
    /\ \A i \in Tuples(t.shape) : Reverse(i) \in Tuples(s.shape) /\ ItemAt(t, i) = ItemAt(s, Reverse(i))

\* slice_copy keeps the items.
LEMMA SliceCopyIs ==
    ASSUME NEW s, IsDirectSlice(s)
    PROVE  /\ IsDirectSlice(SliceCopy(s)) /\ IsRecord(SliceCopy(s)) /\ Rank(SliceCopy(s)) = Rank(s)
           /\ Strided(SliceCopy(s), Rank(s)) /\ SliceCopy(s).owner = Rank(s)
           /\ SliceCopy(s).shape = s.shape /\ SliceCopy(s).suboffsets = s.suboffsets
           /\ SliceCopy(s).strides = s.strides /\ SliceCopy(s).data = s.data
           /\ CellsOf(SliceCopy(s)) = CellsOf(s)
           /\ \A i : ItemAt(SliceCopy(s), i) = ItemAt(s, i)
<1> DEFINE c == SliceCopy(s)
<1>1. c = [data |-> s.data, shape |-> s.shape, strides |-> s.strides,
           suboffsets |-> s.suboffsets, owner |-> Rank(s)]
  <2>1. s = [data |-> s.data, shape |-> s.shape, strides |-> s.strides,
             suboffsets |-> s.suboffsets, owner |-> s.owner]
    BY DirectSliceHas
  <2> QED BY <2>1 DEF SliceCopy
<1>2. /\ s \in [data : Int, shape : Seq(Nat), strides : Seq(Int), suboffsets : Seq(Int), owner : Nat]
      /\ Len(s.strides) = Rank(s) /\ Len(s.suboffsets) = Rank(s)
      /\ \A k \in 1..Rank(s) : s.suboffsets[k] < 0
  BY DEF IsDirectSlice, IsSlice, IsDirect
<1>3. Rank(s) \in Nat
  BY DirectSliceHas
<1> HIDE DEF c
<1>4. /\ c.shape = s.shape /\ c.suboffsets = s.suboffsets /\ c.strides = s.strides /\ c.data = s.data
      /\ c.owner = Rank(s) /\ IsRecord(c)
  BY <1>1 DEF IsRecord
<1>5. Rank(c) = Rank(s)
  BY <1>4 DEF Rank
<1>6. IsDirectSlice(c)
  <2>1. s.data \in Int /\ s.shape \in Seq(Nat) /\ s.strides \in Seq(Int) /\ s.suboffsets \in Seq(Int)
    BY <1>2
  <2>2. c \in [data : Int, shape : Seq(Nat), strides : Seq(Int), suboffsets : Seq(Int), owner : Nat]
    BY <1>1, <1>3, <2>1
  <2> QED BY <1>2, <1>4, <1>5, <2>2 DEF IsDirectSlice, IsSlice, IsDirect
<1>7. Strided(c, Rank(s))
  BY <1>5, <1>6, DirectStrided
<1>8. \A i : ItemAt(c, i) = ItemAt(s, i)
  BY <1>4, <1>5 DEF ItemAt
<1>9. CellsOf(c) = CellsOf(s)
  BY <1>4, <1>8 DEF CellsOf
<1> QED BY <1>4, <1>5, <1>6, <1>7, <1>8, <1>9 DEF c

\* The transpose of a whole view shows its items the other way round.
LEMMA TurnIs ==
    ASSUME NEW s, IsDirectSlice(s)
    PROVE  /\ TransposeMemslice(SliceCopy(s), 0) = {TurnedView(s)}
           /\ IsTurnedView(TurnedView(s), s)
<1> DEFINE c == SliceCopy(s)
           n == Rank(s)
           t == TurnedView(s)
<1>1. /\ IsDirectSlice(c) /\ IsRecord(c) /\ Rank(c) = n /\ Strided(c, n) /\ c.owner = n
      /\ c.shape = s.shape /\ CellsOf(c) = CellsOf(s) /\ \A i : ItemAt(c, i) = ItemAt(s, i)
  BY SliceCopyIs
<1>2. n \in Nat /\ s.shape \in Seq(Nat) /\ Len(s.shape) = n
  BY DirectSliceHas
<1>3. /\ t = Turned(c, c.owner, 0) /\ SliceCopy(s) = c
  BY DEF TurnedView
<1> HIDE DEF c, t
<1>4. Transposable(c, 0)
  <2>1. \A k \in 1..(n \div 2) : k \in 1..n /\ n + 1 - k \in 1..n /\ k <= n /\ n + 1 - k <= n
    BY <1>2
  <2>2. \A k \in 1..n : c.suboffsets[k] < 0
    BY <1>1 DEF IsDirectSlice, IsDirect
  <2> HIDE DEF n
  <2> QED BY <1>1, <2>1, <2>2 DEF Transposable
<1>5. TransposeMemslice(c, 0) = {t}
  BY <1>1, <1>3, <1>4, TurnedIs
<1>6. IsTurned(t, c, n)
  <2>1. c.owner \in 0..n
    BY <1>1, <1>2
  <2> QED BY <2>1, <1>1, <1>3, TurnedItem
<1>7. t = [data |-> c.data, shape |-> SwapEnds(c.shape, n, 0), strides |-> SwapEnds(c.strides, n, 0),
           suboffsets |-> c.suboffsets, owner |-> n]
  <2>1. Turned(c, c.owner, 0) =
          [data |-> c.data, shape |-> SwapEnds(c.shape, c.owner, 0),
           strides |-> SwapEnds(c.strides, c.owner, 0),
           suboffsets |-> c.suboffsets, owner |-> c.owner]
    BY <1>1, TurnedIs
  <2> QED BY <2>1, <1>1, <1>3
<1>8. /\ c.data \in Int /\ c.shape \in Seq(Nat) /\ Len(c.shape) = n
      /\ c.strides \in Seq(Int) /\ Len(c.strides) = n
      /\ c.suboffsets \in Seq(Int) /\ Len(c.suboffsets) = n
      /\ \A k \in 1..n : c.suboffsets[k] < 0
  BY <1>1 DEF IsDirectSlice, IsSlice, IsDirect, Rank
<1> DEFINE sh == SwapEnds(c.shape, n, 0)
           st == SwapEnds(c.strides, n, 0)
<1>9. sh \in Seq(Nat) /\ Len(sh) = n /\ \A k \in 1..n : sh[k] = c.shape[n + 1 - k]
  <2> DEFINE q == c.shape
  <2>1. n \in Nat /\ q \in Seq(Nat) /\ Len(q) = n
    BY <1>2, <1>8
  <2> HIDE DEF q, n
  <2>2. SwapEnds(q, n, 0) \in Seq(Nat) /\ Len(SwapEnds(q, n, 0)) = n
        /\ \A k \in 1..n : SwapEnds(q, n, 0)[k] = q[n + 1 - k]
    BY <2>1, SwappedSeq
  <2> QED BY <2>2 DEF q
<1>10. st \in Seq(Int) /\ Len(st) = n
  BY <1>2, <1>8, SwappedSeq
<1> HIDE DEF sh, st, n
<1>11. t.shape = sh /\ t.owner = n /\ Rank(t) = n
  BY <1>7, <1>9 DEF Rank, sh, st
<1>12. IsDirectSlice(t)
  <2>1. t \in [data : Int, shape : Seq(Nat), strides : Seq(Int), suboffsets : Seq(Int), owner : Nat]
    BY <1>2, <1>7, <1>8, <1>9, <1>10 DEF sh, st
  <2>2. t.strides = st /\ t.suboffsets = c.suboffsets
    BY <1>7 DEF st, sh
  <2> QED BY <2>1, <2>2, <1>8, <1>10, <1>11 DEF IsDirectSlice, IsSlice, IsDirect
<1>13. t.shape = Reverse(s.shape)
  <2> DEFINE y == Reverse(s.shape)
  <2>1. y \in Seq(Nat) /\ Len(y) = n /\ \A k \in 1..n : y[k] = s.shape[n + 1 - k]
    BY <1>2, TurnedShape
  <2> HIDE DEF y
  <2>2. \A k \in 1..n : y[k] = sh[k]
    BY <2>1, <1>1, <1>9
  <2>3. y = sh
    BY <2>1, <2>2, <1>9
  <2> QED BY <2>3, <1>11 DEF y
<1>14. ASSUME NEW i \in Tuples(t.shape)
       PROVE  Reverse(i) \in Tuples(s.shape) /\ ItemAt(t, i) = ItemAt(s, Reverse(i))
  <2> DEFINE y == Reverse(i)
             f == Flip(i, n, n)
  <2>1. t.shape \in Seq(Nat) /\ Len(t.shape) = n
    BY <1>9, <1>11
  <2>2. /\ y \in Tuples(Reverse(t.shape)) /\ \A k \in 1..n : y[k] = i[n + 1 - k]
        /\ DOMAIN i = 1..n
    BY <2>1, TurnedTuple
  <2>3. y \in Tuples(s.shape)
    BY <2>2, <1>2, <1>13, TurnedTwice
  <2>4. \A k \in 1..n : ~(k > n)
    BY <1>2
  <2>5. f = [k \in 1..n |-> i[n + 1 - k]]
    BY <2>4 DEF Flip
  <2>6. \A x \in Tuples(s.shape) : x = [k \in 1..n |-> x[k]]
    <3>1. Strided(s, n)
      BY DirectStrided DEF n
    <3>2. \A x \in Tuples(s.shape) : x \in [1..n -> Nat]
      BY <3>1, StridedTuple
    <3> QED BY <3>2
  <2> HIDE DEF y, f
  <2>7. y = f
    BY <2>2, <2>3, <2>5, <2>6
  <2>8. \A k \in 1..n : i[k] \in Int
    <3>1. Strided(t, n)
      BY <1>6 DEF IsTurned
    <3>2. i \in [1..n -> Nat]
      BY <3>1, StridedTuple
    <3> QED BY <3>2
  <2>9. ItemAt(t, i) = ItemAt(c, f)
    BY <2>8, <1>1, <1>6 DEF IsTurned, f
  <2> QED BY <2>3, <2>7, <2>9, <1>1 DEF y
<1>15. CellsOf(t) = CellsOf(s)
  BY <1>1, <1>6 DEF IsTurned
<1> QED BY <1>3, <1>5, <1>11, <1>12, <1>13, <1>14, <1>15 DEF t, IsTurnedView, n

-----------------------------------------------------------------------------
(* The array made for a copy.                                               *)

ArrayOf(shape, mode) ==
    [mode |-> mode, shape |-> shape, strides |-> ContigStrides(shape, mode),
     data |-> Max(DOMAIN mem) + ItemSize, items |-> ProductTo(shape, Len(shape))]

Copyable(src) == Rank(src) > 0 /\ \A k \in 1..Rank(src) : src.shape[k] > 0

\* copy_new_contig makes an array when there is something to copy.
LEMMA NewContigIs ==
    ASSUME NEW src, IsDirectSlice(src), NEW order
    PROVE  NewContig(src, order) = IF Copyable(src) THEN {ArrayOf(src.shape, order)} ELSE {}
<1> DEFINE array == ArrayOf(src.shape, order)
<1>1. ArrayServes(order, Request(order))
  <2>1. "nd" \in Request(order) \intersect BufMode(order)
    BY DEF Request, BufMode
  <2> QED BY <2>1 DEF ArrayServes
<1>2. IsDirect(src)
  BY DEF IsDirectSlice
<1>3. NewContig(src, order) = NewArray(src.shape, order)
  BY <1>1, <1>2 DEF NewContig
<1>4. HasAxes(src.shape) /\ NoEmptyAxis(src.shape) <=> Copyable(src)
  BY DEF HasAxes, NoEmptyAxis, Copyable, Rank
<1>5. NewArray(src.shape, order) = IF HasAxes(src.shape) /\ NoEmptyAxis(src.shape) THEN {array} ELSE {}
  BY DEF NewArray, ArrayOf
<1> HIDE DEF array
<1>6. NewContig(src, order) = IF Copyable(src) THEN {array} ELSE {}
  BY <1>3, <1>4, <1>5
<1> QED BY <1>6 DEF array

\* The strides of a dense slice are numbers.
LEMMA ContigIs ==
    ASSUME NEW shape \in Seq(Nat), NEW order
    PROVE  ContigStrides(shape, order) \in Seq(Int) /\ Len(ContigStrides(shape, order)) = Len(shape)
<1> DEFINE n == Len(shape)
           cs == ContigStrides(shape, order)
           r == Reverse(shape)
<1>1. n \in Nat /\ DOMAIN shape = 1..n /\ \A k \in 1..n : shape[k] \in Nat
  OBVIOUS
<1>2. r \in Seq(Nat) /\ Len(r) = n
  BY TurnedShape
<1>3. cs = [k \in 1..n |-> ItemSize * (IF order = "F" THEN ProductTo(shape, k - 1)
                                       ELSE ProductTo(r, n - k))]
  BY <1>1 DEF ContigStrides
<1> HIDE DEF r, n, cs
<1>4. \A m \in 0..n : ProductTo(shape, m) \in Nat
  BY <1>1, ProductType
<1>5. \A m \in 0..n : ProductTo(r, m) \in Nat
  <2>1. \A k \in 1..n : r[k] \in Nat
    BY <1>2
  <2> QED BY <1>1, <2>1, ProductType
<1>6. ASSUME NEW k \in 1..n PROVE cs[k] \in Int
  <2>1. k - 1 \in 0..n /\ n - k \in 0..n
    BY <1>1
  <2> DEFINE w == IF order = "F" THEN ProductTo(shape, k - 1) ELSE ProductTo(r, n - k)
  <2>2. w \in Int
    BY <2>1, <1>4, <1>5
  <2>3. cs[k] = ItemSize * w
    BY <1>3
  <2> HIDE DEF w
  <2> QED BY <2>2, <2>3, ItemSizeAssumption
<1>7. cs \in [1..n -> Int]
  BY <1>3, <1>6
<1>8. cs \in Seq(Int) /\ Len(cs) = n
  BY <1>1, <1>7
<1> QED BY <1>8 DEF n, cs

\* The slice of an array of its own: its cells are new, one for each item.
IsOwn(dst, after, src) ==
    /\ IsDirectSlice(dst) /\ dst.shape = src.shape /\ dst.owner = Rank(src) /\ Rank(dst) = Rank(src)
    /\ IsMemory(after) /\ DOMAIN after = DOMAIN mem \union CellsOf(dst)
    /\ CellsOf(dst) \intersect DOMAIN mem = {}
    /\ \A a \in DOMAIN mem : after[a] = mem[a]
    /\ \A i, j \in Tuples(dst.shape) : ItemAt(dst, i) = ItemAt(dst, j) => i = j

\* The slice of that array.
LEMMA BufferIs ==
    ASSUME NEW src, IsDirectSlice(src), NEW order
    PROVE  LET dst == ArrayBuffer(ArrayOf(src.shape, order)) IN
           /\ dst.data = Max(DOMAIN mem) + ItemSize
           /\ dst.shape = src.shape /\ dst.owner = Rank(src) /\ Rank(dst) = Rank(src)
           /\ IsDense(dst, order)
           /\ Max(DOMAIN mem) \in Int => IsDirectSlice(dst) /\ Strided(dst, Rank(src))
<1> DEFINE dst == ArrayBuffer(ArrayOf(src.shape, order))
           n == Rank(src)
           so == [k \in DOMAIN src.shape |-> -1]
           cs == ContigStrides(src.shape, order)
           data == Max(DOMAIN mem) + ItemSize
<1>1. n \in Nat /\ src.shape \in Seq(Nat) /\ Len(src.shape) = n /\ DOMAIN src.shape = 1..n
  BY DirectSliceHas
<1>2. dst = [data |-> data, shape |-> src.shape, strides |-> cs, suboffsets |-> so, owner |-> n]
  <2> DEFINE array == ArrayOf(src.shape, order)
  <2>1. dst = [data |-> array.data, shape |-> array.shape, strides |-> array.strides,
               suboffsets |-> [k \in DOMAIN array.shape |-> -1], owner |-> Len(array.shape)]
    BY DEF ArrayBuffer
  <2>2. array.data = data /\ array.shape = src.shape /\ array.strides = cs
    BY DEF ArrayOf
  <2> HIDE DEF dst, array, data, cs, n
  <2> QED BY <2>1, <2>2, <1>1
<1>3. cs \in Seq(Int) /\ Len(cs) = n
  BY <1>1, ContigIs
<1>4. so \in [1..n -> Int] /\ \A k \in 1..n : so[k] < 0
  BY <1>1
<1> HIDE DEF so
<1>5. so \in Seq(Int) /\ Len(so) = n
  BY <1>1, <1>4
<1> HIDE DEF dst, cs, data, n
<1>6. /\ dst.data = data /\ dst.shape = src.shape /\ dst.owner = n /\ Rank(dst) = n
      /\ dst.strides = cs /\ dst.suboffsets = so
  BY <1>1, <1>2 DEF Rank
<1>7. IsDense(dst, order)
  BY <1>6 DEF IsDense, cs
<1>8. ASSUME Max(DOMAIN mem) \in Int PROVE IsDirectSlice(dst) /\ Strided(dst, n)
  <2>1. data \in Int
    BY <1>8, ItemSizeAssumption DEF data
  <2>2. dst \in [data : Int, shape : Seq(Nat), strides : Seq(Int), suboffsets : Seq(Int), owner : Nat]
    BY <1>1, <1>2, <1>3, <1>5, <2>1
  <2>3. IsDirectSlice(dst)
    BY <1>3, <1>4, <1>5, <1>6, <2>2 DEF IsDirectSlice, IsSlice, IsDirect
  <2>4. Strided(dst, n)
    BY <1>6, <2>3, DirectStrided
  <2> QED BY <2>3, <2>4
<1> QED BY <1>6, <1>7, <1>8 DEF dst, data, n

\* Its cells lie behind all others.
LEMMA OwnIs ==
    ASSUME NEW src, IsDirectSlice(src), NEW order, IsMemory(mem), DOMAIN mem # {}
    PROVE  IsOwn(ArrayBuffer(ArrayOf(src.shape, order)), Allocated(ArrayOf(src.shape, order)), src)
<1> DEFINE array == ArrayOf(src.shape, order)
           dst == ArrayBuffer(array)
           after == Allocated(array)
           n == Rank(src)
           size == SizeOfShape(src.shape)
           top == Max(DOMAIN mem)
           data == top + ItemSize
           own == { data + ItemSize * x : x \in 0..(size - 1) }
<1>1. top \in Int /\ \A a \in DOMAIN mem : a <= top /\ a \in Int
  BY GreatestOf DEF IsMemory
<1>2. /\ IsDirectSlice(dst) /\ Strided(dst, n) /\ dst.shape = src.shape /\ dst.owner = n /\ Rank(dst) = n
      /\ dst.data = data /\ IsDense(dst, order)
  BY <1>1, BufferIs
<1>3. src.shape \in Seq(Nat) /\ size \in Nat
  BY DirectSliceHas, TurnedTwice
<1>4. after = [a \in DOMAIN mem \union own |-> IF a \in DOMAIN mem THEN mem[a] ELSE CHOOSE x \in Values : TRUE]
  BY DEF Allocated, ArrayOf, SizeOfShape
<1>5. \A i \in Tuples(src.shape) : ItemAt(dst, i) = data + ItemSize * Place(src.shape, i, order)
  <2> HIDE DEF dst
  <2> QED BY <1>2, DenseItem
<1>6. /\ \A i \in Tuples(src.shape) : Place(src.shape, i, order) \in 0..(size - 1)
      /\ \A i, j \in Tuples(src.shape) : Place(src.shape, i, order) = Place(src.shape, j, order) => i = j
      /\ \A x \in 0..(size - 1) : \E i \in Tuples(src.shape) : Place(src.shape, i, order) = x
  BY <1>3, PlacesAre
<1> HIDE DEF array, dst, after, n, size, top
<1>7. ItemSize \in Nat /\ ItemSize # 0 /\ data \in Int
  BY <1>1, ItemSizeAssumption
<1> HIDE DEF data
<1>8. ASSUME NEW x \in Nat, NEW y \in Nat, x < y
      PROVE  /\ data + ItemSize * x < data + ItemSize * y
             /\ data + ItemSize * x + ItemSize <= data + ItemSize * y
             /\ data + ItemSize * x \in Int /\ data <= data + ItemSize * x
  <2>1. PICK z \in Nat : y = x + 1 + z
    <3>1. y - 1 - x \in Nat /\ y = x + 1 + (y - 1 - x)
      BY <1>8
    <3> QED BY <3>1
  <2>2. ItemSize * y = ItemSize * x + ItemSize + ItemSize * z /\ ItemSize * x \in Nat /\ ItemSize * z \in Nat
    BY <1>7, <2>1
  <2> QED BY <1>7, <2>2
<1>9. ASSUME NEW a \in own PROVE a \in Int /\ top + ItemSize <= a /\ a \notin DOMAIN mem
  <2>1. PICK x \in 0..(size - 1) : a = data + ItemSize * x
    OBVIOUS
  <2>2. x \in Nat
    BY <2>1, <1>3
  <2>3. ItemSize * x \in Nat
    BY <2>2, <1>7
  <2>4. a \in Int /\ top + ItemSize <= a
    BY <2>1, <2>3, <1>1, <1>7 DEF data
  <2> QED BY <2>4, <1>1, <1>7
<1>10. CellsOf(dst) = own
  <2>1. ASSUME NEW i \in Tuples(dst.shape) PROVE ItemAt(dst, i) \in own
    BY <1>2, <1>5, <1>6
  <2>2. ASSUME NEW x \in 0..(size - 1) PROVE data + ItemSize * x \in CellsOf(dst)
    <3>1. PICK i \in Tuples(dst.shape) : Place(src.shape, i, order) = x
      BY <1>2, <1>6
    <3>2. ItemAt(dst, i) = data + ItemSize * x
      BY <3>1, <1>2, <1>5
    <3> QED BY <3>2 DEF CellsOf
  <2>3. CellsOf(dst) \subseteq own
    BY <2>1 DEF CellsOf
  <2>4. own \subseteq CellsOf(dst)
    BY <2>2
  <2> QED BY <2>3, <2>4
<1>11. IsFiniteSet(own)
  <2> DEFINE S == 0..(size - 1)
             f == [x \in S |-> data + ItemSize * x]
  <2>1. IsFiniteSet(S)
    BY <1>3, FS_Interval
  <2>2. own = { f[x] : x \in S }
    OBVIOUS
  <2>3. f \in Surjection(S, own)
    BY DEF Surjection
  <2> HIDE DEF S, f, own
  <2> QED BY <2>1, <2>3, FS_Surjection
<1>12. IsMemory(after)
  <2> HIDE DEF own
  <2>1. DOMAIN after = DOMAIN mem \union own
    BY <1>4
  <2>2. IsFiniteSet(DOMAIN after)
    BY <2>1, <1>11, FS_Union DEF IsMemory
  <2>3. DOMAIN after \subseteq Int
    BY <2>1, <1>1, <1>9
  <2>4. \A a \in DOMAIN after : after[a] \in Values
    <3>1. (CHOOSE x \in Values : TRUE) \in Values
      BY OtherAssumptions
    <3> QED BY <3>1, <2>1, <1>4 DEF IsMemory
  <2>5. ASSUME NEW a \in DOMAIN after, NEW b \in DOMAIN after, a < b PROVE a + ItemSize <= b
    <3>1. CASE a \in DOMAIN mem /\ b \in DOMAIN mem
      BY <3>1, <2>5 DEF IsMemory
    <3>2. CASE a \in DOMAIN mem /\ b \in own
      <4>1. a \in Int /\ b \in Int /\ a <= top /\ top + ItemSize <= b
        BY <3>2, <1>1, <1>9
      <4> QED BY <4>1, <1>1, <1>7
    <3>3. CASE a \in own /\ b \in DOMAIN mem
      <4>1. a \in Int /\ b \in Int /\ b <= top /\ top + ItemSize <= a
        BY <3>3, <1>1, <1>9
      <4> QED BY <4>1, <2>5, <1>1, <1>7
    <3>4. CASE a \in own /\ b \in own
      <4>1. PICK x \in 0..(size - 1) : a = data + ItemSize * x
        BY <3>4 DEF own
      <4>2. PICK y \in 0..(size - 1) : b = data + ItemSize * y
        BY <3>4 DEF own
      <4>3. x \in Nat /\ y \in Nat
        BY <1>3
      <4>4. a \in Int /\ b \in Int
        BY <3>4, <1>9
      <4>5. CASE x < y
        BY <4>1, <4>2, <4>3, <4>5, <1>8
      <4>6. CASE y < x
        <5>1. b < a
          BY <4>1, <4>2, <4>3, <4>6, <1>8
        <5> QED BY <5>1, <4>4, <2>5
      <4>7. CASE x = y
        BY <4>1, <4>2, <4>4, <4>7, <2>5
      <4> QED BY <4>3, <4>5, <4>6, <4>7
    <3> QED BY <2>1, <3>1, <3>2, <3>3, <3>4
  <2> QED BY <2>2, <2>3, <2>4, <2>5 DEF IsMemory
<1>13. ASSUME NEW i \in Tuples(dst.shape), NEW j \in Tuples(dst.shape), ItemAt(dst, i) = ItemAt(dst, j)
       PROVE  i = j
  <2> DEFINE x == Place(src.shape, i, order)
             y == Place(src.shape, j, order)
  <2>1. x \in Nat /\ y \in Nat /\ data + ItemSize * x = data + ItemSize * y
    BY <1>2, <1>3, <1>5, <1>6, <1>13
  <2>2. (x = y) => i = j
    BY <1>2, <1>6
  <2> HIDE DEF x, y
  <2>3. ItemSize * x \in Int /\ ItemSize * y \in Int
    BY <2>1, <1>7
  <2>4. ~(x < y) /\ ~(y < x)
    <3>1. x < y => data + ItemSize * x < data + ItemSize * y
      BY <2>1, <1>8
    <3>2. y < x => data + ItemSize * y < data + ItemSize * x
      BY <2>1, <1>8
    <3> QED BY <3>1, <3>2, <2>1, <2>3, <1>7
  <2> QED BY <2>1, <2>2, <2>4
<1>14. /\ DOMAIN after = DOMAIN mem \union CellsOf(dst) /\ CellsOf(dst) \intersect DOMAIN mem = {}
       /\ \A a \in DOMAIN mem : after[a] = mem[a]
  <2> HIDE DEF own
  <2> QED BY <1>4, <1>9, <1>10
<1>15. IsOwn(dst, after, src)
  BY <1>2, <1>12, <1>13, <1>14 DEF IsOwn, n
<1> QED BY <1>15 DEF dst, after, array

-----------------------------------------------------------------------------
(* What an index of a direct view selects.                                  *)

\* The buffers the theorems are about: no axis follows a pointer.
StartsDirect == IsDirect(Slice(1))

\* What unellipsify finds for an index.
FoundItems(f, index, s) ==
    /\ Cuts(s, f.items)
    /\ f.items \in Promised!Readings(index, Rank(s))
    /\ f.slices <=> ~IsItemOf(index, Rank(s))

\* What is found for an index a caller uses is a reading of it.
LEMMA IndexFacts ==
    ASSUME "slices" \in Limits, NEW v \in 1..Len(objects), IsDirectSlice(Slice(v)),
           NEW index \in Indices, UsesSlices(v, index)
    PROVE  /\ \A f \in Unellipsify(AsTuple(index), Rank(Slice(v))) : FoundItems(f, index, Slice(v))
           /\ Promised!IsPlain(index, Rank(Slice(v))) => Unellipsify(AsTuple(index), Rank(Slice(v))) # {}
           /\ IsIndex(index)
           /\ IsItemOf(index, Rank(Slice(v))) => Promised!IsPlain(index, Rank(Slice(v)))
<1> DEFINE s == Slice(v)
           nd == Rank(s)
           found == Unellipsify(AsTuple(index), nd)
<1>1. nd \in Nat
  BY DirectSliceHas
<1>2. IsIndex(index)
  BY IndicesAssumption DEF IsIndex
<1>3. \A f \in found : \A k \in 1..nd : AsPython(s.shape[k], f.items[k])
  BY DEF UsesSlices, ShapeOf
<1> HIDE DEF nd
<1>4. /\ \A f \in found : f.items \in Promised!Readings(index, nd) /\ (f.slices <=> ~IsItemOf(index, nd))
      /\ Promised!IsPlain(index, nd) => found # {}
      /\ \A items \in Promised!Readings(index, nd) : items \in [1..nd -> AxisItems(index)]
      /\ \A item \in AxisItems(index) : IsAxisItem(item)
      /\ IsItemOf(index, nd) => Promised!IsPlain(index, nd)
  BY <1>1, <1>2, Found
<1> HIDE DEF found, s
<1>5. ASSUME NEW f \in found PROVE Cuts(s, f.items)
  <2>1. f.items \in [1..nd -> AxisItems(index)]
    BY <1>4
  <2> QED BY <2>1, <1>3, <1>4 DEF Cuts, nd
<1> QED BY <1>2, <1>4, <1>5 DEF FoundItems, nd, s, found

\* An index of numbers is read as those numbers.
LEMMA NumbersRead ==
    ASSUME NEW index, NEW nd \in Nat, IsItemOf(index, nd), index \in Seq(Range(index)),
           NEW items \in Promised!Readings(index, nd), Promised!IsPlain(index, nd)
    PROVE  \A k \in 1..nd : items[k] = index[k] /\ items[k].kind = "index"
<1>1. Len(index) = nd /\ DOMAIN index = 1..nd /\ \A k \in 1..nd : index[k].kind = "index"
  BY DEF IsItemOf
<1>2. Promised!DotsOf(index) = {}
  BY <1>1 DEF Promised!DotsOf, Promised!IsDots
<1>3. items = Promised!Expanded(index, nd)
  BY DEF Promised!Readings
<1>4. Promised!Expanded(index, nd) =
        [k \in 1..nd |-> IF k <= nd THEN index[k]
                         ELSE IF k > nd - 0 THEN index[k - nd + nd] ELSE Promised!Everything]
  BY <1>1, <1>2 DEF Promised!Expanded
<1>5. \A k \in 1..nd : k <= nd
  OBVIOUS
<1> QED BY <1>1, <1>3, <1>4, <1>5

\* The slice that items cut.
LEMMA CutFacts ==
    ASSUME NEW s, IsDirectSlice(s), NEW items, Cuts(s, items)
    PROVE  /\ \A p : MemviewSlice(p, s, items) = IF Rank(s) > 0 /\ Enters(s, items) THEN {MadeOf(s, items)} ELSE {}
           /\ Enters(s, items) => /\ IsDirectSlice(MadeOf(s, items)) /\ MadeOf(s, items).owner = s.owner
                                  /\ CellsOf(MadeOf(s, items)) \subseteq CellsOf(s)
                                  /\ Rank(MadeOf(s, items)) = Promised!Kept(items, Rank(s))
           /\ Enters(s, items) <=> Promised!Legal(s.shape, items)
<1>1. DOMAIN items = 1..Rank(s) /\ \A l \in 1..Rank(s) : IsAxisItem(items[l])
  BY DEF Cuts
<1>2. \A p : MemviewSlice(p, s, items) = IF Rank(s) > 0 /\ Enters(s, items) THEN {MadeOf(s, items)} ELSE {}
  BY <1>1, CutIs DEF Enters
<1>3. ASSUME Enters(s, items)
      PROVE  /\ IsDirectSlice(MadeOf(s, items)) /\ MadeOf(s, items).owner = s.owner
             /\ CellsOf(MadeOf(s, items)) \subseteq CellsOf(s)
             /\ Rank(MadeOf(s, items)) = Promised!Kept(items, Rank(s))
  <2>1. \A l \in 1..Rank(s) : items[l].kind = "slice" => ExtentOf(s.shape[l], items[l]) \in Nat
    BY <1>3, CutExtents
  <2>2. /\ IsDirectSlice(MadeOf(s, items)) /\ MadeOf(s, items).owner = s.owner
        /\ Rank(MadeOf(s, items)) = Promised!Kept(items, Rank(s))
    BY <1>1, <2>1, MadeIs
  <2>3. \A i \in Tuples(MadeOf(s, items).shape) :
           /\ SourceOf(s, items, i) \in Tuples(s.shape)
           /\ ItemAt(MadeOf(s, items), i) = ItemAt(s, SourceOf(s, items, i))
    BY <1>3, SourceIn
  <2>4. CellsOf(MadeOf(s, items)) \subseteq CellsOf(s)
    BY <2>3 DEF CellsOf
  <2> QED BY <2>2, <2>4
<1>4. Enters(s, items) <=> Promised!Legal(s.shape, items)
  <2>1. DOMAIN s.shape = 1..Rank(s) /\ \A k \in 1..Rank(s) : s.shape[k] \in Nat
    BY DirectSliceHas
  <2>2. \A k \in 1..Rank(s) : CanEnter(s.shape[k], items[k])
          <=> IF items[k].kind = "slice" THEN items[k].step # {0}
              ELSE Promised!PositionOf(s.shape[k], items[k], 0) \in 0..(s.shape[k] - 1)
    BY <1>1, <2>1, EnterIs
  <2> QED BY <2>1, <2>2 DEF Enters, Promised!Legal
<1> QED BY <1>2, <1>3, <1>4

\* The tuple where the axes are entered.
EntryTuple(s, items) == [k \in 1..Rank(s) |-> EntryOf(s.shape[k], items[k])]

\* The one item that numbers select.
LEMMA PointerIs ==
    ASSUME NEW s, IsDirectSlice(s), NEW items, Cuts(s, items),
           \A k \in 1..Rank(s) : items[k].kind = "index"
    PROVE  /\ \A p : GetItemPointer(p, s, items) =
                        IF Enters(s, items) THEN {ItemAt(s, EntryTuple(s, items))} ELSE {}
           /\ Enters(s, items) =>
                /\ EntryTuple(s, items) \in Tuples(s.shape)
                /\ MadeOf(s, items).shape = <<>>
                /\ ItemAt(MadeOf(s, items), <<>>) = ItemAt(s, EntryTuple(s, items))
           /\ Promised!Kept(items, Rank(s)) = 0
<1> DEFINE r == Rank(s)
           e == EntryTuple(s, items)
<1>1. r \in Nat /\ s.shape \in Seq(Nat) /\ Len(s.shape) = r /\ \A k \in 1..r : s.shape[k] \in Nat
  BY DirectSliceHas
<1>2. DOMAIN items = 1..r /\ \A l \in 1..r : IsAxisItem(items[l]) /\ items[l].kind # "slice"
  BY DEF Cuts
<1>3. \A k \in 1..r : e[k] = EntryOf(s.shape[k], items[k]) /\ e[k] \in Int
  BY <1>1, <1>2, EntryIs DEF EntryTuple
<1>4. \A p : Entered(p, s, e) = ItemAt(s, e)
  <2> HIDE DEF e
  <2> QED BY <1>3, EnteredIs
<1>5. \A p : GetItemPointer(p, s, items) = IF Enters(s, items) THEN {ItemAt(s, e)} ELSE {}
  BY <1>4 DEF GetItemPointer, Enters, EntryTuple
<1>6. Promised!Kept(items, r) = 0
  <2> HIDE DEF r
  <2> DEFINE T == { k \in Nat : k <= r => Promised!Kept(items, k) = 0 }
  <2>1. 0 \in T
    BY <1>1, <1>2, KeptIs
  <2>2. ASSUME NEW k \in Nat, k \in T PROVE k + 1 \in T
    <3> SUFFICES ASSUME k + 1 <= r PROVE Promised!Kept(items, k + 1) = 0
      OBVIOUS
    <3>1. k < r /\ k + 1 \in 1..r
      BY <1>1
    <3>2. Promised!Kept(items, k + 1) = Promised!Kept(items, k) + (IF items[k + 1].kind = "slice" THEN 1 ELSE 0)
      BY <1>1, <1>2, <3>1, KeptIs
    <3>3. items[k + 1].kind # "slice" /\ Promised!Kept(items, k) = 0
      BY <2>2, <3>1, <1>1, <1>2
    <3> QED BY <3>2, <3>3
  <2>3. \A k \in Nat : k \in T
    <3> HIDE DEF T
    <3> QED BY <2>1, <2>2, Induct
  <2> QED BY <1>1, <2>3
<1>7. ASSUME Enters(s, items)
      PROVE  /\ e \in Tuples(s.shape) /\ MadeOf(s, items).shape = <<>>
             /\ ItemAt(MadeOf(s, items), <<>>) = ItemAt(s, e)
  <2>1. \A k \in 1..r : e[k] \in 0..(s.shape[k] - 1)
    <3> SUFFICES ASSUME NEW k \in 1..r PROVE e[k] \in 0..(s.shape[k] - 1)
      OBVIOUS
    <3>1. CanEnter(s.shape[k], items[k])
      BY <1>7 DEF Enters
    <3>2. EntryOf(s.shape[k], items[k]) \in 0..(s.shape[k] - 1)
      BY <3>1, <1>2 DEF CanEnter
    <3> QED BY <3>2, <1>3
  <2>2. e \in [1..r -> Nat]
    <3>1. \A k \in 1..r : e[k] \in Nat
      BY <2>1, <1>1
    <3>2. e = [k \in 1..r |-> e[k]]
      BY DEF EntryTuple
    <3> HIDE DEF e
    <3> QED BY <3>1, <3>2
  <2>3. e \in Tuples(s.shape)
    <3> HIDE DEF e, r
    <3>1. \A k \in 1..r : e[k] < s.shape[k]
      BY <2>1, <1>1
    <3> QED BY <2>2, <3>1, <1>1, TupleIs
  <2>4. MadeOf(s, items).shape = <<>>
    <3>1. \A l \in 1..Rank(s) : items[l].kind = "slice" => ExtentOf(s.shape[l], items[l]) \in Nat
      BY <1>2
    <3>2. /\ Rank(MadeOf(s, items)) = Promised!Kept(items, Rank(s)) /\ IsDirectSlice(MadeOf(s, items))
      BY <1>2, <3>1, MadeIs
    <3> DEFINE y == MadeOf(s, items)
    <3> HIDE DEF y
    <3>3. Len(y.shape) = 0 /\ y.shape \in Seq(Nat)
      BY <3>2, <1>6, DirectSliceHas DEF Rank, y
    <3>4. y.shape = <<>>
      BY <3>3
    <3> QED BY <3>4 DEF y
  <2>5. ItemAt(MadeOf(s, items), <<>>) = ItemAt(s, SourceOf(s, items, <<>>))
    <3>1. \A l \in 1..Rank(s) : items[l].kind = "slice" => ExtentOf(s.shape[l], items[l]) \in Nat
      BY <1>2
    <3>2. 1..Promised!Kept(items, Rank(s)) = {}
      BY <1>6
    <3>3. \A j \in 1..Promised!Kept(items, Rank(s)) : <<>>[j] \in Int
      BY <3>2
    <3> QED BY <1>2, <3>1, <3>3, MadeItem
  <2>6. SourceOf(s, items, <<>>) = e
    <3>1. \A k \in 1..r : EntryOf(s.shape[k], items[k]) + 0 = e[k]
      BY <1>3
    <3>2. SourceOf(s, items, <<>>) = [k \in 1..r |-> e[k]]
      BY <1>2, <3>1 DEF SourceOf
    <3>3. e = [k \in 1..r |-> e[k]]
      BY DEF EntryTuple
    <3> QED BY <3>2, <3>3
  <2> QED BY <2>3, <2>4, <2>5, <2>6
<1> QED BY <1>5, <1>6, <1>7

-----------------------------------------------------------------------------
(* The inductive invariant: every object is a direct slice of memory.       *)

Slices == [data : Int, shape : Seq(Nat), strides : Seq(Int), suboffsets : Seq(Int), owner : Nat]

\* What is known of the objects and the memory they show.
ObjectsIn(objs, m) ==
    /\ objs \in Seq([slice : Slices, writable : BOOLEAN])
    /\ Len(objs) \in 1..MaxViews
    /\ \A v \in 1..Len(objs) : IsDirectSlice(objs[v].slice) /\ CellsOf(objs[v].slice) \subseteq DOMAIN m

OutcomeIn(o) == o.kind \in {"none", "done", "item", "refused", "memory"} /\ o.item \subseteq Values

Inv ==
    /\ IsMemory(mem)
    /\ ObjectsIn(objects, mem)
    /\ writes \in 0..MaxWrites
    /\ OutcomeIn(outcome)

\* The record of an object.
LEMMA ObjectRecord ==
    ASSUME Inv, NEW v \in 1..Len(objects)
    PROVE  objects[v] \in [slice : Slices, writable : BOOLEAN]
<1> DEFINE O == [slice : Slices, writable : BOOLEAN]
<1>1. objects \in Seq(O)
  BY DEF Inv, ObjectsIn
<1> HIDE DEF O
<1>2. objects[v] \in O
  BY <1>1
<1> QED BY <1>2 DEF O

\* The objects stay what they are when memory keeps its cells.
LEMMA ObjectsKept ==
    ASSUME NEW objs, NEW m, ObjectsIn(objs, m), NEW r, DOMAIN m \subseteq DOMAIN r
    PROVE  ObjectsIn(objs, r)
  BY DEF ObjectsIn

\* Another object with a slice of memory.
LEMMA ObjectAdded ==
    ASSUME NEW objs, NEW m, ObjectsIn(objs, m), Len(objs) < MaxViews,
           NEW s, IsDirectSlice(s), NEW w \in BOOLEAN, NEW r, DOMAIN m \subseteq DOMAIN r,
           CellsOf(s) \subseteq DOMAIN r
    PROVE  /\ ObjectsIn(Append(objs, [slice |-> s, writable |-> w]), r)
           /\ Len(Append(objs, [slice |-> s, writable |-> w])) = Len(objs) + 1
           /\ \A v \in 1..Len(objs) : Append(objs, [slice |-> s, writable |-> w])[v] = objs[v]
           /\ Append(objs, [slice |-> s, writable |-> w])[Len(objs) + 1] = [slice |-> s, writable |-> w]
<1> DEFINE o == [slice |-> s, writable |-> w]
           O == [slice : Slices, writable : BOOLEAN]
<1>1. o \in O /\ o.slice = s
  BY DEF IsDirectSlice, IsSlice, Slices
<1> HIDE DEF o, O
<1>2. objs \in Seq(O) /\ MaxViews \in Nat /\ Len(objs) \in Nat
  BY OtherAssumptions DEF ObjectsIn, O
<1>3. Append(objs, o) \in Seq(O) /\ Len(Append(objs, o)) = Len(objs) + 1
      /\ (\A v \in 1..Len(objs) : Append(objs, o)[v] = objs[v]) /\ Append(objs, o)[Len(objs) + 1] = o
  BY <1>1, <1>2
<1> DEFINE q == Append(objs, o)
<1> HIDE DEF q
<1>4. \A v \in 1..Len(q) : v \in 1..Len(objs) \/ v = Len(objs) + 1
  BY <1>2, <1>3 DEF q
<1>5. ASSUME NEW v \in 1..Len(q) PROVE IsDirectSlice(q[v].slice) /\ CellsOf(q[v].slice) \subseteq DOMAIN r
  <2>1. CASE v \in 1..Len(objs)
    <3>1. q[v] = objs[v]
      BY <2>1, <1>3 DEF q
    <3> QED BY <2>1, <3>1 DEF ObjectsIn
  <2>2. CASE v = Len(objs) + 1
    <3>1. q[v] = o
      BY <2>2, <1>3 DEF q
    <3> QED BY <3>1, <1>1
  <2> QED BY <2>1, <2>2, <1>4
<1>6. q \in Seq(O) /\ Len(q) \in 1..MaxViews
  BY <1>2, <1>3 DEF q
<1>7. ObjectsIn(q, r)
  BY <1>5, <1>6 DEF ObjectsIn, O
<1> QED BY <1>3, <1>7 DEF q, o

\* The first object is a view of a buffer in memory.
LEMMA InvInit ==
    ASSUME Init, StartsDirect
    PROVE  Inv
<1>1. PICK e \in Exports : /\ mem = e.mem /\ ptr = e.ptr
                           /\ objects = <<[slice |-> e.slice, writable |-> e.writable]>>
                           /\ outcome = [kind |-> "none", item |-> {}] /\ writes = 0
  BY DEF Init
<1>2. /\ IsSlice(e.slice) /\ e.writable \in BOOLEAN /\ IsMemory(e.mem)
      /\ \A i \in Tuples(e.slice.shape) : Entered(e.ptr, e.slice, i) \in DOMAIN e.mem
  BY ExportsAssumption
<1>3. IsDirectSlice(e.slice)
  <2>1. Slice(1) = e.slice
    BY <1>1 DEF Slice
  <2> QED BY <1>2, <2>1 DEF StartsDirect, IsDirectSlice
<1>4. CellsOf(e.slice) \subseteq DOMAIN mem
  <2>1. ASSUME NEW i \in Tuples(e.slice.shape) PROVE ItemAt(e.slice, i) \in DOMAIN mem
    <3>1. i \in [1..Rank(e.slice) -> Nat]
      BY <1>3, DirectStrided, StridedTuple
    <3>2. \A k \in 1..Rank(e.slice) : i[k] \in Int
      BY <3>1
    <3>3. Entered(e.ptr, e.slice, i) = ItemAt(e.slice, i)
      BY <1>3, <3>2, EnteredIs
    <3> QED BY <3>3, <1>1, <1>2
  <2> QED BY <2>1 DEF CellsOf
<1> DEFINE s == e.slice
           w == e.writable
<1>5. s \in Slices /\ w \in BOOLEAN
  BY <1>2 DEF IsSlice, Slices
<1>6. ObjectsIn(objects, mem)
  <2>1. objects = <<[slice |-> s, writable |-> w]>> /\ IsDirectSlice(s) /\ CellsOf(s) \subseteq DOMAIN mem
    BY <1>1, <1>3, <1>4
  <2> HIDE DEF s, w
  <2>2. objects \in Seq([slice : Slices, writable : BOOLEAN]) /\ Len(objects) = 1 /\ objects[1].slice = s
    BY <2>1, <1>5
  <2>3. 1 \in 1..MaxViews /\ \A v \in 1..Len(objects) : v = 1
    BY <2>2, OtherAssumptions
  <2> QED BY <2>1, <2>2, <2>3 DEF ObjectsIn
<1>7. writes \in 0..MaxWrites /\ OutcomeIn(outcome)
  BY <1>1, OtherAssumptions DEF OutcomeIn
<1> QED BY <1>1, <1>2, <1>6, <1>7 DEF Inv

-----------------------------------------------------------------------------
(* What each operation does to an object.                                   *)

\* What the invariant says of one object.
LEMMA ObjectIs ==
    ASSUME Inv, NEW v \in 1..Len(objects)
    PROVE  /\ IsDirectSlice(Slice(v)) /\ CellsOf(Slice(v)) \subseteq DOMAIN mem
           /\ objects[v].writable \in BOOLEAN
<1>1. objects[v] \in [slice : Slices, writable : BOOLEAN]
  BY ObjectRecord
<1> QED BY <1>1 DEF Inv, ObjectsIn, Slice

\* A step that changes neither memory nor the objects.
LEMMA InvQuiet ==
    ASSUME Inv, UNCHANGED <<mem, objects, writes>>, OutcomeIn(outcome')
    PROVE  Inv'
  BY DEF Inv

\* How an operation can end.
LEMMA EndedIs ==
    ASSUME NEW kind \in {"done", "refused", "memory"}, Ended(kind)
    PROVE  OutcomeIn(outcome')
  BY DEF Ended, OutcomeIn

\* A step that makes a view of the cells there are.
LEMMA InvMade ==
    ASSUME Inv, Len(objects) < MaxViews, NEW v \in 1..Len(objects), NEW s, IsDirectSlice(s),
           CellsOf(s) \subseteq CellsOf(Slice(v)), objects' = Append(objects, FromSlice(s, v)),
           Ended("done"), UNCHANGED <<mem, ptr, writes>>
    PROVE  Inv'
<1>1. CellsOf(s) \subseteq DOMAIN mem /\ objects[v].writable \in BOOLEAN
  BY ObjectIs
<1> DEFINE w == objects[v].writable
           q == Append(objects, FromSlice(s, v))
<1>2. ObjectsIn(Append(objects, [slice |-> s, writable |-> w]), mem)
  <2> HIDE DEF w
  <2>1. w \in BOOLEAN
    BY <1>1 DEF w
  <2>2. ObjectsIn(objects, mem)
    BY DEF Inv
  <2> QED BY <1>1, <2>1, <2>2, ObjectAdded
<1>3. ObjectsIn(q, mem)
  BY <1>2 DEF FromSlice
<1> HIDE DEF q
<1>4. objects' = q /\ mem' = mem /\ writes' = writes
  BY DEF q
<1>5. OutcomeIn(outcome')
  BY EndedIs
<1> QED BY <1>3, <1>4, <1>5 DEF Inv

\* A step that writes items.
LEMMA InvWritten ==
    ASSUME Inv, writes < MaxWrites, NEW r, DOMAIN r = DOMAIN mem, \A c \in DOMAIN mem : r[c] \in Values,
           Written(r)
    PROVE  Inv'
<1>1. mem' = r /\ writes' = writes + 1 /\ objects' = objects /\ Ended("done")
  BY DEF Written
<1>2. IsMemory(r)
  BY MemoryKept DEF Inv
<1>3. ObjectsIn(objects, r)
  BY ObjectsKept DEF Inv
<1>4. OutcomeIn(outcome')
  BY <1>1, EndedIs
<1>5. writes + 1 \in 0..MaxWrites
  BY OtherAssumptions DEF Inv
<1> QED BY <1>1, <1>2, <1>3, <1>4, <1>5 DEF Inv

\* A refusal changes nothing.
LEMMA RefuseIs ==
    ASSUME Inv, Refuse \/ NoMemory
    PROVE  Inv'
<1>1. OutcomeIn(outcome') /\ UNCHANGED <<mem, objects, writes>>
  BY EndedIs DEF Refuse, NoMemory
<1> QED BY <1>1, InvQuiet

\* A transpose shows the cells of the object.
LEMMA InvTurn ==
    ASSUME Inv, Len(objects) < MaxViews, NEW v \in 1..Len(objects), Turn(v)
    PROVE  Inv'
<1> DEFINE s == Slice(v)
           t == TurnedView(s)
<1>1. IsDirectSlice(s)
  BY ObjectIs
<1>2. TransposeMemslice(SliceCopy(s), 0) = {t} /\ IsTurnedView(t, s)
  BY <1>1, TurnIs
<1> HIDE DEF t
<1>3. \/ /\ objects' = Append(objects, FromSlice(t, v)) /\ Ended("done") /\ UNCHANGED <<mem, ptr, writes>>
      \/ Refuse
  BY <1>2 DEF Turn
<1>4. IsDirectSlice(t) /\ CellsOf(t) \subseteq CellsOf(Slice(v))
  BY <1>2 DEF IsTurnedView
<1> QED BY <1>3, <1>4, InvMade, RefuseIs

\* So does what an index selects.
LEMMA InvGetItem ==
    ASSUME "slices" \in Limits, Inv, Len(objects) < MaxViews, NEW v \in 1..Len(objects),
           NEW index \in Indices, UsesSlices(v, index), GetItem(v, index)
    PROVE  Inv'
<1> DEFINE s == Slice(v)
           found == Unellipsify(AsTuple(index), Rank(s))
<1>1. IsDirectSlice(s) /\ CellsOf(s) \subseteq DOMAIN mem
  BY ObjectIs
<1>2. /\ \A f \in found : FoundItems(f, index, s)
      /\ IsItemOf(index, Rank(s)) => Promised!IsPlain(index, Rank(s))
      /\ IsIndex(index)
  BY <1>1, IndexFacts
<1> HIDE DEF found
<1>3. CASE Itself(v)
  <2>1. OutcomeIn(outcome') /\ UNCHANGED <<mem, objects, writes>>
    BY <1>3, EndedIs DEF Itself
  <2> QED BY <2>1, InvQuiet
<1>4. CASE found = {} /\ Refuse
  BY <1>4, RefuseIs
<1>5. ASSUME NEW f \in found, GetSlice(v, f) PROVE Inv'
  <2>1. Cuts(s, f.items)
    BY <1>2 DEF FoundItems
  <2>2. MemviewSlice(ptr, s, f.items) = IF Rank(s) > 0 /\ Enters(s, f.items) THEN {MadeOf(s, f.items)} ELSE {}
    BY <1>1, <2>1, CutFacts
  <2>3. Enters(s, f.items) => /\ IsDirectSlice(MadeOf(s, f.items))
                              /\ CellsOf(MadeOf(s, f.items)) \subseteq CellsOf(s)
    BY <1>1, <2>1, CutFacts
  <2>4. CASE Refuse
    BY <2>4, RefuseIs
  <2>5. CASE ~Refuse
    <3> DEFINE y == MadeOf(s, f.items)
    <3>1. objects' = Append(objects, FromSlice(y, v)) /\ Ended("done") /\ UNCHANGED <<mem, ptr, writes>>
          /\ Enters(s, f.items)
      BY <1>5, <2>2, <2>5 DEF GetSlice, SliceOf
    <3>2. IsDirectSlice(y) /\ CellsOf(y) \subseteq CellsOf(s)
      BY <2>3, <3>1
    <3> HIDE DEF y
    <3> QED BY <3>1, <3>2, InvMade
  <2> QED BY <2>4, <2>5
<1>6. ASSUME NEW f \in found, ~f.slices, ReadItem(v, f.items) PROVE Inv'
  <2>1. Cuts(s, f.items) /\ IsItemOf(index, Rank(s)) /\ f.items \in Promised!Readings(index, Rank(s))
    BY <1>2, <1>6 DEF FoundItems
  <2>2. \A k \in 1..Rank(s) : f.items[k].kind = "index"
    BY <1>1, <1>2, <2>1, NumbersRead, DirectSliceHas DEF IsIndex
  <2>3. /\ GetItemPointer(ptr, s, f.items) =
             IF Enters(s, f.items) THEN {ItemAt(s, EntryTuple(s, f.items))} ELSE {}
        /\ Enters(s, f.items) => EntryTuple(s, f.items) \in Tuples(s.shape)
    BY <1>1, <2>1, <2>2, PointerIs
  <2>4. \A a \in GetItemPointer(ptr, s, f.items) : a \in DOMAIN mem
    BY <1>1, <2>3 DEF CellsOf
  <2>5. CASE Refuse
    BY <2>5, RefuseIs
  <2>6. CASE ~Refuse
    <3>1. PICK a \in GetItemPointer(ptr, s, f.items) :
             outcome' = [kind |-> "item", item |-> {mem[a]}] /\ UNCHANGED <<mem, ptr, objects, writes>>
      BY <1>6, <2>6 DEF ReadItem
    <3>2. mem[a] \in Values
      BY <2>4 DEF Inv, IsMemory
    <3>3. OutcomeIn(outcome')
      BY <3>1, <3>2 DEF OutcomeIn
    <3> QED BY <3>1, <3>3, InvQuiet
  <2> QED BY <2>5, <2>6
<1> QED BY <1>3, <1>4, <1>5, <1>6 DEF GetItem, found

\* What a selection is.
LEMMA SelectionIs ==
    ASSUME Inv, NEW v \in 1..Len(objects), NEW items, Cuts(Slice(v), items)
    PROVE  /\ Selection(v, items) \subseteq SliceOf(v, items)
           /\ \A d \in SliceOf(v, items) :
                 /\ d = MadeOf(Slice(v), items) /\ Enters(Slice(v), items) /\ Rank(Slice(v)) > 0
                 /\ IsDirectSlice(d) /\ CellsOf(d) \subseteq DOMAIN mem
                 /\ CellsOf(d) \subseteq CellsOf(Slice(v))
           /\ SliceOf(v, items) # {} <=> Rank(Slice(v)) > 0 /\ Enters(Slice(v), items)
           /\ Selection(v, items) # {} <=> /\ SliceOf(v, items) # {}
                                           /\ \E k \in DOMAIN items : items[k].kind = "slice"
<1> DEFINE s == Slice(v)
           y == MadeOf(s, items)
<1>1. IsDirectSlice(s) /\ CellsOf(s) \subseteq DOMAIN mem
  BY ObjectIs
<1>2. SliceOf(v, items) = IF Rank(s) > 0 /\ Enters(s, items) THEN {y} ELSE {}
  BY <1>1, CutFacts DEF SliceOf
<1>3. Enters(s, items) => IsDirectSlice(y) /\ CellsOf(y) \subseteq CellsOf(s)
  BY <1>1, CutFacts
<1> HIDE DEF s, y
<1>4. \A d \in SliceOf(v, items) : /\ d = y /\ Enters(s, items) /\ Rank(s) > 0
                                   /\ IsDirectSlice(d) /\ CellsOf(d) \subseteq DOMAIN mem
                                   /\ CellsOf(d) \subseteq CellsOf(s)
  BY <1>1, <1>2, <1>3
<1>5. Selection(v, items) \subseteq SliceOf(v, items)
      /\ (Selection(v, items) # {} <=> /\ SliceOf(v, items) # {}
                                       /\ \E k \in DOMAIN items : items[k].kind = "slice")
  BY DEF Selection
<1> QED BY <1>2, <1>4, <1>5 DEF s, y

\* Memory holds values at addresses that do not overlap.
LEMMA InvSpaced ==
    ASSUME Inv
    PROVE  Spaced(mem) /\ \A c \in DOMAIN mem : mem[c] \in Values
  BY DEF Inv, IsMemory, Spaced

\* An assignment writes values to cells there are.
LEMMA InvAssign ==
    ASSUME "slices" \in Limits, Inv, writes < MaxWrites, NEW v \in 1..Len(objects),
           NEW index \in Indices, UsesSlices(v, index),
           NEW w \in 1..Len(objects), Assign(v, index, w)
    PROVE  Inv'
<1> DEFINE s == Slice(v)
           found == Unellipsify(AsTuple(index), Rank(s))
<1>1. IsDirectSlice(s)
  BY ObjectIs
<1>2. \A f \in found : FoundItems(f, index, s)
  BY <1>1, IndexFacts
<1> HIDE DEF found
<1>3. CASE Refuse \/ NoMemory
  BY <1>3, RefuseIs
<1>4. ASSUME NEW f \in found, NEW dst \in Selection(v, f.items), NEW rest,
             NEW m \in CopyContents(mem, Slice(w), dst, rest), Written(m)
      PROVE  Inv'
  <2>1. IsDirectSlice(dst) /\ CellsOf(dst) \subseteq DOMAIN mem
    BY <1>2, SelectionIs DEF FoundItems
  <2>2. IsDirectSlice(Slice(w)) /\ CellsOf(Slice(w)) \subseteq DOMAIN mem
    BY ObjectIs
  <2>3. Copies(CopyContents(mem, Slice(w), dst, rest), mem, Slice(w),
             ViewOf(Slice(w), TRUE), dst, ViewOf(dst, TRUE))
    BY <2>1, <2>2, InvSpaced, CopiesIs
  <2>4. DOMAIN m = DOMAIN mem /\ \A c \in DOMAIN mem : m[c] \in Values
    BY <2>3 DEF Copies, KeepsOthers
  <2> QED BY <1>4, <2>4, InvWritten
<1>5. ASSUME NEW f \in found, SetSlice(v, f, w), ~(Refuse \/ NoMemory) PROVE Inv'
  BY <1>4, <1>5 DEF SetSlice
<1> QED BY <1>3, <1>5 DEF Assign, found

\* So does filling.
LEMMA InvFill ==
    ASSUME Inv, writes < MaxWrites, NEW v \in 1..Len(objects), NEW index \in Indices,
           NEW x \in Fills, Fill(v, index, x)
    PROVE  Inv'
<1> DEFINE s == Slice(v)
           found == Unellipsify(AsTuple(index), Rank(s))
<1>1. x \in Values /\ \A c \in DOMAIN mem : mem[c] \in Values
  BY InvSpaced, OtherAssumptions
<1>2. CASE Refuse
  BY <1>2, RefuseIs
<1>3. ASSUME NEW f \in found, SetScalar(v, f, x), ~Refuse PROVE Inv'
  <2>1. PICK dst : Written(SliceAssignScalar(mem, dst, x))
    BY <1>3 DEF SetScalar
  <2> DEFINE r == SliceAssignScalar(mem, dst, x)
  <2>2. DOMAIN r = DOMAIN mem /\ \A c \in DOMAIN mem : r[c] \in Values
    BY <1>1 DEF SliceAssignScalar
  <2>3. Written(r)
    BY <2>1
  <2> HIDE DEF r
  <2> QED BY <2>2, <2>3, InvWritten
<1>4. ASSUME NEW f \in found, SetItem(v, f, x), ~Refuse PROVE Inv'
  <2>1. PICK a : Written([mem EXCEPT ![a] = x])
    BY <1>4 DEF SetItem
  <2> DEFINE r == [mem EXCEPT ![a] = x]
  <2>2. DOMAIN r = DOMAIN mem /\ \A c \in DOMAIN mem : r[c] \in Values
    BY <1>1
  <2>3. Written(r)
    BY <2>1
  <2> HIDE DEF r
  <2> QED BY <2>2, <2>3, InvWritten
<1> QED BY <1>2, <1>3, <1>4 DEF Fill

\* An object whose items can be copied has an item.
LEMMA CopyableHas ==
    ASSUME NEW s, IsDirectSlice(s), Copyable(s)
    PROVE  Tuples(s.shape) # {}
<1>1. s.shape \in Seq(Nat) /\ Len(s.shape) = Rank(s) /\ Rank(s) \in Nat
      /\ \A k \in 1..Rank(s) : s.shape[k] \in Nat
  BY DirectSliceHas
<1> DEFINE i == [k \in 1..Rank(s) |-> 0]
<1>2. i \in [1..Len(s.shape) -> Nat] /\ \A k \in 1..Len(s.shape) : i[k] < s.shape[k]
  BY <1>1 DEF Copyable
<1> HIDE DEF i
<1>3. i \in Tuples(s.shape)
  BY <1>1, <1>2, TupleIs
<1> QED BY <1>3

\* What copying to an array of its own gives.
CopiedTo(v, order, dst, after) ==
    /\ Copyable(Slice(v))
    /\ IsOwn(dst, after, Slice(v))
    /\ mem' \in CopyContents(after, SliceCopy(Slice(v)), dst, 0)
    /\ objects' = Append(objects, [slice |-> dst, writable |-> TRUE])
    /\ writes' = writes + 1 /\ Ended("done")

\* Copying makes an array of its own, or is refused, or finds no memory.
LEMMA CopyIs ==
    ASSUME Inv, NEW v \in 1..Len(objects), NEW order, Copy(v, order)
    PROVE  \/ \E dst, after : CopiedTo(v, order, dst, after)
           \/ Refuse /\ ~Copyable(Slice(v))
           \/ NoMemory
<1> DEFINE s == Slice(v)
           c == SliceCopy(s)
           array == ArrayOf(c.shape, order)
           dst == ArrayBuffer(array)
           after == Allocated(array)
<1>1. IsDirectSlice(s) /\ CellsOf(s) \subseteq DOMAIN mem /\ IsMemory(mem)
  BY ObjectIs DEF Inv
<1>2. IsDirectSlice(c) /\ Rank(c) = Rank(s) /\ c.shape = s.shape
  BY <1>1, SliceCopyIs
<1>3. NewContig(c, order) = IF Copyable(s) THEN {array} ELSE {}
  <2>1. NewContig(c, order) = IF Copyable(c) THEN {array} ELSE {}
    BY <1>2, NewContigIs
  <2>2. Copyable(c) <=> Copyable(s)
    <3> HIDE DEF c
    <3> QED BY <1>2 DEF Copyable
  <2> QED BY <2>1, <2>2
<1>4. ASSUME Copyable(s) PROVE IsOwn(dst, after, s)
  <2>1. DOMAIN mem # {}
    BY <1>1, <1>4, CopyableHas DEF CellsOf
  <2>2. IsOwn(dst, after, c)
    BY <1>1, <1>2, <2>1, OwnIs
  <2> HIDE DEF dst, after, c
  <2> QED BY <2>2, <1>2 DEF IsOwn
<1> HIDE DEF array
<1>5. CASE NoMemory
  BY <1>5
<1>6. CASE NewContig(c, order) = {} /\ Refuse
  BY <1>3, <1>6
<1>7. CASE Copyable(s) /\ NewContig(c, order) = {array} /\ ~NoMemory /\ ~(NewContig(c, order) = {} /\ Refuse)
  <2>1. /\ mem' \in CopyContents(after, c, dst, 0)
        /\ objects' = Append(objects, [slice |-> dst, writable |-> TRUE])
        /\ writes' = writes + 1 /\ Ended("done") /\ UNCHANGED ptr
    BY <1>7 DEF Copy
  <2>2. CopiedTo(v, order, dst, after)
    BY <1>4, <1>7, <2>1 DEF CopiedTo
  <2> QED BY <2>2
<1>8. CASE ~Copyable(s) /\ NewContig(c, order) = {} /\ ~NoMemory /\ ~Refuse
  BY <1>8 DEF Copy
<1> QED BY <1>3, <1>5, <1>6, <1>7, <1>8

\* What copying to it leaves.
LEMMA CopiedFacts ==
    ASSUME Inv, NEW v \in 1..Len(objects), NEW order, NEW dst, NEW after, CopiedTo(v, order, dst, after)
    PROVE  /\ Copies(CopyContents(after, SliceCopy(Slice(v)), dst, 0), after, SliceCopy(Slice(v)),
                     ViewOf(SliceCopy(Slice(v)), objects[v].writable), dst, ViewOf(dst, TRUE))
           /\ DOMAIN mem' = DOMAIN after /\ IsMemory(mem')
           /\ DOMAIN mem \subseteq DOMAIN mem' /\ CellsOf(dst) \subseteq DOMAIN mem'
           /\ IsDirectSlice(dst)
<1> DEFINE s == Slice(v)
           c == SliceCopy(s)
           w == objects[v].writable
           R == CopyContents(after, c, dst, 0)
<1>1. IsDirectSlice(s) /\ CellsOf(s) \subseteq DOMAIN mem
  BY ObjectIs
<1>2. IsDirectSlice(c) /\ CellsOf(c) = CellsOf(s)
  BY <1>1, SliceCopyIs
<1>3. /\ IsDirectSlice(dst) /\ IsMemory(after) /\ DOMAIN after = DOMAIN mem \union CellsOf(dst)
      /\ mem' \in R
  BY DEF CopiedTo, IsOwn
<1>4. Spaced(after) /\ \A a \in DOMAIN after : after[a] \in Values
  BY <1>3 DEF IsMemory, Spaced
<1> HIDE DEF c, w
<1>5. Copies(R, after, c, ViewOf(c, w), dst, ViewOf(dst, TRUE))
  BY <1>1, <1>2, <1>3, <1>4, CopiesIs
<1> HIDE DEF R
<1>6. DOMAIN mem' = DOMAIN after /\ \A a \in DOMAIN after : mem'[a] \in Values
  BY <1>3, <1>5 DEF Copies, KeepsOthers
<1> DEFINE r == mem'
<1> HIDE DEF r
<1>7. IsMemory(r)
  BY <1>3, <1>6, MemoryKept DEF r
<1> QED BY <1>3, <1>5, <1>6, <1>7 DEF R, c, w, r

\* A copy adds an object and its cells.
LEMMA InvCopy ==
    ASSUME Inv, Len(objects) < MaxViews, writes < MaxWrites, NEW v \in 1..Len(objects), NEW order, Copy(v, order)
    PROVE  Inv'
<1>1. CASE Refuse \/ NoMemory
  BY <1>1, RefuseIs
<1>2. ASSUME NEW dst, NEW after, CopiedTo(v, order, dst, after) PROVE Inv'
  <2>1. /\ IsMemory(mem') /\ DOMAIN mem \subseteq DOMAIN mem' /\ CellsOf(dst) \subseteq DOMAIN mem'
        /\ IsDirectSlice(dst)
    BY <1>2, CopiedFacts
  <2> DEFINE r == mem'
             q == Append(objects, [slice |-> dst, writable |-> TRUE])
  <2>2. objects' = q /\ writes' = writes + 1 /\ Ended("done")
    BY <1>2 DEF CopiedTo
  <2>3. ObjectsIn(objects, mem)
    BY DEF Inv
  <2>4. DOMAIN mem \subseteq DOMAIN r /\ CellsOf(dst) \subseteq DOMAIN r
    BY <2>1
  <2> HIDE DEF r
  <2> DEFINE yes == TRUE
  <2> HIDE DEF yes
  <2>5. yes \in BOOLEAN
    BY DEF yes
  <2>6. ObjectsIn(Append(objects, [slice |-> dst, writable |-> yes]), r)
    BY <2>1, <2>3, <2>4, <2>5, ObjectAdded
  <2>7. ObjectsIn(q, r)
    BY <2>6 DEF yes
  <2> HIDE DEF q
  <2>8. writes + 1 \in 0..MaxWrites
    BY OtherAssumptions DEF Inv
  <2>9. OutcomeIn(outcome')
    BY <2>2, EndedIs
  <2>10. mem' = r
    BY DEF r
  <2> QED BY <2>1, <2>2, <2>7, <2>8, <2>9, <2>10 DEF Inv
<1> QED BY <1>1, <1>2, CopyIs

\* Every step keeps the invariant.
LEMMA InvNext ==
    ASSUME "slices" \in Limits, Inv, [Next]_vars
    PROVE  Inv'
<1>1. CASE UNCHANGED vars
  BY <1>1 DEF vars, Inv
<1>2. ASSUME NEW v \in 1..Len(objects), Len(objects) < MaxViews, Make(v) PROVE Inv'
  <2>1. CASE Turn(v)
    BY <1>2, <2>1, InvTurn
  <2>2. ASSUME NEW index \in Indices, UsesSlices(v, index), GetItem(v, index) PROVE Inv'
    BY <1>2, <2>2, InvGetItem
  <2> QED BY <1>2, <2>1, <2>2 DEF Make
<1>3. ASSUME NEW v \in 1..Len(objects), writes < MaxWrites, Write(v) PROVE Inv'
  <2>1. ASSUME NEW order, Len(objects) < MaxViews, Copy(v, order) PROVE Inv'
    BY <1>3, <2>1, InvCopy
  <2>2. ASSUME NEW index \in Indices, UsesSlices(v, index), NEW w \in 1..Len(objects), Assign(v, index, w)
        PROVE  Inv'
    BY <1>3, <2>2, InvAssign
  <2>3. ASSUME NEW index \in Indices, NEW x \in Fills, Fill(v, index, x) PROVE Inv'
    BY <1>3, <2>3, InvFill
  <2> QED BY <1>3, <2>1, <2>2, <2>3 DEF Write
<1> QED BY <1>1, <1>2, <1>3 DEF Next

\* The inductive invariant: in every reachable state the objects hold direct slices of
\* memory, which holds items that do not overlap.  Callers keep to "slices"; outside
\* it slice_memviewslice may make an axis longer than what it was cut from.
THEOREM InvAlways == "slices" \in Limits => (Spec /\ StartsDirect => []Inv)
<1>1. SUFFICES ASSUME "slices" \in Limits PROVE Spec /\ StartsDirect => []Inv
  OBVIOUS
<1>2. Init /\ StartsDirect => Inv
  BY InvInit
<1>3. Inv /\ [Next]_vars => Inv'
  BY <1>1, InvNext
<1> QED BY <1>2, <1>3, PTL DEF Spec

\* No item of a direct slice in memory is off memory.
LEMMA InvInMemory ==
    ASSUME Inv
    PROVE  InMemory
<1> SUFFICES ASSUME NEW v \in 1..Len(objects), NEW i \in Tuples(ShapeOf(v))
             PROVE  Entered(ptr, Slice(v), i) \in DOMAIN mem
  BY DEF InMemory
<1>1. IsDirectSlice(Slice(v)) /\ CellsOf(Slice(v)) \subseteq DOMAIN mem /\ i \in Tuples(Slice(v).shape)
  BY ObjectIs DEF ShapeOf
<1>2. i \in [1..Rank(Slice(v)) -> Nat]
  BY <1>1, DirectStrided, StridedTuple
<1>3. \A k \in 1..Rank(Slice(v)) : i[k] \in Int
  BY <1>2
<1>4. Entered(ptr, Slice(v), i) = ItemAt(Slice(v), i)
  BY <1>1, <1>3, EnteredIs
<1> QED BY <1>1, <1>4 DEF CellsOf

\* The invariant says more than the types.
LEMMA InvTypeOK ==
    ASSUME Inv
    PROVE  TypeOK
<1>1. \A v \in 1..Len(objects) : objects[v].writable \in BOOLEAN /\ IsSlice(Slice(v))
  <2> SUFFICES ASSUME NEW v \in 1..Len(objects) PROVE objects[v].writable \in BOOLEAN /\ IsSlice(Slice(v))
    OBVIOUS
  <2>1. objects[v] \in [slice : Slices, writable : BOOLEAN]
    BY ObjectRecord
  <2> QED BY <2>1 DEF Inv, ObjectsIn, Slice, IsDirectSlice
<1>2. InMemory
  BY InvInMemory
<1> QED BY <1>1, <1>2 DEF Inv, ObjectsIn, OutcomeIn, TypeOK, IsMemory

\* The objects of direct buffers are slices with as many strides and suboffsets as extents,
\* and whatever is cut, turned, copied and filled, no item of theirs is off memory, for every
\* shape and stride, when callers keep to "slices".
THEOREM TypeCorrect == "slices" \in Limits => (Spec /\ StartsDirect => []TypeOK)
<1>1. Inv => TypeOK
  BY InvTypeOK
<1>2. "slices" \in Limits => (Spec /\ StartsDirect => []Inv)
  BY InvAlways
<1> QED BY <1>1, <1>2, PTL

-----------------------------------------------------------------------------
(* What an object tells of itself.                                          *)

\* What the object of a slice tells.
TellOf(s) ==
    [length |-> IF Rank(s) >= 1 THEN Head(s.shape) ELSE 0,
     size |-> ProductTo(s.shape, Rank(s)),
     bytes |-> ProductTo(s.shape, Rank(s)) * ItemSize,
     contig |-> { order \in {"C", "F"} : IsContig(s, order) }]

\* Cardinality means the same in both modules.
LEMMA SameCardinality == \A S : Promised!Cardinality(S) = Cardinality(S)
  BY DEF Promised!Cardinality, Cardinality

\* The first item of a slice that has one is where its data starts.
LEMMA FirstItem ==
    ASSUME NEW n, NEW s, Strided(s, n), NEW i \in Tuples(s.shape)
    PROVE  /\ [k \in DOMAIN s.shape |-> 0] \in Tuples(s.shape)
           /\ ItemAt(s, [k \in DOMAIN s.shape |-> 0]) = s.data
<1> DEFINE z == [k \in DOMAIN s.shape |-> 0]
<1>1. n \in Nat /\ DOMAIN s.shape = 1..n /\ \A k \in 1..n : s.shape[k] \in Nat /\ s.strides[k] \in Int
  BY DEF Strided
<1>2. i \in [1..n -> Nat] /\ \A k \in 1..n : i[k] < s.shape[k]
  BY StridedTuple
<1>3. z \in [1..n -> Nat] /\ \A k \in 1..n : z[k] = 0 /\ z[k] < s.shape[k]
  BY <1>1, <1>2
<1> HIDE DEF z
<1>4. z \in Tuples(s.shape)
  BY <1>3, StridedTuple
<1>5. \A k \in 1..n : z[k] \in Int
  BY <1>3
<1>6. /\ ItemAt(s, z) = s.data + SumTo(Terms(s, z), n)
      /\ \A k \in 1..n : Terms(s, z)[k] = z[k] * s.strides[k]
  BY <1>5, StridedItem
<1>7. \A k \in 1..n : Terms(s, z)[k] = 0 * s.strides[k]
  BY <1>3, <1>6
<1>8. SumTo(Terms(s, z), n) = 0 * SumTo(s.strides, n)
  <2> DEFINE q == Terms(s, z)
  <2> HIDE DEF q
  <2>1. \A k \in 1..n : s.strides[k] \in Int /\ q[k] = 0 * s.strides[k]
    BY <1>1, <1>7 DEF q
  <2>2. SumTo(q, n) = 0 * SumTo(s.strides, n)
    BY <1>1, <2>1, SumScaled
  <2> QED BY <2>2 DEF q
<1>9. SumTo(s.strides, n) \in Int
  <2>1. \A k \in 1..n : s.strides[k] \in Int
    BY <1>1
  <2>2. n \in 0..n
    BY <1>1
  <2> QED BY <1>1, <2>1, <2>2, SumType
<1>10. s.data \in Int
  BY DEF Strided
<1>11. ItemAt(s, z) = s.data
  BY <1>6, <1>8, <1>9, <1>10
<1> QED BY <1>4, <1>11 DEF z

\* An object tells the number of its items and bytes, and the orders it claims
\* are orders its items are in.
LEMMA TruthfulIs ==
    ASSUME NEW s, IsDirectSlice(s), NEW w
    PROVE  Promised!Truthful(ViewOf(s, w), TellOf(s))
<1> DEFINE a == ViewOf(s, w)
<1>1. /\ a.shape = s.shape /\ a.at = [i \in Tuples(s.shape) |-> ItemAt(s, i)]
  BY DEF ViewOf
<1>2. Strided(s, Rank(s)) /\ s.shape \in Seq(Nat) /\ Rank(s) = Len(s.shape) /\ Rank(s) \in Nat
  BY DirectStrided, DirectSliceHas DEF Rank
<1> HIDE DEF a
<1>3. Cardinality(DOMAIN a.at) = ProductTo(s.shape, Rank(s))
  BY <1>1, <1>2, TuplesCounted
<1>4. ProductTo(s.shape, Rank(s)) \in Nat
  BY <1>2, TurnedTwice DEF SizeOfShape
<1>5. TellOf(s).size = Promised!Cardinality(DOMAIN a.at)
  BY <1>3, SameCardinality DEF TellOf
<1>6. TellOf(s).bytes = ItemSize * TellOf(s).size
  BY <1>4, ItemSizeAssumption DEF TellOf
<1>7. TellOf(s).length = (IF a.shape = <<>> THEN 0 ELSE Head(a.shape))
  <2>1. CASE a.shape = <<>>
    BY <1>1, <1>2, <2>1 DEF TellOf
  <2>2. CASE a.shape # <<>>
    <3>1. Len(s.shape) >= 1
      BY <1>1, <1>2, <2>2
    <3> QED BY <1>1, <1>2, <2>2, <3>1 DEF TellOf
  <2> QED BY <2>1, <2>2
<1>8. ASSUME NEW order \in TellOf(s).contig, NEW i \in DOMAIN a.at
      PROVE  a.at[i] - a.at[[k \in DOMAIN a.shape |-> 0]] = ItemSize * Promised!Place(a.shape, i, order)
  <2>1. IsDense(s, order)
    BY <1>8 DEF TellOf, IsContig, IsDense
  <2>2. i \in Tuples(s.shape) /\ a.at[i] = ItemAt(s, i)
    BY <1>1, <1>8
  <2> DEFINE z == [k \in DOMAIN a.shape |-> 0]
             p == Place(s.shape, i, order)
  <2>3. z \in Tuples(s.shape) /\ ItemAt(s, z) = s.data
    BY <1>1, <1>2, <2>2, FirstItem
  <2> HIDE DEF z
  <2>4. a.at[z] = s.data
    BY <1>1, <2>3
  <2>5. ItemAt(s, i) = s.data + ItemSize * p
    BY <1>2, <2>1, <2>2, DenseItem
  <2>6. p \in 0..(SizeOfShape(s.shape) - 1)
    BY <1>2, <2>2, PlacesAre
  <2>7. Promised!Place(a.shape, i, order) = p
    BY <1>1, SameOperators
  <2>8. SizeOfShape(s.shape) \in Nat
    BY <1>2, TurnedTwice
  <2> HIDE DEF p
  <2>9. p \in Int
    BY <2>6, <2>8
  <2>10. ItemSize * p \in Int /\ s.data \in Int
    BY <2>9, ItemSizeAssumption, <1>2 DEF Strided
  <2>11. a.at[i] - a.at[z] = ItemSize * p
    BY <2>2, <2>4, <2>5, <2>10
  <2> QED BY <2>11, <2>7 DEF z
<1> QED BY <1>5, <1>6, <1>7, <1>8 DEF Promised!Truthful, a

-----------------------------------------------------------------------------
(* The views the objects are, as a function of the objects.                 *)

\* The view one object is.
ViewIn(p, s, w) ==
    [shape |-> s.shape, at |-> [i \in Tuples(s.shape) |-> Entered(p, s, i)],
     writable |-> w,
     direct |-> [k \in DOMAIN s.shape |->
        (IF IsDirect(s) THEN [j \in DOMAIN s.shape |-> -1] ELSE s.suboffsets)[k] < 0]]

ViewsOf(objs) == [v \in 1..Len(objs) |-> ViewOf(objs[v].slice, objs[v].writable)]
TellsOf(objs) == [v \in 1..Len(objs) |-> TellOf(objs[v].slice)]

\* The view of a direct slice does not depend on pointers.
LEMMA ViewInIs ==
    ASSUME NEW p, NEW s, IsDirectSlice(s), NEW w
    PROVE  ViewIn(p, s, w) = ViewOf(s, w)
<1>1. DOMAIN s.shape = 1..Rank(s) /\ IsDirect(s)
  BY DirectSliceHas DEF IsDirectSlice
<1>2. ASSUME NEW i \in Tuples(s.shape) PROVE Entered(p, s, i) = ItemAt(s, i)
  <2>1. i \in [1..Rank(s) -> Nat]
    BY DirectStrided, StridedTuple
  <2>2. \A k \in 1..Rank(s) : i[k] \in Int
    BY <2>1
  <2> QED BY <2>2, EnteredIs
<1>3. [i \in Tuples(s.shape) |-> Entered(p, s, i)] = [i \in Tuples(s.shape) |-> ItemAt(s, i)]
  BY <1>2
<1>4. [k \in DOMAIN s.shape |-> (IF IsDirect(s) THEN [j \in DOMAIN s.shape |-> -1] ELSE s.suboffsets)[k] < 0]
        = [k \in 1..Rank(s) |-> TRUE]
  <2> DEFINE minus == [j \in DOMAIN s.shape |-> -1]
  <2>1. (IF IsDirect(s) THEN minus ELSE s.suboffsets) = minus
    BY <1>1
  <2>2. \A k \in DOMAIN s.shape : minus[k] = -1
    OBVIOUS
  <2> HIDE DEF minus
  <2>3. \A k \in DOMAIN s.shape : ((IF IsDirect(s) THEN minus ELSE s.suboffsets)[k] < 0) = TRUE
    BY <2>1, <2>2
  <2>4. [k \in DOMAIN s.shape |-> (IF IsDirect(s) THEN minus ELSE s.suboffsets)[k] < 0]
          = [k \in 1..Rank(s) |-> TRUE]
    BY <1>1, <2>3
  <2> QED BY <2>4 DEF minus
<1> QED BY <1>3, <1>4 DEF ViewIn, ViewOf

\* What is known of each object.
LEMMA ObjectsHave ==
    ASSUME NEW objs, NEW m, ObjectsIn(objs, m)
    PROVE  /\ Len(objs) \in Nat /\ Len(objs) \in 1..Len(objs)
           /\ \A v \in 1..Len(objs) : /\ IsDirectSlice(objs[v].slice) /\ objs[v].writable \in BOOLEAN
                                      /\ CellsOf(objs[v].slice) \subseteq DOMAIN m
           /\ \A p : [v \in 1..Len(objs) |-> ViewIn(p, objs[v].slice, objs[v].writable)] = ViewsOf(objs)
<1>1. objs \in Seq([slice : Slices, writable : BOOLEAN]) /\ Len(objs) \in 1..MaxViews
  BY DEF ObjectsIn
<1>2. Len(objs) \in Nat /\ Len(objs) \in 1..Len(objs)
  BY <1>1, OtherAssumptions
<1>3. \A v \in 1..Len(objs) : objs[v] \in [slice : Slices, writable : BOOLEAN]
  <2> DEFINE O == [slice : Slices, writable : BOOLEAN]
  <2>1. objs \in Seq(O)
    BY <1>1
  <2> HIDE DEF O
  <2>2. \A v \in 1..Len(objs) : objs[v] \in O
    BY <2>1
  <2> QED BY <2>2 DEF O
<1>4. \A v \in 1..Len(objs) : /\ IsDirectSlice(objs[v].slice) /\ objs[v].writable \in BOOLEAN
                              /\ CellsOf(objs[v].slice) \subseteq DOMAIN m
  BY <1>3 DEF ObjectsIn
<1>5. ASSUME NEW p
      PROVE  [v \in 1..Len(objs) |-> ViewIn(p, objs[v].slice, objs[v].writable)] = ViewsOf(objs)
  <2>1. \A v \in 1..Len(objs) : ViewIn(p, objs[v].slice, objs[v].writable)
                                  = ViewOf(objs[v].slice, objs[v].writable)
    BY <1>4, ViewInIs
  <2> QED BY <2>1 DEF ViewsOf
<1> QED BY <1>2, <1>4, <1>5

\* Under the invariant the mapped views are those.
LEMMA ViewsAre ==
    ASSUME Inv
    PROVE  Views = ViewsOf(objects) /\ Tells = TellsOf(objects)
<1>1. Views = [v \in 1..Len(objects) |-> ViewIn(ptr, objects[v].slice, objects[v].writable)]
  BY DEF Views, ViewIn, ShapeOf, Slice, AddressesOf, SuboffsetsOf
<1>2. ObjectsIn(objects, mem)
  BY DEF Inv
<1>3. Views = ViewsOf(objects)
  BY <1>1, <1>2, ObjectsHave
<1>4. Tells = TellsOf(objects)
  BY DEF Tells, TellsOf, TellOf, LengthOf, SizeOf, BytesOf, ContigOrders, ShapeOf, Slice
<1> QED BY <1>3, <1>4

\* The same after a step.
LEMMA ViewsAreThen ==
    ASSUME Inv'
    PROVE  Views' = ViewsOf(objects') /\ Tells' = TellsOf(objects')
<1>1. Views' = [v \in 1..Len(objects') |-> ViewIn(ptr', objects'[v].slice, objects'[v].writable)]
  BY DEF Views, ViewIn, ShapeOf, Slice, AddressesOf, SuboffsetsOf
<1>2. ObjectsIn(objects', mem')
  BY DEF Inv
<1>3. Views' = ViewsOf(objects')
  BY <1>1, <1>2, ObjectsHave
<1>4. Tells' = TellsOf(objects')
  BY DEF Tells, TellsOf, TellOf, LengthOf, SizeOf, BytesOf, ContigOrders, ShapeOf, Slice
<1> QED BY <1>3, <1>4

\* The views and what they tell, one for each object.
LEMMA ViewsHave ==
    ASSUME NEW objs, NEW m, ObjectsIn(objs, m)
    PROVE  /\ Len(ViewsOf(objs)) = Len(objs) /\ Len(TellsOf(objs)) = Len(objs)
           /\ DOMAIN ViewsOf(objs) = 1..Len(objs) /\ DOMAIN TellsOf(objs) = 1..Len(objs)
           /\ ViewsOf(objs) \in Seq({ ViewOf(objs[v].slice, objs[v].writable) : v \in 1..Len(objs) })
           /\ \A v \in 1..Len(objs) : /\ ViewsOf(objs)[v] = ViewOf(objs[v].slice, objs[v].writable)
                                      /\ TellsOf(objs)[v] = TellOf(objs[v].slice)
                                      /\ ViewsOf(objs)[v] \in Promised!Range(ViewsOf(objs))
           /\ Promised!Truthful(Promised!Last(ViewsOf(objs)), Promised!Last(TellsOf(objs)))
<1> DEFINE n == Len(objs)
           V == ViewsOf(objs)
           T == TellsOf(objs)
           O == { ViewOf(objs[v].slice, objs[v].writable) : v \in 1..Len(objs) }
           P == { TellOf(objs[v].slice) : v \in 1..Len(objs) }
<1>1. n \in Nat /\ n \in 1..n /\ \A v \in 1..n : IsDirectSlice(objs[v].slice)
  BY ObjectsHave
<1>2. V \in [1..n -> O] /\ T \in [1..n -> P]
  BY DEF ViewsOf, TellsOf
<1>3. \A v \in 1..n : V[v] = ViewOf(objs[v].slice, objs[v].writable) /\ T[v] = TellOf(objs[v].slice)
  BY DEF ViewsOf, TellsOf
<1> HIDE DEF V, T, O, P, n
<1>4. V \in Seq(O) /\ Len(V) = n /\ T \in Seq(P) /\ Len(T) = n /\ DOMAIN V = 1..n /\ DOMAIN T = 1..n
  BY <1>1, <1>2
<1>5. \A v \in 1..n : V[v] \in Promised!Range(V)
  BY <1>4 DEF Promised!Range
<1>6. Promised!Last(V) = V[n] /\ Promised!Last(T) = T[n]
  BY <1>4 DEF Promised!Last
<1>7. Promised!Truthful(V[n], T[n])
  BY <1>1, <1>3, TruthfulIs
<1>8. Promised!Truthful(Promised!Last(V), Promised!Last(T))
  BY <1>6, <1>7
<1> QED BY <1>3, <1>4, <1>5, <1>8 DEF V, T, O, n

\* A view more for an object more.
LEMMA ViewAdded ==
    ASSUME NEW objs, NEW m, ObjectsIn(objs, m), NEW o, NEW next, NEW r, ObjectsIn(next, r),
           next = Append(objs, o), o \in [slice : Slices, writable : BOOLEAN]
    PROVE  /\ ViewsOf(next) = Append(ViewsOf(objs), ViewOf(o.slice, o.writable))
           /\ Promised!Last(ViewsOf(next)) = ViewOf(o.slice, o.writable)
           /\ DOMAIN TellsOf(next) # DOMAIN TellsOf(objs)
<1> DEFINE n == Len(objs)
           V == ViewsOf(objs)
           W == ViewsOf(next)
           y == ViewOf(o.slice, o.writable)
           O == { ViewOf(objs[v].slice, objs[v].writable) : v \in 1..Len(objs) }
<1>1. objs \in Seq([slice : Slices, writable : BOOLEAN]) /\ n \in Nat
  BY ObjectsHave DEF ObjectsIn
<1>2. Len(next) = n + 1 /\ (\A v \in 1..n : next[v] = objs[v]) /\ next[n + 1] = o
  BY <1>1
<1>3. Len(V) = n /\ V \in Seq(O) /\ \A v \in 1..n : V[v] = ViewOf(objs[v].slice, objs[v].writable)
  BY ViewsHave
<1>4. Len(W) = Len(next) /\ DOMAIN W = 1..Len(next)
      /\ \A v \in 1..Len(next) : W[v] = ViewOf(next[v].slice, next[v].writable)
  BY ViewsHave
<1>5. DOMAIN TellsOf(next) = 1..Len(next) /\ DOMAIN TellsOf(objs) = 1..n
  BY ViewsHave
<1>6. (\A v \in 1..n : W[v] = V[v]) /\ W[n + 1] = y
  <2>1. W[n + 1] = ViewOf(next[n + 1].slice, next[n + 1].writable)
    BY <1>1, <1>2, <1>4
  <2>2. ASSUME NEW v \in 1..n PROVE W[v] = V[v]
    <3>1. v \in 1..Len(next)
      BY <1>1, <1>2
    <3>2. W[v] = ViewOf(next[v].slice, next[v].writable)
      BY <3>1, <1>4
    <3> QED BY <3>2, <1>2, <1>3
  <2> QED BY <1>2, <2>1, <2>2
<1>7. Promised!Last(W) = y
  BY <1>2, <1>4, <1>6 DEF Promised!Last
<1>8. W = ViewsOf(next) /\ W = [v \in 1..Len(next) |-> W[v]]
  BY DEF ViewsOf
<1> HIDE DEF V, W, y, O, n
<1>9. W = Append(V, y)
  <2>1. V = [v \in 1..n |-> V[v]]
    BY <1>3
  <2>2. Append(V, y) = [v \in 1..(n + 1) |-> IF v = n + 1 THEN y ELSE V[v]]
    BY <1>1, <2>1, AppendIs
  <2>3. \A v \in 1..(n + 1) : W[v] = IF v = n + 1 THEN y ELSE V[v]
    BY <1>1, <1>6
  <2>4. W = [v \in 1..(n + 1) |-> W[v]]
    BY <1>2, <1>8
  <2> QED BY <2>2, <2>3, <2>4
<1>10. 1..(n + 1) # 1..n
  BY <1>1
<1> QED BY <1>2, <1>5, <1>7, <1>9, <1>10 DEF V, W, y, n

-----------------------------------------------------------------------------
(* Every operation is one of the specification, or refused where it may be. *)

\* The view an object is.
Shown(v) == ViewOf(Slice(v), objects[v].writable)

\* The view an object is, field by field.
LEMMA ShownIs ==
    ASSUME Inv, NEW v \in 1..Len(objects)
    PROVE  /\ Views[v] = Shown(v) /\ Shown(v) \in Promised!Range(Views)
           /\ Shown(v).shape = Slice(v).shape
           /\ Shown(v).writable = objects[v].writable
           /\ Promised!IsDirect(Shown(v))
           /\ Len(Shown(v).shape) = Rank(Slice(v)) /\ Rank(Slice(v)) \in Nat
           /\ DOMAIN Shown(v).at = Tuples(Slice(v).shape)
           /\ \A i \in Tuples(Slice(v).shape) : Shown(v).at[i] = ItemAt(Slice(v), i)
<1>1. ObjectsIn(objects, mem)
  BY DEF Inv
<1>2. ViewsOf(objects)[v] = Shown(v) /\ ViewsOf(objects)[v] \in Promised!Range(ViewsOf(objects))
  BY <1>1, ViewsHave DEF Shown, Slice
<1>3. Views[v] = Shown(v) /\ Shown(v) \in Promised!Range(Views)
  BY <1>2, ViewsAre
<1>4. Rank(Slice(v)) \in Nat /\ Len(Slice(v).shape) = Rank(Slice(v))
  BY ObjectIs, DirectSliceHas
<1>5. Promised!IsDirect(Shown(v))
  BY DEF Promised!IsDirect, Shown, ViewOf
<1>6. /\ DOMAIN Shown(v).at = Tuples(Slice(v).shape)
      /\ \A i \in Tuples(Slice(v).shape) : Shown(v).at[i] = ItemAt(Slice(v), i)
  BY DEF Shown, ViewOf
<1>7. Shown(v).shape = Slice(v).shape
      /\ Shown(v).writable = objects[v].writable
  BY DEF Shown, ViewOf
<1> QED BY <1>3, <1>4, <1>5, <1>6, <1>7

\* The cells of a view are those of its slice.
LEMMA ImageIs ==
    ASSUME NEW s, NEW w
    PROVE  Promised!ImageOf(ViewOf(s, w)) = CellsOf(s)
  BY DEF Promised!ImageOf, ViewOf, CellsOf

\* A step that leaves the objects leaves the views and what they tell.
LEMMA NoViewMade ==
    ASSUME Inv, Inv', objects' = objects
    PROVE  Views' = Views /\ Tells' = Tells /\ ~Promised!Made
<1>1. Views' = Views /\ Tells' = Tells
  BY ViewsAre, ViewsAreThen
<1> QED BY <1>1 DEF Promised!Made

\* A step that adds an object adds a view.
LEMMA ViewMade ==
    ASSUME Inv, Inv', NEW s, IsDirectSlice(s), NEW w \in BOOLEAN,
           objects' = Append(objects, [slice |-> s, writable |-> w])
    PROVE  /\ Views' = Append(Views, ViewOf(s, w)) /\ Promised!Last(Views') = ViewOf(s, w)
           /\ Promised!Made
<1> DEFINE o == [slice |-> s, writable |-> w]
           next == objects'
           r == mem'
<1>1. s \in Slices
  BY DEF IsDirectSlice, IsSlice, Slices
<1>2. o \in [slice : Slices, writable : BOOLEAN] /\ o.slice = s /\ o.writable = w
  BY <1>1
<1>3. ObjectsIn(objects, mem)
  BY DEF Inv
<1>4. ObjectsIn(next, r)
  BY DEF Inv
<1>5. Views = ViewsOf(objects) /\ Tells = TellsOf(objects)
  BY ViewsAre
<1>6. Views' = ViewsOf(next) /\ Tells' = TellsOf(next)
  BY ViewsAreThen
<1>7. next = Append(objects, o)
  OBVIOUS
<1> HIDE DEF o, next, r
<1>8. /\ ViewsOf(next) = Append(ViewsOf(objects), ViewOf(o.slice, o.writable))
      /\ Promised!Last(ViewsOf(next)) = ViewOf(o.slice, o.writable)
      /\ DOMAIN TellsOf(next) # DOMAIN TellsOf(objects)
  BY <1>2, <1>3, <1>4, <1>7, ViewAdded
<1>9. Promised!Made
  BY <1>5, <1>6, <1>8 DEF Promised!Made
<1> QED BY <1>2, <1>5, <1>6, <1>8, <1>9

\* What every view tells of itself is true.
LEMMA ToldAlways ==
    ASSUME Inv
    PROVE  Promised!Told
<1>1. ObjectsIn(objects, mem)
  BY DEF Inv
<1>2. /\ Len(ViewsOf(objects)) = Len(objects) /\ Len(TellsOf(objects)) = Len(objects)
      /\ Promised!Truthful(Promised!Last(ViewsOf(objects)), Promised!Last(TellsOf(objects)))
  BY <1>1, ViewsHave
<1> QED BY <1>2, ViewsAre DEF Promised!Told

\* The same after a step.
LEMMA ToldThen ==
    ASSUME Inv'
    PROVE  Promised!Told'
<1>1. ObjectsIn(objects', mem')
  BY DEF Inv
<1>2. /\ Len(ViewsOf(objects')) = Len(objects') /\ Len(TellsOf(objects')) = Len(objects')
      /\ Promised!Truthful(Promised!Last(ViewsOf(objects')), Promised!Last(TellsOf(objects')))
  BY <1>1, ViewsHave
<1> QED BY <1>2, ViewsAreThen DEF Promised!Told

\* A transpose is one of the specification.
LEMMA StepTurn ==
    ASSUME Inv, Inv', NEW v \in 1..Len(objects), Turn(v)
    PROVE  Promised!Turn(Shown(v))
<1> DEFINE s == Slice(v)
           w == objects[v].writable
           t == TurnedView(s)
           a == Shown(v)
           b == ViewOf(t, w)
<1>1. IsDirectSlice(s) /\ w \in BOOLEAN
  BY ObjectIs
<1>2. /\ TransposeMemslice(SliceCopy(s), 0) = {t} /\ IsTurnedView(t, s)
  BY <1>1, TurnIs
<1>3. objects' = Append(objects, FromSlice(t, v)) /\ Ended("done") /\ UNCHANGED mem
  BY <1>2 DEF Turn
<1>4. FromSlice(t, v) = [slice |-> t, writable |-> w]
  BY DEF FromSlice
<1>5. IsDirectSlice(t)
  BY <1>2 DEF IsTurnedView
<1>6. Views' = Append(Views, b) /\ Promised!Last(Views') = b /\ Promised!Made
  BY <1>1, <1>3, <1>4, <1>5, ViewMade
<1>7. /\ t.shape = Reverse(s.shape)
      /\ \A i \in Tuples(t.shape) : Reverse(i) \in Tuples(s.shape) /\ ItemAt(t, i) = ItemAt(s, Reverse(i))
  BY <1>2 DEF IsTurnedView
<1>8. /\ b.shape = t.shape /\ b.writable = w /\ DOMAIN b.at = Tuples(t.shape)
      /\ Promised!IsDirect(b)
      /\ \A i \in Tuples(t.shape) : b.at[i] = ItemAt(t, i)
  BY DEF ViewOf, Promised!IsDirect
<1>9. /\ a.shape = s.shape /\ a.writable = w /\ Len(a.shape) = Rank(s)
      /\ \A i \in Tuples(s.shape) : a.at[i] = ItemAt(s, i)
  BY ShownIs
<1> HIDE DEF s, w, t, a, b
<1>10. /\ b.shape = Promised!Reverse(a.shape) /\ b.writable = a.writable
       /\ DOMAIN b.at = Promised!Tuples(b.shape)
       /\ \A i \in DOMAIN b.at : b.at[i] = a.at[Promised!Reverse(i)]
  BY <1>7, <1>8, <1>9, SameOperators
<1>11. Promised!Ended("done") /\ mem' = mem
  BY <1>3 DEF Promised!Ended, Ended
<1> DEFINE last == Promised!Last(Views')
<1>12. last = b
  BY <1>6
<1>13. Views' = Append(Views, last)
  BY <1>6
<1> HIDE DEF last
<1>14. LET turned == last IN
       /\ turned.shape = Promised!Reverse(a.shape)
       /\ turned.writable = a.writable /\ DOMAIN turned.at = Promised!Tuples(turned.shape)
       /\ Promised!IsDirect(a) => /\ Promised!IsDirect(turned)
                                  /\ \A i \in DOMAIN turned.at : turned.at[i] = a.at[Promised!Reverse(i)]
  BY <1>8, <1>10, <1>12
<1>15. Promised!Turn(a)
  BY <1>6, <1>11, <1>13, <1>14 DEF Promised!Turn, last
<1> QED BY <1>15 DEF a

\* Both modules agree on which index names an item.
LEMMA SameItemIndex ==
    ASSUME NEW index, NEW shape
    PROVE  Promised!IsItem(shape, index) <=> IsItemOf(index, Len(shape))
  BY DEF Promised!IsItem, IsItemOf

\* What unellipsify finds is a reading of the index; where items make no view
\* and no item, the specification has the same reasons.
Meets(v, index, items) ==
    /\ items \in Promised!Readings(index, Len(Shown(v).shape))
    /\ Cuts(Slice(v), items)
    /\ Enters(Slice(v), items) <=> Promised!Legal(Shown(v).shape, items)
    /\ Enters(Slice(v), items) =>
         /\ Promised!Select(Shown(v), items) = ViewOf(MadeOf(Slice(v), items), objects[v].writable)
         /\ IsDirectSlice(MadeOf(Slice(v), items))
    /\ (Shown(v).shape = <<>>) <=> ~ (Rank(Slice(v)) > 0)

\* Every index is read as the specification reads it.
LEMMA MeetsIs ==
    ASSUME "slices" \in Limits, Inv, NEW v \in 1..Len(objects),
           NEW index \in Indices, UsesSlices(v, index)
    PROVE  /\ \A f \in Unellipsify(AsTuple(index), Rank(Slice(v))) :
                 /\ Meets(v, index, f.items)
                 /\ f.slices <=> ~Promised!IsItem(Shown(v).shape, index)
           /\ Unellipsify(AsTuple(index), Rank(Slice(v))) = {} => ~Promised!IsPlain(index, Len(Shown(v).shape))
           /\ Promised!IsItem(Shown(v).shape, index) =>
                 \A items \in Promised!Readings(index, Len(Shown(v).shape)) :
                    \A k \in 1..Rank(Slice(v)) : items[k].kind = "index"
<1> DEFINE s == Slice(v)
           w == objects[v].writable
           found == Unellipsify(AsTuple(index), Rank(s))
           a == Shown(v)
<1>1. IsDirectSlice(s)
  BY ObjectIs
<1>2. /\ \A f \in found : FoundItems(f, index, s)
      /\ Promised!IsPlain(index, Rank(s)) => found # {}
      /\ IsIndex(index)
      /\ IsItemOf(index, Rank(s)) => Promised!IsPlain(index, Rank(s))
  BY <1>1, IndexFacts
<1>3. a.shape = s.shape /\ Len(a.shape) = Rank(s) /\ Rank(s) \in Nat /\ a = ViewOf(s, w)
  BY ShownIs DEF Shown
<1>4. s.shape \in Seq(Nat)
  BY <1>1, DirectSliceHas
<1>5. (a.shape = <<>>) <=> ~ (Rank(s) > 0)
  BY <1>3, <1>4
<1>6. ASSUME NEW items \in Promised!Readings(index, Rank(s)), Cuts(s, items) PROVE Meets(v, index, items)
  <2>1. Cuts(s, items)
    BY <1>6
  <2>2. /\ Enters(s, items) <=> Promised!Legal(s.shape, items)
        /\ Enters(s, items) => IsDirectSlice(MadeOf(s, items))
    BY <1>1, <2>1, CutFacts
  <2>3. Enters(s, items) => Promised!Select(ViewOf(s, w), items) = ViewOf(MadeOf(s, items), w)
    BY <1>1, <2>1, SelectIs
  <2> HIDE DEF a, s, w
  <2>4. Enters(s, items) => Promised!Select(a, items) = ViewOf(MadeOf(s, items), w)
    BY <2>3, <1>3
  <2>5. /\ items \in Promised!Readings(index, Len(a.shape))
        /\ Enters(s, items) <=> Promised!Legal(a.shape, items)
    BY <1>3, <2>2
  <2> QED BY <2>1, <2>2, <2>4, <2>5, <1>5 DEF Meets, a, s, w
<1>7. ASSUME NEW f \in found
      PROVE  Meets(v, index, f.items) /\ (f.slices <=> ~Promised!IsItem(a.shape, index))
  <2>1. /\ f.items \in Promised!Readings(index, Rank(s)) /\ Cuts(s, f.items)
        /\ f.slices <=> ~IsItemOf(index, Rank(s))
    BY <1>2 DEF FoundItems
  <2> QED BY <2>1, <1>3, <1>6, SameItemIndex
<1>8. found = {} => ~Promised!IsPlain(index, Len(a.shape))
  BY <1>2, <1>3
<1>9. ASSUME Promised!IsItem(a.shape, index), NEW items \in Promised!Readings(index, Len(a.shape))
      PROVE  \A k \in 1..Rank(s) : items[k].kind = "index"
  <2>1. IsItemOf(index, Rank(s))
    BY <1>3, <1>9, SameItemIndex
  <2>2. Promised!IsPlain(index, Rank(s)) /\ index \in Seq(Range(index))
    BY <2>1, <1>2 DEF IsIndex
  <2>3. items \in Promised!Readings(index, Rank(s))
    BY <1>3, <1>9
  <2>4. Rank(s) \in Nat
    BY <1>3
  <2> HIDE DEF s, a
  <2> QED BY <2>1, <2>2, <2>3, <2>4, NumbersRead
<1> QED BY <1>7, <1>8, <1>9

\* Slicing a view makes the view the specification selects.
LEMMA StepGetSlice ==
    ASSUME Inv, Inv', NEW v \in 1..Len(objects), NEW index, NEW f, Meets(v, index, f.items),
           ~Promised!IsItem(Shown(v).shape, index), GetSlice(v, f)
    PROVE  Promised!GetItem(Shown(v), index)
<1> DEFINE s == Slice(v)
           w == objects[v].writable
           items == f.items
           a == Shown(v)
           t == MadeOf(s, items)
<1>1. IsDirectSlice(s) /\ w \in BOOLEAN
  BY ObjectIs
<1>2. /\ Cuts(s, items) /\ items \in Promised!Readings(index, Len(a.shape))
      /\ Enters(s, items) <=> Promised!Legal(a.shape, items)
      /\ (a.shape = <<>>) <=> ~ (Rank(s) > 0)
  BY DEF Meets
<1>3. SliceOf(v, items) = IF Rank(s) > 0 /\ Enters(s, items) THEN {t} ELSE {}
  BY <1>1, <1>2, CutFacts DEF SliceOf
<1>4. CASE Rank(s) > 0 /\ Enters(s, items)
  <2>1. objects' = Append(objects, FromSlice(t, v)) /\ Ended("done") /\ UNCHANGED mem
    BY <1>3, <1>4 DEF GetSlice
  <2>2. IsDirectSlice(t) /\ Promised!Select(a, items) = ViewOf(t, w)
    BY <1>4 DEF Meets
  <2>3. FromSlice(t, v) = [slice |-> t, writable |-> w]
    BY DEF FromSlice
  <2> HIDE DEF t, w, a
  <2>4. Views' = Append(Views, ViewOf(t, w)) /\ Promised!Made
    BY <1>1, <2>1, <2>2, <2>3, ViewMade
  <2>5. Views' = Append(Views, Promised!Select(a, items))
    BY <2>2, <2>4
  <2>6. Promised!Ended("done") /\ mem' = mem
    BY <2>1 DEF Promised!Ended, Ended
  <2>7. Promised!Legal(a.shape, items) /\ a.shape # <<>> /\ ~Promised!IsItem(a.shape, index)
    BY <1>2, <1>4 DEF a
  <2>8. items \in Promised!Readings(index, Len(a.shape))
    BY <1>2
  <2> HIDE DEF items
  <2>9. Promised!GetItem(a, index)
    BY <2>4, <2>5, <2>6, <2>7, <2>8 DEF Promised!GetItem
  <2> QED BY <2>9 DEF a
<1>5. CASE ~ (Rank(s) > 0 /\ Enters(s, items))
  <2>1. Refuse
    BY <1>3, <1>5 DEF GetSlice
  <2>2. Promised!Ended("refused") /\ UNCHANGED <<mem, objects>>
    BY <2>1 DEF Refuse, Promised!Ended, Ended
  <2>3. mem' = mem /\ Views' = Views
    BY <2>2, NoViewMade
  <2>4. ~Promised!Legal(a.shape, items) \/ a.shape = <<>>
    BY <1>2, <1>5
  <2> HIDE DEF items, a
  <2>5. ~Promised!IsItem(a.shape, index)
    BY DEF a
  <2>6. items \in Promised!Readings(index, Len(a.shape))
    BY <1>2
  <2>7. Promised!GetItem(a, index)
    BY <2>2, <2>3, <2>4, <2>5, <2>6 DEF Promised!GetItem
  <2> QED BY <2>7 DEF a
<1> QED BY <1>4, <1>5

\* The view without axes of one item.
LEMMA ItemView ==
    ASSUME NEW s, IsDirectSlice(s), s.shape = <<>>, NEW w
    PROVE  /\ Tuples(<<>>) = {<<>>} /\ ViewOf(s, w).at[<<>>] = ItemAt(s, <<>>)
           /\ DOMAIN ViewOf(s, w).at = {<<>>} /\ CellsOf(s) = {ItemAt(s, <<>>)}
<1>1. <<>> \in Seq(Nat) /\ Len(<<>>) = 0
  OBVIOUS
<1> DEFINE e == <<>>
<1>2. e \in Seq(Nat) /\ Len(e) = 0
  BY <1>1
<1>3. Tuples(<<>>) = {<<>>}
  <2>1. <<>> \in [1..0 -> Nat]
    OBVIOUS
  <2>2. \A i \in [1..0 -> Nat] : i = <<>>
    OBVIOUS
  <2>3. e \in [1..0 -> Nat] /\ \A i \in [1..0 -> Nat] : i = e
    BY <2>1, <2>2
  <2> HIDE DEF e
  <2>4. \A i : i \in Tuples(e) <=> /\ i \in [1..0 -> Nat]
                                   /\ \A k \in 1..0 : i[k] < e[k]
    BY <1>2, TupleIs
  <2>5. \A k \in 1..0 : FALSE
    OBVIOUS
  <2>6. e \in Tuples(e)
    BY <2>3, <2>4, <2>5
  <2>7. \A i \in Tuples(e) : i = e
    BY <2>3, <2>4
  <2>8. Tuples(e) = {e}
    BY <2>6, <2>7
  <2> QED BY <2>8 DEF e
<1> QED BY <1>3 DEF ViewOf, CellsOf

\* Naming an item reads the item the specification names.
LEMMA StepReadItem ==
    ASSUME Inv, Inv', NEW v \in 1..Len(objects), NEW index, NEW f, Meets(v, index, f.items),
           Promised!IsItem(Shown(v).shape, index), \A k \in 1..Rank(Slice(v)) : f.items[k].kind = "index",
           ReadItem(v, f.items)
    PROVE  Promised!GetItem(Shown(v), index)
<1> DEFINE s == Slice(v)
           w == objects[v].writable
           items == f.items
           a == Shown(v)
           t == MadeOf(s, items)
           e == ItemAt(s, EntryTuple(s, items))
<1>1. IsDirectSlice(s) /\ w \in BOOLEAN
  BY ObjectIs
<1>2. Cuts(s, items) /\ items \in Promised!Readings(index, Len(a.shape))
      /\ (Enters(s, items) <=> Promised!Legal(a.shape, items))
  BY DEF Meets
<1>3. \A k \in 1..Rank(s) : items[k].kind = "index"
  OBVIOUS
<1>4. /\ GetItemPointer(ptr, s, items) = IF Enters(s, items) THEN {e} ELSE {}
      /\ Enters(s, items) => t.shape = <<>> /\ ItemAt(t, <<>>) = e
  BY <1>1, <1>2, <1>3, PointerIs
<1>5. CASE Enters(s, items)
  <2>1. outcome' = [kind |-> "item", item |-> {mem[e]}] /\ UNCHANGED <<mem, objects>>
    BY <1>4, <1>5 DEF ReadItem
  <2>2. IsDirectSlice(t) /\ Promised!Select(a, items) = ViewOf(t, w)
    BY <1>5 DEF Meets
  <2>3. t.shape = <<>> /\ ItemAt(t, <<>>) = e
    BY <1>4, <1>5
  <2> HIDE DEF t, w, a, e
  <2>4. ViewOf(t, w).at[<<>>] = e
    BY <2>2, <2>3, ItemView
  <2>5. Promised!Select(a, items).at[<<>>] = e
    BY <2>2, <2>4
  <2>6. mem' = mem /\ Views' = Views
    BY <2>1, NoViewMade
  <2>7. Promised!Legal(a.shape, items) /\ Promised!IsItem(a.shape, index)
    BY <1>2, <1>5 DEF a
  <2>8. items \in Promised!Readings(index, Len(a.shape))
    BY <1>2
  <2> HIDE DEF items
  <2>9. outcome' = [kind |-> "item", item |-> {mem[Promised!Select(a, items).at[<<>>]]}]
    BY <2>1, <2>5
  <2>10. outcome'.kind = "item"
    BY <2>1
  <2>11. Promised!GetItem(a, index)
    BY <2>6, <2>7, <2>8, <2>9, <2>10 DEF Promised!GetItem
  <2> QED BY <2>11 DEF a
<1>6. CASE ~Enters(s, items)
  <2>1. Refuse
    BY <1>4, <1>6 DEF ReadItem
  <2>2. Promised!Ended("refused") /\ UNCHANGED <<mem, objects>>
    BY <2>1 DEF Refuse, Promised!Ended, Ended
  <2>3. mem' = mem /\ Views' = Views
    BY <2>2, NoViewMade
  <2>4. ~Promised!Legal(a.shape, items)
    BY <1>2, <1>6
  <2> HIDE DEF items, a
  <2>5. items \in Promised!Readings(index, Len(a.shape))
    BY <1>2
  <2>6. Promised!GetItem(a, index)
    BY <2>2, <2>3, <2>4, <2>5 DEF Promised!GetItem
  <2> QED BY <2>6 DEF a
<1> QED BY <1>5, <1>6

\* getitem implements GetItem.
LEMMA StepGetItem ==
    ASSUME "slices" \in Limits, Inv, Inv', NEW v \in 1..Len(objects),
           NEW index \in Indices, UsesSlices(v, index), GetItem(v, index)
    PROVE  Promised!Itself \/ Promised!GetItem(Shown(v), index)
<1> DEFINE found == Unellipsify(AsTuple(index), Rank(Slice(v)))
<1>1. CASE Itself(v)
  <2>1. Promised!Ended("done") /\ UNCHANGED <<mem, objects>>
    BY <1>1 DEF Itself, Promised!Ended, Ended
  <2>2. mem' = mem /\ Views' = Views /\ ~Promised!Made
    BY <2>1, NoViewMade
  <2> QED BY <2>1, <2>2 DEF Promised!Itself
<1>2. ASSUME NEW f \in found, f.slices, GetSlice(v, f) PROVE Promised!GetItem(Shown(v), index)
  <2>1. Meets(v, index, f.items) /\ ~Promised!IsItem(Shown(v).shape, index)
    BY <1>2, MeetsIs
  <2> QED BY <1>2, <2>1, StepGetSlice
<1>3. ASSUME NEW f \in found, ~f.slices, ReadItem(v, f.items) PROVE Promised!GetItem(Shown(v), index)
  <2>1. Meets(v, index, f.items) /\ Promised!IsItem(Shown(v).shape, index)
    BY <1>3, MeetsIs
  <2>2. \A k \in 1..Rank(Slice(v)) : f.items[k].kind = "index"
    BY <2>1, MeetsIs DEF Meets
  <2> QED BY <1>3, <2>1, <2>2, StepReadItem
<1>4. CASE found = {} /\ Refuse
  <2>1. ~Promised!IsPlain(index, Len(Shown(v).shape))
    BY <1>4, MeetsIs
  <2>2. Promised!Ended("refused") /\ UNCHANGED <<mem, objects>>
    BY <1>4 DEF Refuse, Promised!Ended, Ended
  <2>3. mem' = mem /\ Views' = Views
    BY <2>2, NoViewMade
  <2> QED BY <2>1, <2>2, <2>3 DEF Promised!GetItem
<1> QED BY <1>1, <1>2, <1>3, <1>4 DEF GetItem

\* A reading without a slice keeps no axis.
LEMMA KeepsAxis ==
    ASSUME NEW s, IsDirectSlice(s), NEW items, Cuts(s, items)
    PROVE  Promised!Kept(items, Rank(s)) > 0 <=> \E k \in DOMAIN items : items[k].kind = "slice"
<1> DEFINE r == Rank(s)
<1>1. r \in Nat /\ DOMAIN items = 1..r
  BY DirectSliceHas DEF Cuts
<1> HIDE DEF r
<1>2. /\ \A k \in 0..r : Promised!Kept(items, k) \in 0..k
      /\ \A k, m \in 0..r : k <= m => Promised!Kept(items, k) <= Promised!Kept(items, m)
      /\ \A k \in 1..r : items[k].kind = "slice" => Promised!Kept(items, k) >= 1
  BY <1>1, KeptBounds
<1>3. \A m \in 0..r : \A j \in 1..Promised!Kept(items, m) :
         /\ Promised!AxisOf(items, j) \in 1..m
         /\ items[Promised!AxisOf(items, j)].kind = "slice"
  BY <1>1, AxisOfIs
<1>4. ASSUME NEW k \in DOMAIN items, items[k].kind = "slice" PROVE Promised!Kept(items, r) > 0
  <2>1. k \in 1..r /\ k \in 0..r /\ r \in 0..r /\ k <= r
    BY <1>1, <1>4
  <2>2. Promised!Kept(items, k) >= 1 /\ Promised!Kept(items, k) <= Promised!Kept(items, r)
    BY <1>2, <1>4, <2>1
  <2>3. Promised!Kept(items, k) \in 0..k /\ Promised!Kept(items, r) \in 0..r
    BY <1>2, <2>1
  <2> QED BY <1>1, <2>1, <2>2, <2>3
<1>5. ASSUME Promised!Kept(items, r) > 0 PROVE \E k \in DOMAIN items : items[k].kind = "slice"
  <2>1. r \in 0..r
    BY <1>1
  <2>2. Promised!Kept(items, r) \in 0..r
    BY <1>2, <2>1
  <2>3. 1 \in 1..Promised!Kept(items, r)
    BY <1>1, <1>5, <2>2
  <2> QED BY <1>1, <1>3, <2>1, <2>3
<1> QED BY <1>4, <1>5 DEF r

\* The selection that setitem makes, and the view the specification selects.
Selected(v, items) ==
    LET t == MadeOf(Slice(v), items) IN
    IF Promised!Legal(Shown(v).shape, items) /\ t.shape # <<>>
    THEN /\ Selection(v, items) = {t}
         /\ IsDirectSlice(t) /\ CellsOf(t) \subseteq DOMAIN mem
         /\ Promised!Select(Shown(v), items) = ViewOf(t, objects[v].writable)
         /\ Promised!Select(Shown(v), items).shape # <<>>
    ELSE /\ Selection(v, items) = {}
         /\ Promised!Legal(Shown(v).shape, items) => Promised!Select(Shown(v), items).shape = <<>>

\* Both select the same, or nothing.
LEMMA SelectedIs ==
    ASSUME Inv, NEW v \in 1..Len(objects), NEW index, NEW items, Meets(v, index, items)
    PROVE  Selected(v, items)
<1> DEFINE s == Slice(v)
           w == objects[v].writable
           a == Shown(v)
           t == MadeOf(s, items)
           cut == SliceOf(v, items)
           sel == Selection(v, items)
<1>1. IsDirectSlice(s)
  BY ObjectIs
<1>2. Cuts(s, items) /\ (Enters(s, items) <=> Promised!Legal(a.shape, items))
  BY DEF Meets
<1>3. Enters(s, items) => IsDirectSlice(t) /\ Promised!Select(a, items) = ViewOf(t, w)
  BY DEF Meets
<1>4. /\ sel \subseteq cut
      /\ \A d \in cut : d = t /\ CellsOf(d) \subseteq DOMAIN mem
      /\ cut # {} <=> Rank(s) > 0 /\ Enters(s, items)
      /\ sel # {} <=> cut # {} /\ \E k \in DOMAIN items : items[k].kind = "slice"
  BY <1>2, SelectionIs
<1>5. Promised!Kept(items, Rank(s)) > 0 <=> \E k \in DOMAIN items : items[k].kind = "slice"
  BY <1>1, <1>2, KeepsAxis
<1>6. Enters(s, items) => Rank(t) = Promised!Kept(items, Rank(s))
  BY <1>1, <1>2, CutFacts
<1>7. Enters(s, items) => (t.shape # <<>> <=> \E k \in DOMAIN items : items[k].kind = "slice")
  <2> SUFFICES ASSUME Enters(s, items)
               PROVE  t.shape # <<>> <=> \E k \in DOMAIN items : items[k].kind = "slice"
    OBVIOUS
  <2>1. t.shape \in Seq(Nat) /\ Len(t.shape) = Rank(t)
    BY <1>3, DirectSliceHas
  <2>2. t.shape # <<>> <=> Rank(t) > 0
    BY <2>1
  <2> QED BY <2>2, <1>5, <1>6
<1>8. (\E k \in DOMAIN items : items[k].kind = "slice") => Rank(s) > 0
  <2>1. Rank(s) \in Nat /\ DOMAIN items = 1..Rank(s)
    BY <1>1, <1>2, DirectSliceHas DEF Cuts
  <2> QED BY <2>1
<1>9. ViewOf(t, w).shape = t.shape
  BY DEF ViewOf
<1> HIDE DEF s, w, a, t, cut, sel
<1>10. CASE Promised!Legal(a.shape, items) /\ t.shape # <<>>
  <2>1. cut # {} /\ sel # {}
    BY <1>2, <1>4, <1>7, <1>8, <1>10
  <2>2. sel = {t}
    BY <2>1, <1>4
  <2>3. CellsOf(t) \subseteq DOMAIN mem
    BY <2>1, <1>4
  <2>4. IsDirectSlice(t) /\ Promised!Select(a, items) = ViewOf(t, w) /\ Promised!Select(a, items).shape # <<>>
    BY <1>2, <1>3, <1>9, <1>10
  <2> QED BY <1>10, <2>2, <2>3, <2>4 DEF Selected, s, w, a, t, sel
<1>11. CASE ~ (Promised!Legal(a.shape, items) /\ t.shape # <<>>)
  <2>1. sel = {}
    BY <1>2, <1>4, <1>7, <1>11
  <2>2. Promised!Legal(a.shape, items) => Promised!Select(a, items).shape = <<>>
    BY <1>2, <1>3, <1>9, <1>11
  <2> QED BY <1>11, <2>1, <2>2 DEF Selected, s, w, a, t, sel
<1> QED BY <1>10, <1>11

\* Writing to the cells of a selection keeps the others.
LEMMA KeptIn ==
    ASSUME Inv, Inv', NEW r, Written(r), NEW t, NEW w, KeepsOthers(r, mem, t)
    PROVE  /\ Promised!OthersKept(ViewOf(t, w)) /\ Promised!Ended("done") /\ ~Promised!Made
           /\ Views' = Views /\ mem' = r
<1>1. mem' = r /\ Ended("done") /\ objects' = objects
  BY DEF Written
<1>2. Views' = Views /\ ~Promised!Made
  BY <1>1, NoViewMade
<1>3. Promised!Ended("done")
  BY <1>1 DEF Ended, Promised!Ended
<1>4. Promised!ImageOf(ViewOf(t, w)) = CellsOf(t)
  BY ImageIs
<1> DEFINE y == ViewOf(t, w)
<1> HIDE DEF y
<1>5. Promised!ImageOf(y) = CellsOf(t)
  BY <1>4 DEF y
<1>6. Promised!OthersKept(y)
  BY <1>1, <1>5 DEF KeepsOthers, Promised!OthersKept
<1> QED BY <1>1, <1>2, <1>3, <1>6 DEF y

\* The number that fills a selection is in all its cells afterwards.
LEMMA StepSetScalar ==
    ASSUME Inv, Inv', NEW v \in 1..Len(objects), objects[v].writable, NEW index, NEW f, NEW x,
           Meets(v, index, f.items), ~Promised!IsItem(Shown(v).shape, index), SetScalar(v, f, x)
    PROVE  Promised!Fill(Shown(v), index, x)
<1> DEFINE items == f.items
           a == Shown(v)
           t == MadeOf(Slice(v), items)
           w == objects[v].writable
           y == Promised!Select(a, items)
           r == SliceAssignScalar(mem, t, x)
<1>1. Selected(v, items)
  BY SelectedIs
<1>2. IsDirect(Slice(v))
  BY ObjectIs DEF IsDirectSlice
<1>3. Promised!IsDirect(a) /\ a.writable
  BY ShownIs
<1>4. items \in Promised!Readings(index, Len(a.shape))
  BY DEF Meets
<1>5. CASE Promised!Legal(a.shape, items) /\ t.shape # <<>>
  <2>1. Selection(v, items) = {t} /\ y = ViewOf(t, w) /\ y.shape # <<>> /\ CellsOf(t) \subseteq DOMAIN mem
    BY <1>1, <1>5 DEF Selected
  <2>2. Written(r)
    BY <2>1, <1>2 DEF SetScalar
  <2>3. KeepsOthers(r, mem, t)
    BY DEF KeepsOthers, SliceAssignScalar
  <2>4. \A c \in CellsOf(t) : r[c] = x
    BY <2>1 DEF SliceAssignScalar
  <2> HIDE DEF t, r, w, a, items
  <2>5. /\ Promised!OthersKept(ViewOf(t, w)) /\ Promised!Ended("done") /\ ~Promised!Made
        /\ Views' = Views /\ mem' = r
    BY <2>2, <2>3, KeptIn
  <2>6. Promised!ImageOf(ViewOf(t, w)) = CellsOf(t)
    BY ImageIs
  <2>7. Promised!OthersKept(y) /\ \A c \in Promised!ImageOf(y) : mem'[c] = x
    BY <2>1, <2>4, <2>5, <2>6
  <2>8. y.shape # <<>>
    BY <2>1
  <2>9. Promised!Fill(a, index, x)
    BY <1>3, <1>4, <1>5, <2>5, <2>7, <2>8 DEF Promised!Fill
  <2> QED BY <2>9 DEF a
<1>6. CASE ~ (Promised!Legal(a.shape, items) /\ t.shape # <<>>)
  <2>1. Selection(v, items) = {} /\ (Promised!Legal(a.shape, items) => y.shape = <<>>)
    BY <1>1, <1>6 DEF Selected
  <2>2. Refuse
    BY <2>1, <1>2 DEF SetScalar
  <2>3. Promised!Ended("refused") /\ UNCHANGED <<mem, objects>>
    BY <2>2 DEF Refuse, Promised!Ended, Ended
  <2>4. mem' = mem /\ Views' = Views
    BY <2>3, NoViewMade
  <2>5. ~Promised!IsItem(a.shape, index)
    OBVIOUS
  <2> HIDE DEF t, a, items
  <2>6. Promised!Fill(a, index, x)
    BY <1>4, <2>1, <2>3, <2>4, <2>5 DEF Promised!Fill
  <2> QED BY <2>6 DEF a
<1> QED BY <1>5, <1>6

\* And so is the one that is written to an item.
LEMMA StepSetItem ==
    ASSUME Inv, Inv', NEW v \in 1..Len(objects), objects[v].writable, NEW index, NEW f, NEW x,
           Meets(v, index, f.items), Promised!IsItem(Shown(v).shape, index),
           \A k \in 1..Rank(Slice(v)) : f.items[k].kind = "index", SetItem(v, f, x)
    PROVE  Promised!Fill(Shown(v), index, x)
<1> DEFINE s == Slice(v)
           items == f.items
           a == Shown(v)
           t == MadeOf(s, items)
           w == objects[v].writable
           y == Promised!Select(a, items)
           e == ItemAt(s, EntryTuple(s, items))
           r == [mem EXCEPT ![e] = x]
<1>1. IsDirectSlice(s) /\ a.writable /\ CellsOf(s) \subseteq DOMAIN mem
  BY ObjectIs, ShownIs
<1>2. Cuts(s, items) /\ items \in Promised!Readings(index, Len(a.shape))
      /\ (Enters(s, items) <=> Promised!Legal(a.shape, items))
  BY DEF Meets
<1>3. \A k \in 1..Rank(s) : items[k].kind = "index"
  OBVIOUS
<1>4. /\ GetItemPointer(ptr, s, items) = IF Enters(s, items) THEN {e} ELSE {}
      /\ Enters(s, items) => /\ t.shape = <<>> /\ ItemAt(t, <<>>) = e
                             /\ EntryTuple(s, items) \in Tuples(s.shape)
  BY <1>1, <1>2, <1>3, PointerIs
<1>5. CASE Enters(s, items)
  <2>1. Written(r)
    BY <1>4, <1>5 DEF SetItem
  <2>2. IsDirectSlice(t) /\ y = ViewOf(t, w)
    BY <1>5 DEF Meets
  <2>3. CellsOf(t) = {e}
    BY <1>4, <1>5, <2>2, ItemView
  <2>4. e \in DOMAIN mem
    BY <1>1, <1>4, <1>5 DEF CellsOf
  <2> HIDE DEF t, w, a, e, items
  <2>5. KeepsOthers(r, mem, t) /\ \A c \in CellsOf(t) : r[c] = x
    BY <2>3, <2>4 DEF KeepsOthers
  <2> HIDE DEF r
  <2>6. /\ Promised!OthersKept(ViewOf(t, w)) /\ Promised!Ended("done") /\ ~Promised!Made
        /\ Views' = Views /\ mem' = r
    BY <2>1, <2>5, KeptIn
  <2>7. Promised!ImageOf(ViewOf(t, w)) = CellsOf(t)
    BY ImageIs
  <2>8. Promised!OthersKept(y) /\ \A c \in Promised!ImageOf(y) : mem'[c] = x
    BY <2>2, <2>5, <2>6, <2>7
  <2>9. Promised!Legal(a.shape, items) /\ Promised!IsItem(a.shape, index)
    BY <1>2, <1>5 DEF a
  <2>10. Promised!Fill(a, index, x)
    BY <1>1, <1>2, <2>6, <2>8, <2>9 DEF Promised!Fill
  <2> QED BY <2>10 DEF a
<1>6. CASE ~Enters(s, items)
  <2>1. Refuse
    BY <1>4, <1>6 DEF SetItem
  <2>2. Promised!Ended("refused") /\ UNCHANGED <<mem, objects>>
    BY <2>1 DEF Refuse, Promised!Ended, Ended
  <2>3. mem' = mem /\ Views' = Views
    BY <2>2, NoViewMade
  <2>4. ~Promised!Legal(a.shape, items)
    BY <1>2, <1>6
  <2> HIDE DEF t, a, items
  <2>5. Promised!Fill(a, index, x)
    BY <1>2, <2>2, <2>3, <2>4 DEF Promised!Fill
  <2> QED BY <2>5 DEF a
<1> QED BY <1>5, <1>6

\* setitem with a number implements Fill.
LEMMA StepFill ==
    ASSUME "slices" \in Limits, Inv, Inv', NEW v \in 1..Len(objects),
           NEW index \in Indices, UsesSlices(v, index), NEW x, Fill(v, index, x)
    PROVE  Promised!Fill(Shown(v), index, x)
<1> DEFINE found == Unellipsify(AsTuple(index), Rank(Slice(v)))
<1>1. ASSUME NEW f \in found, f.slices, objects[v].writable, SetScalar(v, f, x)
      PROVE  Promised!Fill(Shown(v), index, x)
  <2>1. Meets(v, index, f.items) /\ ~Promised!IsItem(Shown(v).shape, index)
    BY <1>1, MeetsIs
  <2> QED BY <1>1, <2>1, StepSetScalar
<1>2. ASSUME NEW f \in found, ~f.slices, objects[v].writable, SetItem(v, f, x)
      PROVE  Promised!Fill(Shown(v), index, x)
  <2>1. Meets(v, index, f.items) /\ Promised!IsItem(Shown(v).shape, index)
    BY <1>2, MeetsIs
  <2>2. \A k \in 1..Rank(Slice(v)) : f.items[k].kind = "index"
    BY <2>1, MeetsIs DEF Meets
  <2> QED BY <1>2, <2>1, <2>2, StepSetItem
<1>3. CASE Refuse /\ found = {}
  <2>1. ~Promised!IsPlain(index, Len(Shown(v).shape))
    BY <1>3, MeetsIs
  <2>2. Promised!Ended("refused") /\ UNCHANGED <<mem, objects>>
    BY <1>3 DEF Refuse, Promised!Ended, Ended
  <2>3. mem' = mem /\ Views' = Views
    BY <2>2, NoViewMade
  <2> QED BY <2>1, <2>2, <2>3 DEF Promised!Fill
<1>4. CASE Refuse /\ found # {} /\ ~objects[v].writable
  <2>1. PICK f \in found : TRUE
    BY <1>4
  <2> DEFINE items == f.items
             a == Shown(v)
  <2>2. items \in Promised!Readings(index, Len(a.shape))
    BY <2>1, MeetsIs DEF Meets
  <2>3. ~a.writable
    BY <1>4, ShownIs
  <2>4. Promised!Ended("refused") /\ UNCHANGED <<mem, objects>>
    BY <1>4 DEF Refuse, Promised!Ended, Ended
  <2>5. mem' = mem /\ Views' = Views
    BY <2>4, NoViewMade
  <2> HIDE DEF items, a
  <2>6. Promised!Fill(a, index, x)
    BY <2>2, <2>3, <2>4, <2>5 DEF Promised!Fill
  <2> QED BY <2>6 DEF a
<1> QED BY <1>1, <1>2, <1>3, <1>4 DEF Fill

\* One way a reading of the index can be assigned from the view of an object.
AssignsFrom(v, items, w) ==
    LET a == Shown(v) IN
    Promised!AssignFrom(Shown(w), a, Promised!Select(a, items), Promised!Legal(a.shape, items))

\* An assignment by one reading of the index is an assignment.
LEMMA AssignedSo ==
    ASSUME Inv, NEW v \in 1..Len(objects), NEW index, NEW items, Meets(v, index, items),
           NEW w \in 1..Len(objects), AssignsFrom(v, items, w)
    PROVE  Promised!Assign(Shown(v), index)
<1> DEFINE a == Shown(v)
           b == Shown(w)
<1>1. items \in Promised!Readings(index, Len(a.shape))
  BY DEF Meets
<1>2. b \in Promised!Range(Views)
  BY ShownIs
<1>3. Promised!AssignFrom(b, a, Promised!Select(a, items), Promised!Legal(a.shape, items))
  BY DEF AssignsFrom
<1> HIDE DEF a, b
<1>4. Promised!Assign(a, index)
  BY <1>1, <1>2, <1>3 DEF Promised!Assign
<1> QED BY <1>4 DEF a

\* A view that is assigned to a selection is copied there as promised.
LEMMA StepCopied ==
    ASSUME Inv, Inv', NEW v \in 1..Len(objects), objects[v].writable, NEW index, NEW items,
           Meets(v, index, items), NEW w \in 1..Len(objects),
           Promised!Legal(Shown(v).shape, items), MadeOf(Slice(v), items).shape # <<>>,
           OwnRanks(Slice(w), MadeOf(Slice(v), items)), NEW rest, NEW R, R = CopyContents(mem, Slice(w), MadeOf(Slice(v), items), rest),
           (\E r \in R : Written(r)) \/ (R = {} /\ Refuse)
    PROVE  AssignsFrom(v, items, w)
<1> DEFINE a == Shown(v)
           b == Shown(w)
           t == MadeOf(Slice(v), items)
           u == objects[v].writable
           y == Promised!Select(a, items)
           legal == Promised!Legal(a.shape, items)
<1>1. Selected(v, items)
  BY SelectedIs
<1>2. IsDirectSlice(t) /\ CellsOf(t) \subseteq DOMAIN mem /\ y = ViewOf(t, u) /\ y.shape # <<>>
  BY <1>1 DEF Selected
<1>3. IsDirectSlice(Slice(w)) /\ CellsOf(Slice(w)) \subseteq DOMAIN mem
      /\ b = ViewOf(Slice(w), objects[w].writable)
  BY ObjectIs DEF Shown
<1>4. Spaced(mem) /\ \A c \in DOMAIN mem : mem[c] \in Values
  BY InvSpaced
<1>5. a.writable /\ Promised!IsDirect(b)
  BY ShownIs
<1>6. legal /\ OwnRanks(Slice(w), t)
  OBVIOUS
<1>7. R = CopyContents(mem, Slice(w), t, rest) /\ ((\E r \in R : Written(r)) \/ (R = {} /\ Refuse))
  OBVIOUS
<1> HIDE DEF a, b, t, u, legal
<1>8. Copies(R, mem, Slice(w), b, t, ViewOf(t, u))
  BY <1>2, <1>3, <1>4, <1>7, CopiesIs
<1>9. /\ \A r \in R : KeepsOthers(r, mem, t)
      /\ R # {} => Promised!Fits(b, y)
      /\ Promised!Fits(b, y) =>
           /\ R # {}
           /\ \A r \in R : \A c \in CellsOf(t) : \E j \in Tuples(t.shape) :
                 ItemAt(t, j) = c /\ r[c] = mem[Promised!CellFor(b, y, j)]
  BY <1>2, <1>6, <1>8 DEF Copies
<1>10. Promised!ImageOf(y) = CellsOf(t)
  BY <1>2, ImageIs
<1>11. DOMAIN y.at = Tuples(t.shape) /\ \A j \in Tuples(t.shape) : y.at[j] = ItemAt(t, j)
  BY <1>2 DEF ViewOf
<1>12. ASSUME NEW r \in R, Written(r)
       PROVE  Promised!AssignFrom(b, a, y, legal)
  <2>1. /\ Promised!OthersKept(ViewOf(t, u)) /\ Promised!Ended("done") /\ ~Promised!Made
        /\ Views' = Views /\ mem' = r
    BY <1>9, <1>12, KeptIn
  <2>2. Promised!OthersKept(y)
    BY <1>2, <2>1
  <2>3. Promised!Fits(b, y)
    BY <1>9
  <2>4. \A c \in Promised!ImageOf(y) : \E j \in DOMAIN y.at :
           y.at[j] = c /\ mem'[c] = mem[Promised!CellFor(b, y, j)]
    <3>1. \A c \in CellsOf(t) : \E j \in Tuples(t.shape) :
             ItemAt(t, j) = c /\ r[c] = mem[Promised!CellFor(b, y, j)]
      BY <1>9, <2>3
    <3> HIDE DEF y
    <3> QED BY <3>1, <2>1, <1>10, <1>11
  <2> HIDE DEF y
  <2>5. Promised!Assigned(b, y)
    BY <2>2, <2>4 DEF Promised!Assigned
  <2> QED BY <1>2, <1>5, <1>6, <2>1, <2>3, <2>5 DEF Promised!AssignFrom
<1>13. ASSUME R = {}, Refuse
       PROVE  Promised!AssignFrom(b, a, y, legal)
  <2>1. Promised!Ended("refused") /\ UNCHANGED <<mem, objects>>
    BY <1>13 DEF Refuse, Promised!Ended, Ended
  <2>2. mem' = mem /\ Views' = Views
    BY <2>1, NoViewMade
  <2>3. ~Promised!Fits(b, y)
    BY <1>9, <1>13
  <2> HIDE DEF y
  <2> QED BY <2>1, <2>2, <2>3 DEF Promised!AssignFrom
<1> QED BY <1>7, <1>12, <1>13 DEF AssignsFrom, a, b, y, legal

\* A step that is refused because nothing can be assigned so.
LEMMA StepNotAllowed ==
    ASSUME Inv, Inv', NEW v \in 1..Len(objects), NEW index, NEW items, Meets(v, index, items),
           NEW w \in 1..Len(objects), Refuse,
           \/ ~objects[v].writable \/ ~Promised!Legal(Shown(v).shape, items)
           \/ Promised!Select(Shown(v), items).shape = <<>>
    PROVE  AssignsFrom(v, items, w)
<1> DEFINE a == Shown(v)
           b == Shown(w)
           y == Promised!Select(a, items)
           legal == Promised!Legal(a.shape, items)
<1>1. Promised!Ended("refused") /\ UNCHANGED <<mem, objects>>
  BY DEF Refuse, Promised!Ended, Ended
<1>2. mem' = mem /\ Views' = Views
  BY <1>1, NoViewMade
<1>3. a.writable = objects[v].writable
  BY ShownIs
<1>4. ~a.writable \/ ~legal \/ y.shape = <<>>
  BY <1>3
<1> HIDE DEF a, b, y, legal
<1>5. Promised!AssignFrom(b, a, y, legal)
  BY <1>1, <1>2, <1>4 DEF Promised!AssignFrom
<1> QED BY <1>5 DEF AssignsFrom, a, b, y, legal

\* Running out of memory changes nothing.
LEMMA NoMemoryIs ==
    ASSUME Inv, Inv', NoMemory
    PROVE  Promised!Ended("memory") /\ mem' = mem /\ Views' = Views
<1>1. Promised!Ended("memory") /\ UNCHANGED <<mem, objects>>
  BY DEF NoMemory, Promised!Ended, Ended
<1> QED BY <1>1, NoViewMade

\* Assigning a view to a slice implements Assign.
LEMMA StepSetSlice ==
    ASSUME Inv, Inv', NEW v \in 1..Len(objects), objects[v].writable, NEW index, NEW f,
           Meets(v, index, f.items), NEW w \in 1..Len(objects),
           \A dst \in Selection(v, f.items) : OwnRanks(Slice(w), dst), SetSlice(v, f, w)
    PROVE  Promised!Assign(Shown(v), index)
<1> DEFINE items == f.items
           a == Shown(v)
           t == MadeOf(Slice(v), items)
           cut == Selection(v, items)
<1>1. Selected(v, items)
  BY SelectedIs
<1>2. \/ \E dst \in cut, rest \in Leftovers :
            LET after == CopyContents(mem, Slice(w), dst, rest) IN
            (\E m \in after : Written(m)) \/ (after = {} /\ Refuse)
      \/ NoMemory
      \/ cut = {} /\ Refuse
  BY DEF SetSlice
<1>3. CASE \E dst \in cut, rest \in Leftovers :
             LET after == CopyContents(mem, Slice(w), dst, rest) IN
             (\E m \in after : Written(m)) \/ (after = {} /\ Refuse)
  <2>1. Promised!Legal(a.shape, items) /\ t.shape # <<>> /\ cut = {t} /\ OwnRanks(Slice(w), t)
    BY <1>1, <1>3 DEF Selected
  <2>2. PICK rest \in Leftovers :
          LET after == CopyContents(mem, Slice(w), t, rest) IN
          (\E m \in after : Written(m)) \/ (after = {} /\ Refuse)
    BY <1>3, <2>1
  <2> DEFINE R == CopyContents(mem, Slice(w), t, rest)
  <2>3. (\E m \in R : Written(m)) \/ (R = {} /\ Refuse)
    BY <2>2
  <2>4. R = CopyContents(mem, Slice(w), t, rest)
    OBVIOUS
  <2> HIDE DEF R
  <2>5. AssignsFrom(v, items, w)
    BY <2>1, <2>3, <2>4, StepCopied
  <2> QED BY <2>5, AssignedSo
<1>4. CASE NoMemory
  BY <1>4, NoMemoryIs DEF Promised!Assign
<1>5. CASE cut = {} /\ Refuse
  <2>1. ~Promised!Legal(a.shape, items) \/ Promised!Select(a, items).shape = <<>>
    BY <1>1, <1>5 DEF Selected
  <2>2. AssignsFrom(v, items, w)
    BY <1>5, <2>1, StepNotAllowed
  <2> QED BY <2>2, AssignedSo
<1> QED BY <1>2, <1>3, <1>4, <1>5

\* setitem with a view implements Assign.
LEMMA StepAssign ==
    ASSUME {"slices", "ranks"} \subseteq Limits, Inv, Inv', NEW v \in 1..Len(objects),
           NEW index \in Indices, UsesSlices(v, index),
           NEW w \in 1..Len(objects), UsesRanks(v, index, w), Assign(v, index, w)
    PROVE  Promised!Assign(Shown(v), index)
<1> DEFINE found == Unellipsify(AsTuple(index), Rank(Slice(v)))
<1>0. "slices" \in Limits /\ \A f \in found : \A dst \in Selection(v, f.items) : OwnRanks(Slice(w), dst)
  BY DEF UsesRanks
<1>1. ASSUME NEW f \in found, f.slices, objects[v].writable, SetSlice(v, f, w)
      PROVE  Promised!Assign(Shown(v), index)
  <2>1. Meets(v, index, f.items)
    BY <1>0, <1>1, MeetsIs
  <2> QED BY <1>0, <1>1, <2>1, StepSetSlice
<1>2. ASSUME NEW f \in found, ~f.slices, Refuse
      PROVE  Promised!Assign(Shown(v), index)
  <2> DEFINE items == f.items
             t == MadeOf(Slice(v), items)
  <2>1. Meets(v, index, items) /\ Promised!IsItem(Shown(v).shape, index)
    BY <1>0, <1>2, MeetsIs
  <2>2. \A k \in 1..Rank(Slice(v)) : items[k].kind = "index"
    BY <1>0, <2>1, MeetsIs DEF Meets
  <2>3. IsDirectSlice(Slice(v)) /\ Cuts(Slice(v), items)
    BY <2>1, ObjectIs DEF Meets
  <2>4. Enters(Slice(v), items) => t.shape = <<>>
    BY <2>2, <2>3, PointerIs
  <2>5. Selected(v, items)
    BY <2>1, SelectedIs
  <2>6. Enters(Slice(v), items) <=> Promised!Legal(Shown(v).shape, items)
    BY <2>1 DEF Meets
  <2>7. ~Promised!Legal(Shown(v).shape, items) \/ Promised!Select(Shown(v), items).shape = <<>>
    BY <2>4, <2>5, <2>6 DEF Selected
  <2> HIDE DEF items, t
  <2>8. AssignsFrom(v, items, w)
    BY <1>2, <2>1, <2>7, StepNotAllowed
  <2> QED BY <2>1, <2>8, AssignedSo
<1>3. CASE Refuse /\ found = {}
  <2>1. ~Promised!IsPlain(index, Len(Shown(v).shape))
    BY <1>0, <1>3, MeetsIs
  <2>2. Promised!Ended("refused") /\ UNCHANGED <<mem, objects>>
    BY <1>3 DEF Refuse, Promised!Ended, Ended
  <2>3. mem' = mem /\ Views' = Views
    BY <2>2, NoViewMade
  <2> QED BY <2>1, <2>2, <2>3 DEF Promised!Assign
<1>4. CASE Refuse /\ found # {} /\ ~objects[v].writable
  <2>1. PICK f \in found : TRUE
    BY <1>4
  <2>2. Meets(v, index, f.items)
    BY <1>0, <2>1, MeetsIs
  <2>3. AssignsFrom(v, f.items, w)
    BY <1>4, <2>2, StepNotAllowed
  <2> QED BY <2>2, <2>3, AssignedSo
<1> QED BY <1>1, <1>2, <1>3, <1>4 DEF Assign

-----------------------------------------------------------------------------
(* A copy of a view.                                                        *)

\* Views of the same shape are copied item by item.
LEMMA SameShape ==
    ASSUME NEW s, IsDirectSlice(s), NEW d, IsDirectSlice(d), d.shape = s.shape,
           s.owner = Rank(s), d.owner = Rank(s), NEW w, NEW u
    PROVE  /\ Promised!Fits(ViewOf(s, w), ViewOf(d, u))
           /\ OwnRanks(s, d)
           /\ \A j \in Tuples(s.shape) : Promised!CellFor(ViewOf(s, w), ViewOf(d, u), j) = ItemAt(s, j)
<1> DEFINE a == ViewOf(s, w)
           b == ViewOf(d, u)
           n == Rank(s)
<1>1. n \in Nat /\ s.shape \in Seq(Nat) /\ Len(s.shape) = n
  BY DirectSliceHas
<1>2. a.shape = s.shape /\ b.shape = s.shape
      /\ \A j \in Tuples(s.shape) : a.at[j] = ItemAt(s, j)
  BY DEF ViewOf
<1> HIDE DEF a, b, n
<1>3. Promised!Fits(a, b)
  BY <1>2 DEF Promised!Fits
<1>4. Max({n, n}) = n
  BY <1>1, PairBounds
<1>5. OwnRanks(s, d)
  <2>1. Rank(s) = n /\ Rank(d) = n /\ s.owner = n /\ d.owner = n
    BY DEF Rank, n
  <2> QED BY <2>1, <1>4 DEF OwnRanks
<1>6. ASSUME NEW j \in Tuples(s.shape) PROVE Promised!CellFor(a, b, j) = ItemAt(s, j)
  <2>1. j \in [1..n -> Nat] /\ \A k \in 1..n : j[k] < s.shape[k]
    BY <1>1, TupleIs
  <2>2. Promised!CellFor(a, b, j)
          = a.at[[k \in 1..n |-> IF k + n - n < 1 \/ s.shape[k] = 1 THEN 0 ELSE j[k + n - n]]]
    BY <1>1, <1>2 DEF Promised!CellFor
  <2>3. \A k \in 1..n : (IF k + n - n < 1 \/ s.shape[k] = 1 THEN 0 ELSE j[k + n - n]) = j[k]
    <3> SUFFICES ASSUME NEW k \in 1..n
                 PROVE  (IF k + n - n < 1 \/ s.shape[k] = 1 THEN 0 ELSE j[k + n - n]) = j[k]
      OBVIOUS
    <3>1. k + n - n = k /\ ~(k < 1) /\ j[k] \in Nat /\ j[k] < s.shape[k]
      BY <1>1, <2>1
    <3> QED BY <3>1
  <2>4. [k \in 1..n |-> IF k + n - n < 1 \/ s.shape[k] = 1 THEN 0 ELSE j[k + n - n]] = j
    BY <2>1, <2>3
  <2>5. Promised!CellFor(a, b, j) = a.at[j]
    BY <2>2, <2>4
  <2> QED BY <1>2, <2>5
<1> QED BY <1>3, <1>5, <1>6 DEF a, b

\* The extents say whether there is something to copy.
LEMMA CopyableIs ==
    ASSUME NEW s, IsDirectSlice(s)
    PROVE  Copyable(s) <=> s.shape # <<>> /\ Tuples(s.shape) # {}
<1>1. Rank(s) \in Nat /\ s.shape \in Seq(Nat) /\ Len(s.shape) = Rank(s)
  BY DirectSliceHas
<1>2. Rank(s) > 0 <=> s.shape # <<>>
  BY <1>1
<1>3. ASSUME Copyable(s) PROVE Tuples(s.shape) # {}
  BY <1>3, CopyableHas
<1>4. ASSUME NEW i \in Tuples(s.shape), NEW k \in 1..Rank(s) PROVE s.shape[k] > 0
  <2>1. i \in [1..Rank(s) -> Nat] /\ i[k] < s.shape[k]
    BY <1>1, TupleIs
  <2>2. i[k] \in Nat /\ s.shape[k] \in Nat
    BY <1>1, <2>1
  <2> QED BY <2>1, <2>2
<1> QED BY <1>2, <1>3, <1>4 DEF Copyable

\* What the copy shows.
LEMMA CopyShows ==
    ASSUME Inv, NEW v \in 1..Len(objects), NEW order, NEW dst, NEW after, CopiedTo(v, order, dst, after)
    PROVE  /\ DOMAIN mem' = DOMAIN mem \union CellsOf(dst)
           /\ CellsOf(dst) \intersect DOMAIN mem = {}
           /\ \A c \in DOMAIN mem : mem'[c] = mem[c]
           /\ \A j \in Tuples(dst.shape) : mem'[ItemAt(dst, j)] = mem[ItemAt(Slice(v), j)]
<1> DEFINE s == SliceCopy(Slice(v))
           w == objects[v].writable
           a == ViewOf(s, w)
           b == ViewOf(dst, TRUE)
           R == CopyContents(after, s, dst, 0)
           r == mem'
<1>1. IsDirectSlice(Slice(v)) /\ CellsOf(Slice(v)) \subseteq DOMAIN mem
  BY ObjectIs
<1>2. /\ IsDirectSlice(s) /\ Rank(s) = Rank(Slice(v)) /\ s.owner = Rank(Slice(v))
      /\ s.shape = Slice(v).shape /\ CellsOf(s) = CellsOf(Slice(v))
      /\ \A i : ItemAt(s, i) = ItemAt(Slice(v), i)
  BY <1>1, SliceCopyIs
<1>3. Copies(R, after, s, a, dst, b) /\ IsDirectSlice(dst)
  BY CopiedFacts
<1>4. IsOwn(dst, after, Slice(v)) /\ r \in R
  BY DEF CopiedTo
<1>5. /\ dst.shape = Slice(v).shape /\ dst.owner = Rank(Slice(v))
      /\ DOMAIN after = DOMAIN mem \union CellsOf(dst) /\ CellsOf(dst) \intersect DOMAIN mem = {}
      /\ \A c \in DOMAIN mem : after[c] = mem[c]
      /\ \A i, j \in Tuples(dst.shape) : ItemAt(dst, i) = ItemAt(dst, j) => i = j
  BY <1>4 DEF IsOwn
<1>6. dst.shape = s.shape /\ s.owner = Rank(s) /\ dst.owner = Rank(s)
  BY <1>2, <1>5
<1>7. Promised!Fits(a, b) /\ OwnRanks(s, dst)
      /\ \A j \in Tuples(s.shape) : Promised!CellFor(a, b, j) = ItemAt(s, j)
  <2> DEFINE yes == TRUE
  <2> HIDE DEF yes, s, w
  <2>1. /\ Promised!Fits(ViewOf(s, w), ViewOf(dst, yes))
        /\ OwnRanks(s, dst)
        /\ \A j \in Tuples(s.shape) : Promised!CellFor(ViewOf(s, w), ViewOf(dst, yes), j) = ItemAt(s, j)
    BY <1>2, <1>3, <1>6, SameShape
  <2> QED BY <2>1 DEF yes
<1> HIDE DEF s, w, a, b, R, r
<1>8. /\ KeepsOthers(r, after, dst)
      /\ \A c \in CellsOf(dst) : \E j \in Tuples(dst.shape) :
            ItemAt(dst, j) = c /\ r[c] = after[Promised!CellFor(a, b, j)]
  BY <1>3, <1>4, <1>7 DEF Copies
<1>9. DOMAIN r = DOMAIN after /\ \A c \in DOMAIN after \ CellsOf(dst) : r[c] = after[c]
  BY <1>8 DEF KeepsOthers
<1>10. \A c \in DOMAIN mem : r[c] = mem[c]
  BY <1>5, <1>9
<1>11. ASSUME NEW j \in Tuples(dst.shape) PROVE r[ItemAt(dst, j)] = mem[ItemAt(Slice(v), j)]
  <2> DEFINE c == ItemAt(dst, j)
  <2>1. c \in CellsOf(dst)
    BY DEF CellsOf
  <2>2. c = ItemAt(dst, j)
    OBVIOUS
  <2> HIDE DEF c
  <2>3. PICK l \in Tuples(dst.shape) : ItemAt(dst, l) = c /\ r[c] = after[Promised!CellFor(a, b, l)]
    BY <1>8, <2>1
  <2>4. l = j
    BY <1>5, <2>2, <2>3
  <2>5. Promised!CellFor(a, b, j) = ItemAt(s, j) /\ ItemAt(s, j) = ItemAt(Slice(v), j)
    BY <1>2, <1>6, <1>7
  <2>6. ItemAt(Slice(v), j) \in DOMAIN mem
    BY <1>1, <1>5 DEF CellsOf
  <2> QED BY <1>5, <2>2, <2>3, <2>4, <2>5, <2>6
<1> QED BY <1>5, <1>9, <1>10, <1>11 DEF r

\* copy() and copy_fortran() implement Copy.
LEMMA StepCopy ==
    ASSUME Inv, Inv', NEW v \in 1..Len(objects), NEW order, Copy(v, order)
    PROVE  Promised!Copy(Shown(v))
<1> DEFINE s == Slice(v)
           a == Shown(v)
<1>1. IsDirectSlice(s)
  BY ObjectIs
<1>2. /\ Promised!IsDirect(a) /\ a.shape = s.shape /\ Len(a.shape) = Rank(s)
      /\ \A i \in Tuples(s.shape) : a.at[i] = ItemAt(s, i)
  BY ShownIs
<1>3. Copyable(s) <=> a.shape # <<>> /\ Promised!Tuples(a.shape) # {}
  BY <1>1, <1>2, CopyableIs, SameOperators
<1>4. ASSUME NEW dst, NEW after, CopiedTo(v, order, dst, after)
      PROVE  Promised!Copy(a)
  <2> DEFINE b == ViewOf(dst, TRUE)
             last == Promised!Last(Views')
             yes == TRUE
  <2>1. Copyable(s) /\ IsOwn(dst, after, s) /\ Ended("done")
        /\ objects' = Append(objects, [slice |-> dst, writable |-> TRUE])
    BY <1>4 DEF CopiedTo
  <2>2. /\ IsDirectSlice(dst) /\ dst.shape = s.shape /\ dst.owner = Rank(s)
        /\ \A i, j \in Tuples(dst.shape) : ItemAt(dst, i) = ItemAt(dst, j) => i = j
    BY <2>1 DEF IsOwn
  <2>3. /\ DOMAIN mem' = DOMAIN mem \union CellsOf(dst)
        /\ CellsOf(dst) \intersect DOMAIN mem = {}
        /\ \A c \in DOMAIN mem : mem'[c] = mem[c]
        /\ \A j \in Tuples(dst.shape) : mem'[ItemAt(dst, j)] = mem[ItemAt(s, j)]
    BY <1>4, CopyShows
  <2>4. yes \in BOOLEAN /\ objects' = Append(objects, [slice |-> dst, writable |-> yes])
        /\ b = ViewOf(dst, yes) /\ b.writable
    BY <2>1 DEF ViewOf
  <2>5. /\ b.shape = dst.shape /\ DOMAIN b.at = Tuples(dst.shape)
        /\ Promised!IsDirect(b)
        /\ \A i \in Tuples(dst.shape) : b.at[i] = ItemAt(dst, i)
    BY DEF ViewOf, Promised!IsDirect
  <2> HIDE DEF b, yes, s, a
  <2>6. Views' = Append(Views, ViewOf(dst, yes)) /\ Promised!Last(Views') = ViewOf(dst, yes) /\ Promised!Made
    BY <2>2, <2>4, ViewMade
  <2>7. Views' = Append(Views, last) /\ last = b
    BY <2>4, <2>6
  <2>8. Promised!Ended("done")
    BY <2>1 DEF Ended, Promised!Ended
  <2> HIDE DEF last
  <2>9. { b.at[i] : i \in DOMAIN b.at } = CellsOf(dst)
    BY <2>5 DEF CellsOf
  <2>10. \A i \in DOMAIN b.at : b.at[i] \notin DOMAIN mem /\ mem'[b.at[i]] = mem[a.at[i]]
    <3> SUFFICES ASSUME NEW i \in DOMAIN b.at
                 PROVE  b.at[i] \notin DOMAIN mem /\ mem'[b.at[i]] = mem[a.at[i]]
      OBVIOUS
    <3>1. i \in Tuples(dst.shape) /\ b.at[i] = ItemAt(dst, i) /\ a.at[i] = ItemAt(s, i)
      BY <1>2, <2>2, <2>5
    <3>2. b.at[i] \in CellsOf(dst)
      BY <2>9
    <3> QED BY <2>3, <3>1, <3>2
  <2>11. \A i, j \in DOMAIN b.at : b.at[i] = b.at[j] => i = j
    BY <2>2, <2>5
  <2>12. DOMAIN b.at = Promised!Tuples(a.shape) /\ b.shape = a.shape
    BY <1>2, <2>2, <2>5, SameOperators
  <2>13. DOMAIN mem' = DOMAIN mem \union { b.at[i] : i \in DOMAIN b.at }
    BY <2>3, <2>9
  <2>14. Promised!IsCopy(b, a)
    BY <2>3, <2>4, <2>5, <2>10, <2>11, <2>12, <2>13 DEF Promised!IsCopy
  <2>15. Promised!IsCopy(last, a)
    BY <2>7, <2>14
  <2>16. Promised!IsDirect(a) /\ a.shape # <<>> /\ Promised!Tuples(a.shape) # {}
    BY <1>2, <1>3, <2>1
  <2> QED BY <2>6, <2>7, <2>8, <2>15, <2>16 DEF Promised!Copy, last
<1>5. CASE Refuse /\ ~Copyable(s)
  <2>1. Promised!Ended("refused") /\ UNCHANGED <<mem, objects>>
    BY <1>5 DEF Refuse, Promised!Ended, Ended
  <2>2. mem' = mem /\ Views' = Views
    BY <2>1, NoViewMade
  <2>3. ~ (Promised!IsDirect(a) /\ a.shape # <<>> /\ Promised!Tuples(a.shape) # {})
    BY <1>3, <1>5
  <2> HIDE DEF a
  <2>4. Promised!Copy(a)
    BY <2>1, <2>2, <2>3 DEF Promised!Copy
  <2> QED BY <2>4 DEF a
<1>6. CASE NoMemory
  BY <1>6, NoMemoryIs DEF Promised!Copy
<1>7. \/ \E dst, after : CopiedTo(v, order, dst, after)
      \/ Refuse /\ ~Copyable(Slice(v))
      \/ NoMemory
  BY CopyIs
<1> QED BY <1>4, <1>5, <1>6, <1>7 DEF a, s

-----------------------------------------------------------------------------
(* The objects behave as views of an array.                                 *)

\* Every step of the objects is a step of the views.
LEMMA StepsMap ==
    ASSUME {"slices", "ranks"} \subseteq Limits, Inv, Inv', Next
    PROVE  Promised!Next
<1>1. Promised!Made => Promised!Told'
  BY ToldThen
<1>2. ASSUME NEW v \in 1..Len(objects), Make(v) \/ Write(v)
      PROVE  \E view \in Promised!Range(Views) :
                \/ Promised!Itself \/ Promised!Turn(view) \/ Promised!Copy(view)
                \/ \E index \in Indices :
                      \/ Promised!GetItem(view, index)
                      \/ \E x \in Fills : Promised!Fill(view, index, x)
                      \/ Promised!Assign(view, index)
  <2>1. Shown(v) \in Promised!Range(Views)
    BY ShownIs
  <2>2. CASE Turn(v)
    BY <2>1, <2>2, StepTurn
  <2>0. "slices" \in Limits
    OBVIOUS
  <2>3. ASSUME NEW index \in Indices, UsesSlices(v, index), GetItem(v, index)
        PROVE  Promised!Itself \/ Promised!GetItem(Shown(v), index)
    BY <2>0, <2>3, StepGetItem
  <2>4. ASSUME NEW order, Copy(v, order) PROVE Promised!Copy(Shown(v))
    BY <2>4, StepCopy
  <2>5. ASSUME NEW index \in Indices, UsesSlices(v, index), NEW w \in 1..Len(objects),
               UsesRanks(v, index, w), Assign(v, index, w)
        PROVE  Promised!Assign(Shown(v), index)
    BY <2>5, StepAssign
  <2>6. ASSUME NEW index \in Indices, UsesSlices(v, index), NEW x \in Fills, Fill(v, index, x)
        PROVE  Promised!Fill(Shown(v), index, x)
    BY <2>0, <2>6, StepFill
  <2> QED BY <1>2, <2>1, <2>2, <2>3, <2>4, <2>5, <2>6 DEF Make, Write
<1>3. PICK v \in 1..Len(objects) : Make(v) \/ Write(v)
  BY DEF Next
<1> QED BY <1>1, <1>2, <1>3 DEF Promised!Next

\* A step that changes nothing changes no view.
LEMMA StutterMaps ==
    ASSUME Inv, Inv', UNCHANGED vars
    PROVE  UNCHANGED Promised!vars
<1>1. UNCHANGED <<mem, objects, outcome>>
  BY DEF vars
<1>2. Views' = Views /\ Tells' = Tells
  BY <1>1, NoViewMade
<1> QED BY <1>1, <1>2 DEF Promised!vars

\* The first object is a first view.
LEMMA InitMaps ==
    ASSUME Inv, Init
    PROVE  Promised!Init
<1>1. PICK e \in Exports :
         /\ mem = e.mem /\ objects = <<[slice |-> e.slice, writable |-> e.writable]>>
         /\ outcome = [kind |-> "none", item |-> {}]
  BY DEF Init
<1>2. 1 \in 1..Len(objects) /\ Len(objects) = 1 /\ Slice(1) = e.slice
  BY <1>1 DEF Slice
<1>3. e.slice.owner = Rank(e.slice)
  BY <1>1, ExportsAssumption
<1>4. ObjectsIn(objects, mem) /\ \A c \in DOMAIN mem : mem[c] \in Values
  BY DEF Inv, IsMemory
<1>5. Len(Views) = 1
  BY <1>2, <1>4, ViewsAre, ViewsHave
<1>6. /\ Views[1] = Shown(1) /\ Len(Shown(1).shape) = Rank(Slice(1))
  BY <1>2, ShownIs
<1>7. Promised!ImageOf(Shown(1)) \subseteq DOMAIN mem
  BY <1>2, ImageIs, ObjectIs DEF Shown
<1>8. Promised!Told
  BY ToldAlways
<1> QED BY <1>1, <1>2, <1>3, <1>4, <1>5, <1>6, <1>7, <1>8 DEF Promised!Init

\* For callers that keep to both limits, the memoryview objects of direct buffers
\* implement the abstract views: every step is an indexing by Python's positions, a
\* transpose, a copy, a filling or an assignment of what the source had, or a refusal
\* they allow, whatever the strides and whichever way a copy takes.
THEOREM ViewsAreArrays ==
    {"slices", "ranks"} \subseteq Limits => (Spec /\ StartsDirect => ImplementsArrayViews)
<1>1. SUFFICES ASSUME {"slices", "ranks"} \subseteq Limits
               PROVE  Spec /\ StartsDirect => ImplementsArrayViews
  OBVIOUS
<1>2. "slices" \in Limits
  BY <1>1
<1>3. Spec /\ StartsDirect => []Inv
  BY <1>2, InvAlways
<1>4. Inv /\ Init => Promised!Init
  BY InitMaps
<1>5. Inv /\ Inv' /\ [Next]_vars => [Promised!Next]_(Promised!vars)
  BY <1>1, StepsMap, StutterMaps
<1> QED BY <1>3, <1>4, <1>5, PTL DEF Spec, ImplementsArrayViews, Promised!Spec
=============================================================================
