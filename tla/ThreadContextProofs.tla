-------------------------- MODULE ThreadContextProofs --------------------------
(***************************************************************************)
(* Theorems of ThreadContext, for any messages, sizes, windows, budgets    *)
(* and keep constants, any number of messages, calls, deaths, lapses and   *)
(* requests for a fold; and before them what they rest on, where a fold    *)
(* may cut and how many media a request shows (ContextWindow), for any     *)
(* sequence of messages.  What sizes add up to is not used: whatever       *)
(* excess or need is computed, these hold.                                 *)
(***************************************************************************)
EXTENDS ThreadContext, SequenceTheorems, FiniteSetTheorems, WellFoundedInduction, TLAPS

Roles == {"user", "assistant", "tool"}

----------------------------------------------------------------------------
(* Least and Newest choose what they are meant to.                         *)

(* A set of naturals that has a member has a least one. *)
LEMMA LeastIsLeast ==
  ASSUME NEW S \in SUBSET Nat, S # {}
  PROVE  Least(S) \in S /\ \A j \in S : Least(S) <= j
  <1>1. PICK m \in S : \A j \in S : ~(<<j, m>> \in OpToRel(<, Nat))
    <2> HIDE DEF OpToRel
    <2> QED
      BY NatLessThanWellFounded, WFMin
  <1>2. ASSUME NEW j \in S PROVE m <= j
    <2>1. <<j, m>> \in Nat \X Nat /\ ~(<<j, m>> \in OpToRel(<, Nat))
      BY <1>1
    <2>2. ~(j < m)
      BY <2>1 DEF OpToRel
    <2> QED
      BY <2>2
  <1> QED
    BY <1>2 DEF Least

(* A finite set of naturals has an n-th newest if it has n members. *)
LEMMA NewestIsNewest ==
  ASSUME NEW S \in SUBSET Nat, IsFiniteSet(S), NEW n \in Nat \ {0}, Cardinality(S) >= n
  PROVE  Newest(S, n) \in S /\ Cardinality({j \in S : j >= Newest(S, n)}) = n
  <1> DEFINE Up(i) == {j \in S : j >= i}
             Many == {i \in S : Cardinality(Up(i)) <= n}
             Bound == {k \in Nat : \A j \in S : j <= k}
  <1>up. \A i \in Nat : /\ IsFiniteSet(Up(i)) /\ Cardinality(Up(i)) \in Nat
    BY FS_Subset, FS_CardinalityType
  <1>ne. S # {}
    BY FS_EmptySet
  <1>1. Many # {}
    <2> DEFINE Above(i) == Cardinality(Up(i))
               Sizes == {Above(i) : i \in S}
    <2>1. Sizes \in SUBSET Nat /\ Sizes # {}
      BY <1>up, <1>ne
    <2>2. PICK i \in S : \A j \in S : Above(i) <= Above(j)
      <3> HIDE DEF Above
      <3>1. Least(Sizes) \in Sizes /\ \A k \in Sizes : Least(Sizes) <= k
        BY <2>1, LeastIsLeast
      <3> QED
        BY <3>1
    <2>3. Up(i) \ {i} = {}
      <3> SUFFICES ASSUME NEW j \in Up(i) \ {i} PROVE FALSE
        OBVIOUS
      <3>1. Up(j) \subseteq Up(i) \ {i} /\ i \in Up(i)
        <4>1. i \in Nat /\ j \in Nat /\ j > i
          BY <2>2
        <4>2. ASSUME NEW k \in S, k >= j PROVE k >= i /\ k # i
          BY <4>1, <4>2, S \subseteq Nat, k \in Nat
        <4>3. i >= i
          BY <4>1
        <4> QED
          BY <4>2, <4>3
      <3>2. Cardinality(Up(j)) <= Cardinality(Up(i) \ {i})
        BY <3>1, <1>up, FS_Subset, FS_RemoveElement
      <3>3. Cardinality(Up(i) \ {i}) = Cardinality(Up(i)) - 1
        BY <3>1, <1>up, FS_RemoveElement, ZenonT(60)
      <3> QED
        BY <3>2, <3>3, <2>2, <1>up
    <2>4. Up(i) = {i}
      BY <2>3
    <2>5. Cardinality(Up(i)) = 1
      BY <2>4, FS_Singleton
    <2> QED
      BY <2>5
  <1>2. PICK m \in Many : \A j \in Many : m <= j
    <2> HIDE DEF Many
    <2>1. Many \in SUBSET Nat
      BY DEF Many
    <2> QED
      BY <1>1, <2>1, LeastIsLeast
  <1>3. Cardinality(Up(m)) = n
    <2> SUFFICES ASSUME Cardinality(Up(m)) < n PROVE FALSE
      BY <1>up
    <2>1. S \ Up(m) # {}
      <3>1. S \ Up(m) = {} => S = Up(m)
        OBVIOUS
      <3> QED
        BY <3>1, <1>up
    <2>2. IsFiniteSet(S \ Up(m))
      BY FS_Difference
    <2> DEFINE Gap(j) == m - j
               Gaps == {Gap(j) : j \in S \ Up(m)}
    <2>3. Gaps \in SUBSET Nat /\ Gaps # {}
      BY <2>1
    <2>4. PICK p \in S \ Up(m) : \A j \in S \ Up(m) : Gap(p) <= Gap(j)
      <3> HIDE DEF Gap
      <3>1. Least(Gaps) \in Gaps /\ \A k \in Gaps : Least(Gaps) <= k
        BY <2>3, LeastIsLeast
      <3> QED
        BY <3>1
    <2>5. Up(p) = Up(m) \cup {p} /\ p \notin Up(m)
      <3>1. p < m /\ p \in S
        BY <2>4
      <3>2. ASSUME NEW j \in S, j < m PROVE j <= p
        <4>1. j \in S \ Up(m)
          BY <3>2
        <4> QED
          BY <4>1, <2>4
      <3>3. ASSUME NEW j \in S PROVE j >= p <=> j >= m \/ j = p
        <4>1. j \in Nat /\ p \in Nat /\ m \in Nat
          OBVIOUS
        <4> QED
          BY <3>1, <3>2, <4>1
      <3>4. ~(p >= m)
        BY <3>1
      <3> QED
        BY <3>1, <3>3, <3>4
    <2>6. Cardinality(Up(p)) = Cardinality(Up(m)) + 1
      <3> HIDE DEF Up
      <3>1. IsFiniteSet(Up(m))
        BY <1>up
      <3> QED
        BY <2>5, <3>1, FS_AddElement
    <2>7. p \in Many /\ p < m
      BY <2>6, <1>up, <2>4
    <2> QED
      BY <2>7, <1>2
  <1>4. m \in S /\ Cardinality({j \in S : j >= m}) = n
    BY <1>3
  <1> QED
    BY <1>4 DEF Newest

----------------------------------------------------------------------------
(* What Total adds up.  A statement about every length is proved of the     *)
(* least length at which it would fail.                                     *)

(* The partial sums of f over its first n positions. *)
Sums(f, n, s) ==
  /\ s \in [0..n -> Nat] /\ s[0] = 0
  /\ \A i \in 1..n : s[i] = s[i - 1] + f[i]

LEMMA SumsExist ==
  ASSUME NEW n \in Nat, NEW f, \A i \in 1..n : f[i] \in Nat
  PROVE  \E s : Sums(f, n, s)
  <1> DEFINE Bad == {m \in 0..n : ~\E s : Sums(f, m, s)}
  <1> SUFFICES ASSUME Bad # {} PROVE FALSE
    BY n \in 0..n
  <1>1. PICK m \in Bad : \A j \in Bad : m <= j
    <2>1. Bad \in SUBSET Nat
      OBVIOUS
    <2> HIDE DEF Bad
    <2> QED
      BY <2>1, LeastIsLeast
  <1>2. CASE m = 0
    <2>1. Sums(f, 0, [i \in 0..0 |-> 0])
      BY DEF Sums
    <2> QED
      BY <1>1, <1>2, <2>1
  <1>3. CASE m # 0
    <2>1. m - 1 \in 0..n /\ m \in 1..n /\ m - 1 \notin Bad
      BY <1>1, <1>3
    <2>2. PICK s : Sums(f, m - 1, s)
      BY <2>1
    <2> DEFINE t == [i \in 0..m |-> IF i = m THEN s[m - 1] + f[m] ELSE s[i]]
    <2>3. \A i \in 0..(m - 1) : s[i] \in Nat
      BY <2>2 DEF Sums
    <2>4. t \in [0..m -> Nat]
      BY <2>1, <2>3
    <2>5. t[0] = 0
      BY <2>1, <2>2 DEF Sums
    <2>6. ASSUME NEW i \in 1..m PROVE t[i] = t[i - 1] + f[i]
      <3>1. i - 1 \in 0..m /\ i - 1 # m /\ t[i - 1] = s[i - 1]
        BY <2>1
      <3>2. CASE i = m
        BY <3>1, <3>2
      <3>3. CASE i # m
        <4>1. i \in 1..(m - 1) /\ t[i] = s[i]
          BY <2>1, <3>3
        <4>2. s[i] = s[i - 1] + f[i]
          BY <2>2, <4>1 DEF Sums
        <4> QED
          BY <3>1, <4>1, <4>2
      <3> QED
        BY <3>2, <3>3
    <2>7. Sums(f, m, t)
      <3> HIDE DEF t
      <3> QED
        BY <2>4, <2>5, <2>6 DEF Sums
    <2> QED
      BY <1>1, <2>7
  <1> QED
    BY <1>2, <1>3

LEMMA SumsAgree ==
  ASSUME NEW n \in Nat, NEW f, NEW g, \A i \in 1..n : f[i] = g[i],
         NEW s, Sums(f, n, s), NEW m \in Nat, n <= m, NEW t, Sums(g, m, t)
  PROVE  s[n] = t[n]
  <1> DEFINE Bad == {i \in 0..n : s[i] # t[i]}
  <1> SUFFICES ASSUME Bad # {} PROVE FALSE
    BY n \in 0..n
  <1>1. PICK i \in Bad : \A j \in Bad : i <= j
    <2>1. Bad \in SUBSET Nat
      OBVIOUS
    <2> HIDE DEF Bad
    <2> QED
      BY <2>1, LeastIsLeast
  <1>2. i \in 1..n
    BY <1>1 DEF Sums
  <1>3. s[i - 1] = t[i - 1]
    <2>1. i - 1 \in 0..n /\ i - 1 \notin Bad
      BY <1>1, <1>2
    <2> QED
      BY <2>1
  <1>4. s[i] = s[i - 1] + f[i] /\ t[i] = t[i - 1] + g[i] /\ f[i] = g[i]
    BY <1>2 DEF Sums
  <1> QED
    BY <1>1, <1>3, <1>4

(* Total is the last of the partial sums. *)
LEMMA TotalIsSum ==
  ASSUME NEW n \in Nat, NEW f, \A i \in 1..n : f[i] \in Nat
  PROVE  \E s : Sums(f, n, s) /\ Total(f, n) = s[n]
  <1> DEFINE Is(s) == s = [i \in 0..n |-> IF i = 0 THEN 0 ELSE s[i - 1] + f[i]]
             sum == CHOOSE s : Is(s)
  <1>1. \E s : Is(s)
    <2>1. PICK s : Sums(f, n, s)
      BY SumsExist
    <2>2. \A i \in 0..n : s[i] = IF i = 0 THEN 0 ELSE s[i - 1] + f[i]
      BY <2>1 DEF Sums
    <2>3. s = [i \in 0..n |-> s[i]]
      BY <2>1 DEF Sums
    <2>4. [i \in 0..n |-> s[i]] = [i \in 0..n |-> IF i = 0 THEN 0 ELSE s[i - 1] + f[i]]
      BY <2>2
    <2> QED
      BY <2>3, <2>4
  <1>2. Is(sum)
    BY <1>1
  <1>3. Total(f, n) = sum[n]
    BY DEF Total
  <1> HIDE DEF sum
  <1>4. /\ \A i \in 0..n : sum[i] = IF i = 0 THEN 0 ELSE sum[i - 1] + f[i]
        /\ sum = [i \in 0..n |-> sum[i]]
    BY <1>2
  <1>5. PICK s : Sums(f, n, s)
    BY SumsExist
  <1>6. \A i \in 0..n : sum[i] = s[i]
    <2> DEFINE Bad == {i \in 0..n : sum[i] # s[i]}
    <2> SUFFICES ASSUME Bad # {} PROVE FALSE
      OBVIOUS
    <2>1. PICK i \in Bad : \A j \in Bad : i <= j
      <3>1. Bad \in SUBSET Nat
        OBVIOUS
      <3> HIDE DEF Bad
      <3> QED
        BY <3>1, LeastIsLeast
    <2>2. i \in 1..n
      <3>1. sum[0] = 0 /\ s[0] = 0
        BY <1>4, <1>5, 0 \in 0..n DEF Sums
      <3> QED
        BY <2>1, <3>1
    <2>3. i - 1 \in 0..n /\ i - 1 \notin Bad
      BY <2>1, <2>2
    <2>4. sum[i - 1] = s[i - 1]
      BY <2>3
    <2>5. sum[i] = sum[i - 1] + f[i] /\ s[i] = s[i - 1] + f[i]
      BY <1>4, <1>5, <2>2 DEF Sums
    <2> QED
      BY <2>1, <2>4, <2>5
  <1> QED
    BY <1>3, <1>5, <1>6, n \in 0..n

(* Nothing adds up to nothing, and a position adds what it holds. *)
LEMMA TotalStep ==
  ASSUME NEW n \in Nat, NEW f, \A i \in 1..n : f[i] \in Nat
  PROVE  /\ Total(f, 0) = 0
         /\ \A m \in 0..n : Total(f, m) \in Nat
         /\ \A m \in 1..n : Total(f, m) = Total(f, m - 1) + f[m]
  <1>1. \A m \in 0..n : \E s : Sums(f, m, s) /\ Total(f, m) = s[m]
    BY TotalIsSum
  <1>2. Total(f, 0) = 0 /\ \A m \in 0..n : Total(f, m) \in Nat
    BY <1>1 DEF Sums
  <1>3. ASSUME NEW m \in 1..n PROVE Total(f, m) = Total(f, m - 1) + f[m]
    <2>1. m - 1 \in 0..n /\ m \in 0..n /\ m \in Nat /\ m - 1 \in Nat /\ m - 1 <= m
      OBVIOUS
    <2>2. PICK s : Sums(f, m - 1, s) /\ Total(f, m - 1) = s[m - 1]
      BY <1>1, <2>1
    <2>3. PICK t : Sums(f, m, t) /\ Total(f, m) = t[m]
      BY <1>1, <2>1
    <2>4. s[m - 1] = t[m - 1]
      BY <2>1, <2>2, <2>3, SumsAgree
    <2>5. t[m] = t[m - 1] + f[m]
      BY <2>3 DEF Sums
    <2> QED
      BY <2>2, <2>3, <2>4, <2>5
  <1> QED
    BY <1>2, <1>3

(* Only what is added up matters. *)
LEMMA TotalSame ==
  ASSUME NEW n \in Nat, NEW f, NEW g,
         \A i \in 1..n : f[i] \in Nat, \A i \in 1..n : f[i] = g[i]
  PROVE  Total(f, n) = Total(g, n)
  <1>1. PICK s : Sums(f, n, s) /\ Total(f, n) = s[n]
    BY TotalIsSum
  <1>2. PICK t : Sums(g, n, t) /\ Total(g, n) = t[n]
    <2>1. \A i \in 1..n : g[i] \in Nat
      OBVIOUS
    <2> QED
      BY <2>1, TotalIsSum
  <1>3. s[n] = t[n]
    BY <1>1, <1>2, SumsAgree, n <= n
  <1> QED
    BY <1>1, <1>2, <1>3

(* What stands behind position i - 1 adds up to what stands there and      *)
(* behind it.                                                              *)
Behind(f, n, i) == Total([j \in 1..(n - i) |-> f[i + j]], n - i)

LEMMA BehindStep ==
  ASSUME NEW n \in Nat, NEW f, \A i \in 1..n : f[i] \in Nat
  PROVE  /\ Behind(f, n, n) = 0
         /\ \A i \in 0..n : Behind(f, n, i) \in Nat
         /\ \A i \in 1..n : Behind(f, n, i - 1) = f[i] + Behind(f, n, i)
  <1> DEFINE After(i) == [j \in 1..(n - i) |-> f[i + j]]
  <1>1. \A i \in 0..n : n - i \in Nat /\ \A j \in 1..(n - i) : After(i)[j] = f[i + j] /\ f[i + j] \in Nat
    OBVIOUS
  <1>2. \A i \in 0..n : Behind(f, n, i) = Total(After(i), n - i)
    BY DEF Behind
  <1> HIDE DEF After
  <1>3. ASSUME NEW i \in 0..n
        PROVE  /\ Total(After(i), 0) = 0 /\ \A m \in 0..(n - i) : Total(After(i), m) \in Nat
               /\ \A m \in 1..(n - i) : Total(After(i), m) = Total(After(i), m - 1) + After(i)[m]
    <2>1. n - i \in Nat /\ \A j \in 1..(n - i) : After(i)[j] \in Nat
      BY <1>1
    <2> QED
      BY <2>1, TotalStep
  <1>4. Behind(f, n, n) = 0
    BY <1>2, <1>3, n \in 0..n
  <1>5. ASSUME NEW i \in 0..n PROVE Behind(f, n, i) \in Nat
    BY <1>1, <1>2, <1>3
  <1>6. ASSUME NEW i \in 1..n PROVE Behind(f, n, i - 1) = f[i] + Behind(f, n, i)
    <2>1. i - 1 \in 0..n /\ i \in 0..n /\ n - i \in Nat /\ n - (i - 1) = (n - i) + 1
      OBVIOUS
    <2> DEFINE Bad == {m \in 0..(n - i) : Total(After(i - 1), m + 1) # f[i] + Total(After(i), m)}
    <2>2. Bad = {}
      <3> SUFFICES ASSUME Bad # {} PROVE FALSE
        OBVIOUS
      <3>1. PICK m \in Bad : \A k \in Bad : m <= k
        <4>1. Bad \in SUBSET Nat
          BY <2>1
        <4> HIDE DEF Bad
        <4> QED
          BY <4>1, LeastIsLeast
      <3>2. m \in 0..(n - i) /\ m \in Nat /\ m + 1 \in 1..((n - i) + 1)
        BY <2>1
      <3>3. Total(After(i - 1), m + 1) = Total(After(i - 1), m) + After(i - 1)[m + 1]
        BY <1>3, <2>1, <3>2
      <3>4. After(i - 1)[m + 1] = f[i + m]
        BY <1>1, <2>1, <3>2
      <3>5. CASE m = 0
        <4>1. Total(After(i - 1), 0) = 0 /\ Total(After(i), 0) = 0
          BY <1>3, <2>1
        <4> QED
          BY <3>1, <3>3, <3>4, <3>5, <4>1
      <3>6. CASE m # 0
        <4>1. m - 1 \in 0..(n - i) /\ m \in 1..(n - i) /\ m - 1 \notin Bad
          BY <3>1, <3>2, <3>6
        <4>2. Total(After(i - 1), m) = f[i] + Total(After(i), m - 1)
          BY <4>1
        <4>3. Total(After(i), m) = Total(After(i), m - 1) + f[i + m]
          BY <1>1, <1>3, <2>1, <4>1
        <4>4. Total(After(i), m - 1) \in Nat /\ f[i] \in Nat /\ f[i + m] \in Nat
          BY <1>1, <1>3, <2>1, <4>1
        <4> QED
          BY <3>1, <3>3, <3>4, <4>2, <4>3, <4>4
      <3> QED
        BY <3>5, <3>6
    <2>3. Total(After(i - 1), (n - i) + 1) = f[i] + Total(After(i), n - i)
      BY <2>1, <2>2
    <2> QED
      BY <1>2, <2>1, <2>3
  <1> QED
    BY <1>4, <1>5, <1>6

(* within_media_budget: what is shown of all messages is within the budget, *)
(* for what is shown of those behind a message is.                         *)
LEMMA MediaWithinBudget ==
  ASSUME NEW shown, NEW n \in Nat, Len(shown) = n, \A i \in 1..n : shown[i] \in Nat,
         NEW kept, \A i \in 1..n : kept[i] = MediaShown(shown, i)
  PROVE  Total(kept, n) <= MEDIA_BUDGET
  <1>b. MEDIA_BUDGET \in Nat
    BY WindowAssumption
  <1>1. /\ Behind(shown, n, n) = 0 /\ \A i \in 0..n : Behind(shown, n, i) \in Nat
        /\ \A i \in 1..n : Behind(shown, n, i - 1) = shown[i] + Behind(shown, n, i)
    BY BehindStep
  <1>2. ASSUME NEW i \in 1..n
        PROVE  LET newer == Behind(shown, n, i)
                   rest == IF newer < MEDIA_BUDGET THEN MEDIA_BUDGET - newer ELSE 0
               IN  kept[i] = IF shown[i] < rest THEN shown[i] ELSE rest
    BY DEF MediaShown, Behind
  <1>3. ASSUME NEW i \in 1..n
        PROVE  LET newer == Behind(shown, n, i)
               IN  /\ kept[i] \in Nat /\ kept[i] <= shown[i]
                   /\ newer < MEDIA_BUDGET => kept[i] + newer <= MEDIA_BUDGET
                   /\ ~(newer < MEDIA_BUDGET) => kept[i] = 0
    <2>1. shown[i] \in Nat /\ Behind(shown, n, i) \in Nat
      BY <1>1
    <2> QED
      BY <1>b, <1>2, <2>1
  <1>4. /\ Behind(kept, n, n) = 0 /\ \A i \in 0..n : Behind(kept, n, i) \in Nat
        /\ \A i \in 1..n : Behind(kept, n, i - 1) = kept[i] + Behind(kept, n, i)
    BY <1>3, BehindStep
  <1> DEFINE Within(i) == Behind(kept, n, i) <= MEDIA_BUDGET /\ Behind(kept, n, i) <= Behind(shown, n, i)
             Bad == {k \in 0..n : ~Within(n - k)}
  <1>5. ASSUME NEW i \in 1..n, Within(i) PROVE Within(i - 1)
    <2>1. PICK after, all : after = Behind(kept, n, i) /\ all = Behind(shown, n, i)
      OBVIOUS
    <2>2. /\ after \in Nat /\ all \in Nat /\ shown[i] \in Nat /\ kept[i] \in Nat
          /\ kept[i] <= shown[i]
          /\ all < MEDIA_BUDGET => kept[i] + all <= MEDIA_BUDGET
          /\ ~(all < MEDIA_BUDGET) => kept[i] = 0
      <3>1. after \in Nat /\ all \in Nat /\ shown[i] \in Nat
        BY <1>1, <1>4, <2>1
      <3>2. /\ kept[i] \in Nat /\ kept[i] <= shown[i]
            /\ all < MEDIA_BUDGET => kept[i] + all <= MEDIA_BUDGET
            /\ ~(all < MEDIA_BUDGET) => kept[i] = 0
        BY <1>3, <2>1
      <3> QED
        BY <3>1, <3>2
    <2>3. Behind(kept, n, i - 1) = kept[i] + after /\ Behind(shown, n, i - 1) = shown[i] + all
      BY <1>1, <1>4, <2>1
    <2>4. after <= MEDIA_BUDGET /\ after <= all
      BY <1>5, <2>1
    <2> QED
      BY <1>b, <2>2, <2>3, <2>4
  <1>6. Within(n)
    BY <1>b, <1>1, <1>4
  <1> HIDE DEF Within
  <1>7. Bad = {}
    <2> SUFFICES ASSUME Bad # {} PROVE FALSE
      OBVIOUS
    <2>1. PICK k \in Bad : \A j \in Bad : k <= j
      <3>1. Bad \in SUBSET Nat
        OBVIOUS
      <3> HIDE DEF Bad
      <3> QED
        BY <3>1, LeastIsLeast
    <2>2. CASE k = 0
      BY <1>6, <2>1, <2>2
    <2>3. CASE k # 0
      <3>0. k \in 1..n
        BY <2>1, <2>3
      <3>1. k - 1 \in 0..n /\ n - (k - 1) \in 1..n /\ (n - (k - 1)) - 1 = n - k
        BY <3>0
      <3>n. k - 1 \notin Bad
        <4>1. ~(k <= k - 1)
          BY <3>0
        <4> HIDE DEF Bad
        <4> QED
          BY <2>1, <4>1
      <3>2. Within(n - (k - 1))
        BY <3>1, <3>n
      <3>3. Within(n - k)
        BY <1>5, <3>1, <3>2
      <3> QED
        BY <2>1, <3>3
    <2> QED
      BY <2>2, <2>3
  <1>8. Within(0)
    <2>1. n \in 0..n /\ n - n = 0
      OBVIOUS
    <2> QED
      BY <1>7, <2>1
  <1>9. Behind(kept, n, 0) = Total(kept, n)
    <2> DEFINE same == [j \in 1..(n - 0) |-> kept[0 + j]]
    <2>1. \A j \in 1..n : same[j] = kept[j] /\ same[j] \in Nat
      BY <1>3
    <2>2. Behind(kept, n, 0) = Total(same, n)
      BY DEF Behind
    <2> HIDE DEF same
    <2> QED
      BY <2>1, <2>2, TotalSame
  <1> QED
    BY <1>8, <1>9 DEF Within

----------------------------------------------------------------------------
(* The cut.                                                                *)

(* What starts a step. *)
Starts(s, cut) == cut < Len(s) => s[cut + 1].role \in {"user", "assistant"}

(* The newest part of s behind a cut: KEEP_TURNS exchanges, or inside a    *)
(* long one KEEP_STEPS steps.                                              *)
KeptBehind(s, cut) ==
  \/ Cardinality({i \in With(s, "user") : i > cut}) >= KEEP_TURNS
  \/ Cardinality({i \in With(s, "assistant") : i > cut}) >= KEEP_STEPS


LEMMA WithFinite ==
  ASSUME NEW M, NEW s \in Seq(M), NEW role
  PROVE  /\ With(s, role) \in SUBSET Nat /\ IsFiniteSet(With(s, role))
         /\ Cardinality(With(s, role)) \in Nat
         /\ \A c : /\ IsFiniteSet({i \in With(s, role) : i > c})
                   /\ Cardinality({i \in With(s, role) : i > c}) \in Nat
  <1>1. IsFiniteSet(1..Len(s))
    BY FS_Interval
  <1>2. With(s, role) \subseteq 1..Len(s)
    BY DEF With
  <1>3. IsFiniteSet(With(s, role))
    BY <1>1, <1>2, FS_Subset
  <1>4. \A c : IsFiniteSet({i \in With(s, role) : i > c})
    BY <1>3, FS_Subset
  <1>5. With(s, role) \in SUBSET Nat
    BY <1>2, LenProperties
  <1>6. Cardinality(With(s, role)) \in Nat
    BY <1>3, FS_CardinalityType
  <1>7. \A c : Cardinality({i \in With(s, role) : i > c}) \in Nat
    BY <1>4, FS_CardinalityType
  <1> QED
    BY <1>3, <1>4, <1>5, <1>6, <1>7

(* turn_boundary moves a cut forward, to a place where a step begins, and  *)
(* leaves it where it is if one begins there.                              *)
LEMMA TurnBoundaryAt ==
  ASSUME NEW M, NEW s \in Seq(M), NEW cut \in 0..Len(s)
  PROVE  /\ TurnBoundary(s, cut) \in cut..Len(s)
         /\ Starts(s, TurnBoundary(s, cut))
         /\ Starts(s, cut) => TurnBoundary(s, cut) = cut
  <1> DEFINE B == {i \in cut..(Len(s) - 1) : s[i + 1].role \in {"user", "assistant"}}
                    \cup {Len(s)}
  <1>1. B \in SUBSET Nat /\ B # {} /\ B \subseteq cut..Len(s)
    OBVIOUS
  <1>2. Least(B) \in B /\ \A j \in B : Least(B) <= j
    BY <1>1, LeastIsLeast
  <1>3. TurnBoundary(s, cut) = Least(B)
    BY DEF TurnBoundary
  <1>4. Starts(s, Least(B))
    BY <1>2 DEF Starts
  <1>5. ASSUME Starts(s, cut) PROVE Least(B) = cut
    <2>1. cut \in B
      BY <1>5 DEF Starts
    <2> QED
      BY <1>1, <1>2, <2>1
  <1> QED
    BY <1>1, <1>2, <1>3, <1>4, <1>5

(* Behind the n-th newest message of a role, and it, are n of the role. *)
LEMMA NewestBehind ==
  ASSUME NEW M, NEW s \in Seq(M), NEW role, NEW n \in Nat \ {0},
         Cardinality(With(s, role)) >= n
  PROVE  LET f == Newest(With(s, role), n) - 1
         IN /\ f \in 0..(Len(s) - 1) /\ s[f + 1].role = role
            /\ Cardinality({i \in With(s, role) : i > f}) = n
  <1> DEFINE S == With(s, role)
             f == Newest(S, n) - 1
  <1>1. S \in SUBSET Nat /\ IsFiniteSet(S)
    BY WithFinite
  <1>2. Newest(S, n) \in S /\ Cardinality({j \in S : j >= Newest(S, n)}) = n
    BY <1>1, NewestIsNewest
  <1>3. f \in 0..(Len(s) - 1) /\ s[f + 1].role = role
    BY <1>2 DEF With
  <1>4. {j \in S : j >= Newest(S, n)} = {i \in S : i > f}
    <2>1. \A j \in S : j \in Nat
      BY <1>1
    <2>2. \A j \in S : j >= Newest(S, n) <=> j > f
      BY <2>1, <1>2
    <2> QED
      BY <2>2
  <1> QED
    BY <1>2, <1>3, <1>4

(* verbatim_floor: a step begins there, and behind it is what is kept. *)
LEMMA FloorKeeps ==
  ASSUME WindowAssumption, NEW M, NEW s \in Seq(M)
  PROVE  /\ VerbatimFloor(s) \in 0..Len(s)
         /\ VerbatimFloor(s) > 0 =>
              Starts(s, VerbatimFloor(s)) /\ KeptBehind(s, VerbatimFloor(s))
  <1>k. KEEP_TURNS \in Nat \ {0} /\ KEEP_STEPS \in Nat \ {0}
    BY WindowAssumption DEF WindowAssumption
  <1>1. CASE Cardinality(With(s, "user")) >= KEEP_TURNS
    <2>1. VerbatimFloor(s) = Newest(With(s, "user"), KEEP_TURNS) - 1
      BY <1>1 DEF VerbatimFloor
    <2> QED
      BY <2>1, <1>1, <1>k, NewestBehind DEF Starts, KeptBehind
  <1>2. CASE /\ ~(Cardinality(With(s, "user")) >= KEEP_TURNS)
             /\ Cardinality(With(s, "assistant")) >= KEEP_STEPS
    <2>1. VerbatimFloor(s) = Newest(With(s, "assistant"), KEEP_STEPS) - 1
      BY <1>2 DEF VerbatimFloor
    <2> QED
      BY <2>1, <1>2, <1>k, NewestBehind DEF Starts, KeptBehind
  <1>3. CASE /\ ~(Cardinality(With(s, "user")) >= KEEP_TURNS)
             /\ ~(Cardinality(With(s, "assistant")) >= KEEP_STEPS)
    <2>1. VerbatimFloor(s) = 0
      BY <1>3 DEF VerbatimFloor
    <2> QED
      BY <2>1
  <1> QED
    BY <1>1, <1>2, <1>3

(* cut_for goes no further than the floor, and to a place where a step     *)
(* begins.                                                                 *)
LEMMA CutForBelow ==
  ASSUME NEW M, NEW s \in Seq(M), NEW floor \in 0..Len(s), NEW needed,
         Starts(s, floor)
  PROVE  CutFor(s, floor, needed) \in 0..floor /\ Starts(s, CutFor(s, floor, needed))
  <1> DEFINE E == {b \in 1..(floor - 1) : s[b + 1].role = "user" /\ Freed(s, b) >= needed}
  <1>1. E \in SUBSET Nat
    OBVIOUS
  <1>2. CASE E = {}
    BY <1>2 DEF CutFor
  <1>3. CASE E # {}
    <2>1. Least(E) \in E
      BY <1>1, <1>3, LeastIsLeast
    <2>2. CutFor(s, floor, needed) = Least(E)
      BY <1>3 DEF CutFor
    <2>3. Least(E) \in 0..floor /\ s[Least(E) + 1].role = "user"
      BY <2>1
    <2> QED
      BY <2>2, <2>3 DEF Starts
  <1> QED
    BY <1>2, <1>3

(* What is kept is kept in any other sequence that has as much behind its  *)
(* own cut.                                                                *)
LEMMA KeptAsWell ==
  ASSUME WindowAssumption, NEW M, NEW s \in Seq(M), NEW t \in Seq(M), NEW c, NEW d,
         \A role : Cardinality({i \in With(s, role) : i > c})
                     <= Cardinality({i \in With(t, role) : i > d}),
         KeptBehind(s, c)
  PROVE  KeptBehind(t, d)
  <1> DEFINE InS(role) == Cardinality({i \in With(s, role) : i > c})
             InT(role) == Cardinality({i \in With(t, role) : i > d})
  <1>1. KEEP_TURNS \in Nat /\ KEEP_STEPS \in Nat
    BY WindowAssumption DEF WindowAssumption
  <1>2. /\ InS("user") <= InT("user") /\ InS("assistant") <= InT("assistant")
        /\ InS("user") \in Nat /\ InT("user") \in Nat
        /\ InS("assistant") \in Nat /\ InT("assistant") \in Nat
    BY WithFinite
  <1>3. /\ InS("user") >= KEEP_TURNS \/ InS("assistant") >= KEEP_STEPS
        /\ InT("user") >= KEEP_TURNS \/ InT("assistant") >= KEEP_STEPS => KeptBehind(t, d)
    BY DEF KeptBehind
  <1> QED
    <2> HIDE DEF InS, InT
    <2> QED
      BY <1>1, <1>2, <1>3

(* A cut further to the front keeps more. *)
LEMMA KeptFurther ==
  ASSUME WindowAssumption, NEW M, NEW s \in Seq(M), NEW c \in Nat, NEW d \in Nat, c <= d,
         KeptBehind(s, d)
  PROVE  KeptBehind(s, c)
  <1>1. ASSUME NEW role
        PROVE  Cardinality({i \in With(s, role) : i > d})
                 <= Cardinality({i \in With(s, role) : i > c})
    <2>1. {i \in With(s, role) : i > d} \subseteq {i \in With(s, role) : i > c}
      BY WithFinite
    <2>2. IsFiniteSet({i \in With(s, role) : i > c})
      BY WithFinite
    <2> QED
      BY <2>1, <2>2, FS_Subset
  <1> QED
    BY <1>1, KeptAsWell

(* Messages added behind do not change what is kept of those in front.     *)
LEMMA KeptGrown ==
  ASSUME WindowAssumption, NEW M, NEW s \in Seq(M), NEW t \in Seq(M), NEW c, KeptBehind(s, c)
  PROVE  KeptBehind(s \o t, c)
  <1>1. s \o t \in Seq(M)
    BY ConcatProperties
  <1>2. ASSUME NEW role
        PROVE  Cardinality({i \in With(s, role) : i > c})
                 <= Cardinality({i \in With(s \o t, role) : i > c})
    <2>1. {i \in With(s, role) : i > c} \subseteq {i \in With(s \o t, role) : i > c}
      BY LenProperties, ConcatProperties DEF With
    <2>2. IsFiniteSet({i \in With(s \o t, role) : i > c})
      BY <1>1, WithFinite
    <2> QED
      BY <2>1, <2>2, FS_Subset
  <1> QED
    BY <1>1, <1>2, KeptAsWell

(* What stands behind position k. *)
LEMMA FromProperties ==
  ASSUME NEW M, NEW s \in Seq(M), NEW k \in 0..Len(s)
  PROVE  /\ From(s, k) \in Seq(M) /\ Len(From(s, k)) = Len(s) - k
         /\ \A i \in 1..(Len(s) - k) : From(s, k)[i] = s[k + i]
  <1>1. Len(s) \in Nat /\ \A i \in (k + 1)..Len(s) : s[i] \in M
    BY LenProperties, ElementOfSeq
  <1> QED
    BY <1>1, SubSeqProperties DEF From

(* What is kept behind a cut of the pending messages is kept behind the    *)
(* same place of the whole.                                                *)
LEMMA KeptOfPending ==
  ASSUME WindowAssumption, NEW M, NEW s \in Seq(M), NEW k \in 0..Len(s), NEW c \in Nat,
         KeptBehind(From(s, k), c)
  PROVE  KeptBehind(s, k + c)
  <1>p. /\ From(s, k) \in Seq(M) /\ Len(From(s, k)) = Len(s) - k
        /\ \A i \in 1..(Len(s) - k) : From(s, k)[i] = s[k + i]
    BY FromProperties
  <1>1. ASSUME NEW role
        PROVE  Cardinality({i \in With(From(s, k), role) : i > c})
                 <= Cardinality({i \in With(s, role) : i > k + c})
    <2> DEFINE S == {i \in With(From(s, k), role) : i > c}
               T == {i \in With(s, role) : i > k + c}
               f == [i \in S |-> k + i]
    <2>1. ASSUME NEW i \in S PROVE i \in Nat /\ k + i \in T
      <3>1. i \in 1..(Len(s) - k) /\ From(s, k)[i].role = role /\ i > c
        BY <1>p DEF With
      <3>2. k + i \in 1..Len(s) /\ s[k + i].role = role /\ k + i > k + c
        BY <3>1, <1>p, LenProperties
      <3> QED
        BY <3>1, <3>2 DEF With
    <2>2. f \in Injection(S, T)
      <3>1. f \in [S -> T]
        BY <2>1
      <3>2. ASSUME NEW i \in S, NEW j \in S, f[i] = f[j] PROVE i = j
        BY <2>1, <3>2
      <3> QED
        BY <3>1, <3>2 DEF Injection, IsInjective
    <2>3. IsFiniteSet(T)
      BY WithFinite
    <2>4. Cardinality(S) <= Cardinality(T)
      <3> HIDE DEF S, T, f
      <3> QED
        BY <2>2, <2>3, FS_Injection
    <2> QED
      BY <2>4
  <1> QED
    BY <1>1, <1>p, KeptAsWell

(* Wherever a fold cuts messages that begin with a step, a step begins     *)
(* there too, and the newest part stays.                                   *)
THEOREM CutKeeps ==
  ASSUME WindowAssumption, NEW M, NEW s \in Seq(M), NEW excess, Starts(s, 0)
  PROVE  /\ Cut(s, excess) \in 0..Len(s) /\ Starts(s, Cut(s, excess))
         /\ Cut(s, excess) > 0 => KeptBehind(s, Cut(s, excess))
  <1> DEFINE floor == VerbatimFloor(s)
             at == IF excess > 0 THEN CutFor(s, floor, excess + ALLOWANCE) ELSE floor
  <1>1. floor \in 0..Len(s) /\ Starts(s, floor) /\ (floor > 0 => KeptBehind(s, floor))
    BY FloorKeeps
  <1>2. at \in 0..floor /\ Starts(s, at)
    <2> HIDE DEF floor
    <2> QED
      BY <1>1, CutForBelow
  <1>3. Cut(s, excess) = TurnBoundary(s, at)
    BY DEF Cut
  <1>4. TurnBoundary(s, at) = at
    BY <1>1, <1>2, TurnBoundaryAt
  <1>5. at > 0 => KeptBehind(s, at)
    <2> HIDE DEF floor, at
    <2> QED
      BY <1>1, <1>2, KeptFurther
  <1> QED
    BY <1>1, <1>2, <1>3, <1>4, <1>5

----------------------------------------------------------------------------
(* The inductive invariant.                                                *)

(* A step begins behind the part a context's summary stands for, and the   *)
(* rest of the store follows.                                              *)
ContextSound(c) ==
  /\ c.summary.covers = 1..c.through /\ c.through <= Len(stored)
  /\ c.history = From(stored, c.through) /\ Starts(stored, c.through)

(* A fold read a summary of the front of the store, and takes it further,  *)
(* to where a step begins, in front of what stays.                         *)
FoldSound(f) ==
  /\ f \in Fold /\ f.previous = 1..f.through /\ f.cut > 0
  /\ f.through + f.cut < Len(stored) /\ Starts(stored, f.through + f.cut)
  /\ KeptBehind(stored, f.through + f.cut)

(* Which node the worker runs, and for which it folds.                     *)
WorkerPlaced ==
  /\ pc \in {"load", "tools"} => next = pc
  /\ pc \in {"model", "send", "retry"} => next = "model"
  /\ pc \in {"persist", "kept"} => next = "persist"
  /\ pc \in {"fold", "record"} =>
       /\ fold.why \in {"fitted", "overflow"} => next = "model"
       /\ fold.why = "persist" => next = "persist"

(* The context of a turn that still asks the model, and the one in hand.   *)
ContextsSound ==
  /\ next \in {"model", "tools"} => ContextSound(context)
  /\ pc \in {"model", "send", "retry"} => ContextSound(prepared)
  /\ pc = "fold" /\ fold.why = "fitted" => ContextSound(prepared)

(* The folds under way.  Until a lease is lost there is only the worker's. *)
FoldsSound ==
  /\ pc \in {"fold", "record"} => FoldSound(fold)
  /\ lapsed # NoFold => FoldSound(lapsed)
  /\ lapses = 0 =>
       /\ lapsed = NoFold
       /\ pc = "fold" => through = fold.through
       /\ pc = "record" => through = fold.through + fold.cut

(* The last step of a turn whose tools run is the only one not answered.   *)
Open(s) ==
  /\ Len(s) > 0 /\ s[Len(s)].role = "assistant"
  /\ \A i \in With(s, "assistant") \ {Len(s)} : CallsAnswered(s, i)
  /\ \A i \in With(s, "tool") : ResultCalled(s, i)
MessagesPaired ==
  /\ Paired(stored)
  /\ IF next = "tools" THEN Open(turn) ELSE Paired(turn)

IInv ==
  /\ TypeOK /\ SummaryAccounts /\ NewestStays /\ CompactionsAccount
  /\ WorkerPlaced /\ ContextsSound /\ FoldsSound /\ MessagesPaired

----------------------------------------------------------------------------
(* Calls and results.                                                      *)

LEMMA MessageFields ==
  ASSUME NEW s \in Seq(Message), NEW i \in 1..Len(s)
  PROVE  /\ s[i] \in Message /\ s[i].role \in Roles
         /\ s[i].calls \in Seq(CallId) /\ Len(s[i].calls) \in Nat
  <1>1. s[i] \in Message
    BY ElementOfSeq
  <1> QED
    BY <1>1, LenProperties DEF Message, Roles

LEMMA Joined ==
  ASSUME NEW s \in Seq(Message), NEW t \in Seq(Message)
  PROVE  /\ s \o t \in Seq(Message) /\ Len(s \o t) = Len(s) + Len(t)
         /\ Len(s) \in Nat /\ Len(t) \in Nat
         /\ \A i \in 1..Len(s) : (s \o t)[i] = s[i]
         /\ \A i \in 1..Len(t) : (s \o t)[Len(s) + i] = t[i]
  BY ConcatProperties, LenProperties

(* Joining keeps pairs. *)
LEMMA PairedJoined ==
  ASSUME NEW s \in Seq(Message), NEW t \in Seq(Message), Paired(s), Paired(t)
  PROVE  Paired(s \o t)
  <1> DEFINE w == s \o t
             n == Len(s)
  <1>w. /\ w \in Seq(Message) /\ Len(w) = n + Len(t) /\ n \in Nat /\ Len(t) \in Nat
        /\ \A i \in 1..n : w[i] = s[i]
        /\ \A i \in 1..Len(t) : w[n + i] = t[i]
    BY Joined
  <1>i. ASSUME NEW i \in 1..Len(w)
        PROVE  \/ i \in 1..n /\ w[i] = s[i]
               \/ i - n \in 1..Len(t) /\ w[i] = t[i - n]
    BY <1>w
  <1> HIDE DEF w, n
  <1>1. ASSUME NEW i \in With(w, "assistant") PROVE CallsAnswered(w, i)
    <2> SUFFICES ASSUME NEW k \in 1..Len(w[i].calls)
                 PROVE  /\ i + k <= Len(w)
                        /\ w[i + k].role = "tool" /\ w[i + k].call = w[i].calls[k]
      BY DEF CallsAnswered
    <2>0. i \in 1..Len(w) /\ w[i].role = "assistant" /\ k \in Nat /\ k > 0
      BY <1>w, MessageFields DEF With
    <2>1. CASE i \in 1..n /\ w[i] = s[i]
      <3>1. i \in With(s, "assistant")
        BY <2>0, <2>1 DEF With, n
      <3>2. i + k <= n /\ s[i + k].role = "tool" /\ s[i + k].call = s[i].calls[k]
        BY <3>1, <2>1 DEF Paired, CallsAnswered, n
      <3> QED
        BY <3>2, <2>0, <2>1, <1>w
    <2>2. CASE i - n \in 1..Len(t) /\ w[i] = t[i - n]
      <3>1. i - n \in With(t, "assistant")
        BY <2>0, <2>2 DEF With
      <3>2. /\ (i - n) + k <= Len(t) /\ t[(i - n) + k].role = "tool"
            /\ t[(i - n) + k].call = t[i - n].calls[k]
        BY <3>1, <2>2 DEF Paired, CallsAnswered
      <3>3. (i - n) + k \in 1..Len(t) /\ n + ((i - n) + k) = i + k
        BY <3>2, <2>0, <2>2, <1>w
      <3>4. w[i + k] = t[(i - n) + k]
        BY <3>3, <1>w
      <3> QED
        BY <3>2, <3>3, <3>4, <2>0, <2>2, <1>w
    <2> QED
      BY <2>0, <2>1, <2>2, <1>i
  <1>2. ASSUME NEW i \in With(w, "tool") PROVE ResultCalled(w, i)
    <2>0. i \in 1..Len(w) /\ w[i].role = "tool"
      BY DEF With
    <2>1. CASE i \in 1..n /\ w[i] = s[i]
      <3>1. i \in With(s, "tool")
        BY <2>0, <2>1 DEF With, n
      <3>2. PICK j \in With(s, "assistant") :
              i - j \in 1..Len(s[j].calls) /\ s[j].calls[i - j] = s[i].call
        BY <3>1 DEF Paired, ResultCalled
      <3>3. j \in With(w, "assistant") /\ w[j] = s[j]
        BY <3>2, <1>w DEF With, n
      <3> QED
        BY <3>2, <3>3, <2>1 DEF ResultCalled
    <2>2. CASE i - n \in 1..Len(t) /\ w[i] = t[i - n]
      <3>1. i - n \in With(t, "tool")
        BY <2>0, <2>2 DEF With
      <3>2. PICK j \in With(t, "assistant") :
              (i - n) - j \in 1..Len(t[j].calls) /\ t[j].calls[(i - n) - j] = t[i - n].call
        BY <3>1 DEF Paired, ResultCalled
      <3>3. /\ n + j \in With(w, "assistant") /\ w[n + j] = t[j]
            /\ i - (n + j) = (i - n) - j
        BY <3>2, <1>w, <2>0 DEF With
      <3> QED
        BY <3>2, <3>3, <2>2 DEF ResultCalled
    <2> QED
      BY <2>0, <2>1, <2>2, <1>i
  <1>3. Paired(w)
    BY <1>1, <1>2 DEF Paired
  <1> QED
    BY <1>3 DEF w

(* What stands behind the beginning of a step is paired if the whole is.   *)
LEMMA PairedBehind ==
  ASSUME NEW s \in Seq(Message), NEW k \in 0..Len(s), Paired(s), Starts(s, k)
  PROVE  Paired(From(s, k))
  <1> DEFINE w == From(s, k)
  <1>w. /\ w \in Seq(Message) /\ Len(w) = Len(s) - k /\ Len(s) \in Nat
        /\ \A i \in 1..(Len(s) - k) : w[i] = s[k + i]
    BY FromProperties, LenProperties
  <1> HIDE DEF w
  <1>1. ASSUME NEW i \in With(w, "assistant") PROVE CallsAnswered(w, i)
    <2>0. i \in 1..Len(w) /\ w[i].role = "assistant" /\ w[i] = s[k + i]
      BY <1>w DEF With
    <2>1. k + i \in With(s, "assistant")
      BY <2>0, <1>w DEF With
    <2> SUFFICES ASSUME NEW m \in 1..Len(w[i].calls)
                 PROVE  /\ i + m <= Len(w)
                        /\ w[i + m].role = "tool" /\ w[i + m].call = w[i].calls[m]
      BY DEF CallsAnswered
    <2>2. m \in Nat /\ m > 0
      BY <2>0, <1>w, MessageFields
    <2>3. /\ (k + i) + m <= Len(s) /\ s[(k + i) + m].role = "tool"
          /\ s[(k + i) + m].call = s[k + i].calls[m]
      BY <2>0, <2>1 DEF Paired, CallsAnswered
    <2>4. i + m \in 1..(Len(s) - k) /\ k + (i + m) = (k + i) + m
      BY <2>0, <2>2, <2>3, <1>w
    <2>5. w[i + m] = s[(k + i) + m]
      BY <2>4, <1>w
    <2> QED
      BY <2>0, <2>3, <2>4, <2>5, <1>w
  <1>2. ASSUME NEW i \in With(w, "tool") PROVE ResultCalled(w, i)
    <2>0. i \in 1..Len(w) /\ w[i].role = "tool" /\ w[i] = s[k + i]
      BY <1>w DEF With
    <2>1. k + i \in With(s, "tool")
      BY <2>0, <1>w DEF With
    <2>2. PICK j \in With(s, "assistant") :
            (k + i) - j \in 1..Len(s[j].calls) /\ s[j].calls[(k + i) - j] = s[k + i].call
      BY <2>1 DEF Paired, ResultCalled
    <2>3. j \in 1..Len(s) /\ Len(s[j].calls) \in Nat
      BY <2>2, MessageFields DEF With
    <2>4. j > k
      <3> SUFFICES ASSUME j <= k PROVE FALSE
        BY <2>3
      <3>0. k \in Nat /\ j \in Nat /\ i \in Nat /\ i >= 1 /\ i <= Len(s) - k
        BY <2>0, <2>3, <1>w
      <3>1. (k + 1) - j \in 1..Len(s[j].calls) /\ k < Len(s)
        BY <3>0, <2>2, <2>3, <1>w
      <3>2. s[j + ((k + 1) - j)].role = "tool"
        BY <2>2, <3>1 DEF Paired, CallsAnswered
      <3>3. s[k + 1].role = "tool"
        BY <3>2, <2>3
      <3> QED
        BY <3>1, <3>3 DEF Starts
    <2>5. j - k \in With(w, "assistant") /\ w[j - k] = s[j] /\ i - (j - k) = (k + i) - j
      <3>1. j - k \in 1..(Len(s) - k) /\ k + (j - k) = j
        BY <2>3, <2>4, <1>w
      <3>2. w[j - k] = s[j] /\ s[j].role = "assistant"
        BY <3>1, <2>2, <1>w DEF With
      <3> QED
        BY <3>1, <3>2, <2>0, <2>3, <1>w, SMTT(30) DEF With
    <2> QED
      BY <2>0, <2>2, <2>5 DEF ResultCalled
  <1>3. Paired(w)
    BY <1>1, <1>2 DEF Paired
  <1> QED
    BY <1>3 DEF w

LEMMA PairedEmpty == Paired(<<>>)
  BY DEF Paired, With

(* What is paired begins with a step. *)
LEMMA PairedStarts ==
  ASSUME NEW s \in Seq(Message), Paired(s)
  PROVE  Starts(s, 0)
  <1> SUFFICES ASSUME Len(s) > 0, s[1].role = "tool" PROVE FALSE
    BY MessageFields, LenProperties DEF Starts, Roles
  <1>1. 1 \in With(s, "tool")
    BY LenProperties DEF With
  <1>2. PICK j \in With(s, "assistant") : 1 - j \in 1..Len(s[j].calls)
    BY <1>1 DEF Paired, ResultCalled
  <1> QED
    BY <1>2, LenProperties DEF With

(* A message without calls that is no result stands alone. *)
LEMMA PairedAlone ==
  ASSUME NEW m \in Message, m.role # "tool", m.calls = <<>>
  PROVE  <<m>> \in Seq(Message) /\ Paired(<<m>>)
  BY DEF Paired, With, CallsAnswered

(* A step at the end is the one that waits for its results. *)
LEMMA OpenAppended ==
  ASSUME NEW s \in Seq(Message), Paired(s), NEW m \in Message, m.role = "assistant"
  PROVE  Open(Append(s, m))
  <1> DEFINE w == Append(s, m)
             n == Len(s)
  <1>w. /\ n \in Nat /\ Len(w) = n + 1 /\ w[n + 1] = m
        /\ \A i \in 1..n : w[i] = s[i]
    BY AppendProperties, LenProperties
  <1> HIDE DEF w
  <1>1. ASSUME NEW i \in With(w, "assistant") \ {Len(w)} PROVE CallsAnswered(w, i)
    <2>1. i \in 1..n /\ i \in With(s, "assistant") /\ w[i] = s[i]
      BY <1>w DEF With
    <2> SUFFICES ASSUME NEW k \in 1..Len(w[i].calls)
                 PROVE  /\ i + k <= Len(w)
                        /\ w[i + k].role = "tool" /\ w[i + k].call = w[i].calls[k]
      BY DEF CallsAnswered
    <2>2. k \in Nat /\ k > 0
      BY <2>1, MessageFields
    <2>3. i + k <= n /\ s[i + k].role = "tool" /\ s[i + k].call = s[i].calls[k]
      BY <2>1 DEF Paired, CallsAnswered
    <2> QED
      BY <2>1, <2>2, <2>3, <1>w
  <1>2. ASSUME NEW i \in With(w, "tool") PROVE ResultCalled(w, i)
    <2>1. i \in With(s, "tool") /\ w[i] = s[i]
      BY <1>w DEF With
    <2>2. PICK j \in With(s, "assistant") :
            i - j \in 1..Len(s[j].calls) /\ s[j].calls[i - j] = s[i].call
      BY <2>1 DEF Paired, ResultCalled
    <2>3. j \in With(w, "assistant") /\ w[j] = s[j]
      BY <1>w DEF With
    <2> QED
      BY <2>1, <2>2, <2>3 DEF ResultCalled
  <1>3. Open(w)
    BY <1>1, <1>2, <1>w DEF Open
  <1> QED
    BY <1>3 DEF w

(* Its results, in the order of its calls, complete it. *)
LEMMA PairedAnswered ==
  ASSUME NEW s \in Seq(Message), Open(s), NEW r \in Seq(Message),
         Len(r) = Len(s[Len(s)].calls),
         \A i \in 1..Len(r) : r[i].role = "tool" /\ r[i].call = s[Len(s)].calls[i]
  PROVE  Paired(s \o r)
  <1> DEFINE w == s \o r
             n == Len(s)
  <1>w. /\ w \in Seq(Message) /\ Len(w) = n + Len(r) /\ n \in Nat /\ Len(r) \in Nat
        /\ \A i \in 1..n : w[i] = s[i]
        /\ \A i \in 1..Len(r) : w[n + i] = r[i]
    BY Joined, Zenon
  <1>n. n > 0 /\ s[n].role = "assistant" /\ w[n] = s[n] /\ n \in With(w, "assistant")
    BY <1>w DEF Open, With
  <1>r. \A i \in 1..Len(r) : r[i].role = "tool" /\ r[i].call = s[n].calls[i]
    OBVIOUS
  <1>l. Len(r) = Len(s[n].calls)
    OBVIOUS
  <1>o. /\ \A i \in With(s, "assistant") \ {n} : CallsAnswered(s, i)
        /\ \A i \in With(s, "tool") : ResultCalled(s, i)
    BY DEF Open
  <1>s. \A i \in 1..n : s[i].calls \in Seq(CallId) /\ Len(s[i].calls) \in Nat
    BY MessageFields
  <1> HIDE DEF w, n
  <1>1. ASSUME NEW i \in With(w, "assistant") PROVE CallsAnswered(w, i)
    <2> SUFFICES ASSUME NEW k \in 1..Len(w[i].calls)
                 PROVE  /\ i + k <= Len(w)
                        /\ w[i + k].role = "tool" /\ w[i + k].call = w[i].calls[k]
      BY DEF CallsAnswered
    <2>0. i \in 1..Len(w) /\ w[i].role = "assistant"
      BY DEF With
    <2>1. i \in 1..n /\ w[i] = s[i]
      <3> SUFFICES ASSUME i > n PROVE FALSE
        BY <2>0, <1>w
      <3>1. i - n \in 1..Len(r) /\ n + (i - n) = i
        BY <2>0, <1>w
      <3>2. w[i] = r[i - n]
        BY <3>1, <1>w
      <3>3. w[i].role = "tool"
        BY <3>1, <3>2, <1>r
      <3> QED
        BY <3>3, <2>0
    <2>k. k \in Nat /\ k > 0
      BY <2>1, <1>s
    <2>2. CASE i = n
      <3>1. Len(w[i].calls) = Len(r) /\ k \in 1..Len(r)
        BY <2>1, <2>2, <1>l
      <3>2. i + k <= Len(w)
        BY <3>1, <2>2, <1>w
      <3>3. w[i + k] = r[k] /\ w[i].calls[k] = s[n].calls[k]
        BY <3>1, <2>1, <2>2, <1>w
      <3> QED
        BY <3>1, <3>2, <3>3, <1>r
    <2>3. CASE i # n
      <3>1. i \in With(s, "assistant") \ {n}
        BY <2>0, <2>1, <2>3 DEF With, n
      <3>2. i + k <= n /\ s[i + k].role = "tool" /\ s[i + k].call = s[i].calls[k]
        BY <3>1, <2>1, <1>o DEF CallsAnswered, n
      <3> QED
        BY <3>2, <2>1, <2>k, <1>w
    <2> QED
      BY <2>2, <2>3
  <1>2. ASSUME NEW i \in With(w, "tool") PROVE ResultCalled(w, i)
    <2>0. i \in 1..Len(w) /\ w[i].role = "tool"
      BY DEF With
    <2>1. CASE i \in 1..n
      <3>1. i \in With(s, "tool") /\ w[i] = s[i]
        BY <2>0, <2>1, <1>w DEF With, n
      <3>2. PICK j \in With(s, "assistant") :
              i - j \in 1..Len(s[j].calls) /\ s[j].calls[i - j] = s[i].call
        BY <3>1, <1>o DEF ResultCalled
      <3>3. j \in With(w, "assistant") /\ w[j] = s[j]
        BY <1>w DEF With, n
      <3> QED
        BY <3>1, <3>2, <3>3 DEF ResultCalled
    <2>2. CASE i > n
      <3>1. i - n \in 1..Len(r) /\ n + (i - n) = i
        BY <2>0, <2>2, <1>w
      <3>2. w[i] = r[i - n]
        BY <3>1, <1>w
      <3>3. i - n \in 1..Len(w[n].calls) /\ w[n].calls[i - n] = w[i].call
        BY <3>1, <3>2, <1>n, <1>r, <1>l
      <3> QED
        BY <3>3, <1>n DEF ResultCalled
    <2> QED
      BY <2>0, <2>1, <2>2, <1>w
  <1>3. Paired(w)
    BY <1>1, <1>2 DEF Paired
  <1> QED
    BY <1>3 DEF w

----------------------------------------------------------------------------
(* Steps of a fold.                                                        *)

Whys == {"fitted", "overflow", "persist", "asked"}

(* A fold begins: of whatever excess it was asked to free, what it takes   *)
(* ends where a step begins and leaves the newest part.                    *)
Begins(why) ==
  /\ pc' = "fold" /\ FoldSound(fold') /\ fold'.why = why /\ fold'.through = through
  /\ rounds' = IF why = "fitted" THEN rounds + 1 ELSE 0
  /\ UNCHANGED <<checkpoint, prepared, refusal>>

Asks(why) ==
  \/ why = "fitted" /\ pc = "model" /\ rounds # 3
  \/ why = "overflow" /\ pc = "send"
  \/ why = "persist" /\ pc = "kept"
  \/ why = "asked" /\ pc = "idle"

(* What the steps around a summarizer do, whoever asked: send, refuse, end *)
(* the turn, let go, begin a fold, or go on with a new context.            *)
Resumes ==
  /\ pc = "record" /\ fold.why \in {"fitted", "overflow"}
  /\ pc' \in {"model", "retry"} /\ prepared' = Assembled /\ fold' = NoFold
  /\ UNCHANGED <<checkpoint, rounds, refusal>>
Sends ==
  /\ pc = "model" \/ (pc = "fold" /\ fold.why = "fitted")
  /\ SendIt(prepared)
Refuses ==
  /\ pc \in {"send", "retry"} \/ (pc = "fold" /\ fold.why = "overflow")
  /\ \E c \in {context, prepared} : Refuse(c)
Ends ==
  /\ pc = "kept" \/ (pc \in {"fold", "record"} /\ fold.why = "persist")
  /\ EndTurn
FoldMove ==
  /\ Sends \/ Refuses \/ Ends \/ Drop \/ Resumes \/ \E why \in Whys : Begins(why) /\ Asks(why)
  /\ UNCHANGED <<stored, summary, through, lapsed, issued, lapses, crashes, lost>>
  /\ compacts' \in Nat /\ compactions' \subseteq [through : Nat, folded : Nat]

(* What stands at a position of the store, and where its summary ends.     *)
LEMMA AssembledSound ==
  ASSUME TypeOK, SummaryAccounts
  PROVE  /\ through \in 0..Len(stored) /\ Starts(stored, through)
         /\ Assembled \in Context /\ ContextSound(Assembled)
  <1>1. through \in 0..Len(stored) /\ stored \in Seq(Message)
    BY LenProperties DEF TypeOK, SummaryAccounts
  <1>2. Starts(stored, through)
    BY <1>1, MessageFields DEF SummaryAccounts, Starts, Roles
  <1>3. From(stored, through) \in Seq(Message)
    BY <1>1, FromProperties
  <1> QED
    BY <1>1, <1>2, <1>3 DEF Assembled, Context, ContextSound, TypeOK, SummaryAccounts

LEMMA Tried ==
  ASSUME TypeOK, SummaryAccounts, NEW why \in Whys, NEW force, NEW excess,
         TryFold(why, force, excess)
  PROVE  Without(why) \/ Begins(why)
  <1> DEFINE pending == From(stored, through)
             cut == Cut(pending, excess)
  <1>1. /\ stored \in Seq(Message) /\ through \in 0..Len(stored) /\ Len(stored) \in Nat
        /\ summary.covers = 1..through
    BY AssembledSound, LenProperties DEF TypeOK, SummaryAccounts
  <1>2. /\ pending \in Seq(Message) /\ Len(pending) = Len(stored) - through
        /\ \A i \in 1..(Len(stored) - through) : pending[i] = stored[through + i]
    BY <1>1, FromProperties
  <1>3. Starts(pending, 0)
    BY <1>1, <1>2, AssembledSound DEF Starts
  <1>4. /\ cut \in 0..Len(pending) /\ Starts(pending, cut)
        /\ cut > 0 => KeptBehind(pending, cut)
    <2> HIDE DEF pending
    <2> QED
      BY <1>2, <1>3, WindowAssumption, CutKeeps
  <1>5. SUFFICES ASSUME ~Without(why) PROVE Begins(why)
    OBVIOUS
  <1>6. /\ cut # 0 /\ cut # Len(pending)
        /\ fold' = [why |-> why, previous |-> summary.covers, through |-> through, cut |-> cut]
        /\ pc' = "fold" /\ rounds' = IF why = "fitted" THEN rounds + 1 ELSE 0
        /\ UNCHANGED <<checkpoint, prepared, refusal>>
    <2> HIDE DEF cut
    <2> QED
      BY <1>5 DEF TryFold, cut
  <1> HIDE DEF cut
  <1>7. cut \in Nat /\ cut > 0 /\ through + cut < Len(stored) /\ through + cut \in Nat
    BY <1>1, <1>2, <1>4, <1>6
  <1>8. Starts(stored, through + cut)
    <2>1. pending[cut + 1] = stored[through + (cut + 1)]
      BY <1>1, <1>2, <1>7
    <2>2. cut < Len(pending) /\ through + (cut + 1) = (through + cut) + 1
      BY <1>1, <1>2, <1>7
    <2> QED
      BY <1>4, <2>1, <2>2 DEF Starts
  <1>9. KeptBehind(stored, through + cut)
    BY <1>1, <1>4, <1>7, WindowAssumption, KeptOfPending
  <1>10. fold' \in Fold
    BY <1>1, <1>6, <1>7 DEF Fold, Position, Whys
  <1> QED
    BY <1>1, <1>6, <1>7, <1>8, <1>9, <1>10 DEF Begins, FoldSound

LEMMA SpanPositions ==
  ASSUME NEW a \in Nat, NEW b \in Nat
  PROVE  (a + 1)..(a + b) \subseteq Position /\ 1..a \subseteq Position
  <1> SUFFICES \A i \in (a + 1)..(a + b) : i \in Position
    BY DEF Position
  <1> QED
    BY DEF Position

LEMMA SetSummaryTyped ==
  ASSUME NEW f, FoldSound(f), SetSummary(f)
  PROVE  summary' \in Summary /\ through' \in Nat
  <1>1. f.through \in Nat /\ f.cut \in Nat /\ f.previous = 1..f.through
    BY DEF FoldSound, Fold
  <1>2. f.previous \cup ((f.through + 1)..(f.through + f.cut)) \subseteq Position
    BY <1>1, SpanPositions
  <1>3. Summaries \subseteq Nat
    BY ContextAssumption DEF ContextAssumption
  <1> QED
    BY <1>1, <1>2, <1>3 DEF SetSummary, Summary

LEMMA RecordTyped ==
  ASSUME TypeOK, NEW f, f \in Fold, RecordCompaction(f)
  PROVE  compactions' \subseteq [through : Nat, folded : Nat]
  <1>1. f.through \in Nat /\ f.cut \in Nat
    BY DEF Fold
  <1> QED
    BY <1>1 DEF TypeOK, RecordCompaction

LEMMA FoldMoves ==
  ASSUME IInv, Fit \/ Compact \/ FoldAfter \/ Overflow \/ NotSummarized \/ Recorded
  PROVE  FoldMove
  <1>t. TypeOK /\ SummaryAccounts
    BY DEF IInv
  <1>1. CASE Fit
    <2> DEFINE over == Size(prepared) - BUDGET
    <2>1. SendIt(prepared) \/ (rounds # 3 /\ TryFold("fitted", TRUE, over))
      BY <1>1 DEF Fit
    <2>2. SendIt(prepared) \/ (rounds # 3 /\ Begins("fitted"))
      <3> HIDE DEF over
      <3> QED
        BY <1>t, <2>1, Tried DEF Without, Whys
    <2> QED
      BY <1>1, <1>t, <2>2 DEF Fit, TypeOK, FoldMove, Sends, Asks, Whys, store, counters
  <1>2. CASE Compact
    <2>1. Drop \/ Begins("asked")
      BY <1>t, <1>2, Tried DEF Compact, Without, Whys
    <2> QED
      BY <1>2, <1>t, <2>1 DEF Compact, TypeOK, FoldMove, Asks, Whys, store
  <1>3. CASE FoldAfter
    <2> DEFINE over == IF used > BUDGET THEN used - BUDGET ELSE 0
    <2>1. TryFold("persist", FALSE, over)
      BY <1>3 DEF FoldAfter
    <2>2. EndTurn \/ Begins("persist")
      <3> HIDE DEF over
      <3> QED
        BY <1>t, <2>1, Tried DEF Without, Whys
    <2> QED
      BY <1>3, <1>t, <2>2 DEF FoldAfter, TypeOK, FoldMove, Ends, Asks, Whys, store, counters
  <1>4. CASE Overflow
    <2>1. \/ pc = "send" /\ (Refuse(context) \/ Begins("overflow"))
          \/ pc = "retry" /\ Refuse(prepared)
      BY <1>t, <1>4, Tried DEF Overflow, Sending, Without, Whys
    <2> QED
      BY <1>4, <1>t, <2>1 DEF Overflow, TypeOK, FoldMove, Refuses, Asks, Whys, store, counters
  <1>5. CASE NotSummarized
    <2>1. fold.why \in Whys
      BY <1>t, <1>5 DEF NotSummarized, IInv, FoldsSound, FoldSound, Fold, Whys
    <2> QED
      BY <1>5, <1>t, <2>1 DEF NotSummarized, TypeOK, FoldMove, Sends, Refuses, Ends, Without, Whys, store,
                        counters
  <1>6. CASE Recorded
    <2>1. fold.why \in Whys
      BY <1>t, <1>6 DEF Recorded, IInv, FoldsSound, FoldSound, Fold, Whys
    <2>2. /\ pc = "record"
          /\ UNCHANGED <<stored, summary, through, lapsed, issued, lapses, crashes, lost>>
          /\ compacts' \in Nat /\ compactions' \subseteq [through : Nat, folded : Nat]
      <3>1. fold \in Fold /\ RecordCompaction(fold)
        BY <1>6 DEF Recorded, IInv, FoldsSound, FoldSound
      <3>2. compactions' \subseteq [through : Nat, folded : Nat]
        BY <3>1, <1>t, RecordTyped
      <3> QED
        BY <1>6, <3>2, <1>t DEF Recorded, counters, TypeOK
    <2>3. CASE fold.why \in {"fitted", "overflow"}
      BY <1>6, <2>2, <2>3 DEF Recorded, FoldMove, Resumes
    <2>4. CASE fold.why = "persist"
      BY <1>6, <2>2, <2>4 DEF Recorded, FoldMove, Ends
    <2>5. CASE fold.why = "asked"
      BY <1>6, <2>2, <2>5 DEF Recorded, FoldMove
    <2> QED
      BY <2>1, <2>3, <2>4, <2>5 DEF Whys
  <1> QED
    BY <1>1, <1>2, <1>3, <1>4, <1>5, <1>6

LEMMA Moves ==
  ASSUME IInv, [Next]_vars
  PROVE  \/ Write \/ Resume \/ Crash \/ Load \/ Summarized \/ Lapse \/ LateFold
         \/ AskForTools \/ Answer \/ Ask \/ RunTools \/ Store \/ FoldMove
         \/ UNCHANGED vars
  BY FoldMoves DEF Next, Folding, Turn, Faults

----------------------------------------------------------------------------
(* Types.                                                                  *)

LEMMA MessagesTyped ==
  /\ \A m \in Said : User(m.size, m.media) \in Message
  /\ \A n \in Written, c \in Seq(CallId) : Step(n, c) \in Message
  /\ \A r \in Returned, c \in CallId :
       Result(r.size, r.media, r.failed, c) \in Message
  /\ <<>> \in Seq(CallId)
  <1>1. <<>> \in Seq(CallId)
    OBVIOUS
  <1>2. ASSUME NEW m \in Said PROVE User(m.size, m.media) \in Message
    BY <1>1, <1>2, ContextAssumption DEF ContextAssumption, User, Message
  <1>3. ASSUME NEW n \in Written, NEW c \in Seq(CallId) PROVE Step(n, c) \in Message
    BY ContextAssumption DEF ContextAssumption, Step, Message
  <1>4. ASSUME NEW r \in Returned, NEW c \in CallId
        PROVE  Result(r.size, r.media, r.failed, c) \in Message
    BY <1>1, ContextAssumption DEF ContextAssumption, Result, Message
  <1> QED
    BY <1>1, <1>2, <1>3, <1>4

LEMMA BatchCalls ==
  ASSUME NEW n \in Nat, issued \in Nat, issued + n <= MaxCalls
  PROVE  [i \in 1..n |-> issued + i] \in Seq(CallId)
  <1>1. MaxCalls \in Nat
    BY ContextAssumption DEF ContextAssumption
  <1>2. \A i \in 1..n : issued + i \in CallId
    BY <1>1 DEF CallId
  <1> QED
    BY <1>2, IsASeq

(* The results a batch gets, in the order of its calls. *)
LEMMA ResultsTyped ==
  ASSUME NEW s \in Seq(Message), Len(s) > 0,
         NEW r \in [1..Len(s[Len(s)].calls) -> Returned]
  PROVE  LET b == s[Len(s)].calls
             out == [i \in 1..Len(b) |->
                       Result(r[i].size, r[i].media, r[i].failed, b[i])]
         IN /\ out \in Seq(Message) /\ Len(out) = Len(b)
            /\ \A i \in 1..Len(out) : out[i].role = "tool" /\ out[i].call = b[i]
  <1> DEFINE b == s[Len(s)].calls
             out == [i \in 1..Len(b) |-> Result(r[i].size, r[i].media, r[i].failed, b[i])]
  <1>1. b \in Seq(CallId) /\ Len(b) \in Nat
    BY LenProperties, MessageFields
  <1>2. \A i \in 1..Len(b) : b[i] \in CallId
    BY <1>1, ElementOfSeq
  <1>3. \A i \in 1..Len(b) : r[i] \in Returned
    OBVIOUS
  <1> HIDE DEF b
  <1>4. \A i \in 1..Len(b) : out[i] \in Message
    BY <1>2, <1>3, MessagesTyped
  <1>5. out \in Seq(Message)
    BY <1>1, <1>4, IsASeq
  <1>6. Len(out) = Len(b)
    BY <1>1
  <1>7. \A i \in 1..Len(b) : out[i].role = "tool" /\ out[i].call = b[i]
    BY DEF Result
  <1> QED
    BY <1>5, <1>6, <1>7 DEF b

LEMMA Initially == Init => IInv
  <1> SUFFICES ASSUME Init PROVE IInv
    OBVIOUS
  <1>1. TypeOK
    BY ContextAssumption, EmptySeq
    DEF ContextAssumption, Init, TypeOK, NoSummary, Summary, NoContext, Context, NoFold, Position
  <1>2. SummaryAccounts /\ NewestStays
    BY DEF Init, SummaryAccounts, NewestStays, NoSummary
  <1>3. CompactionsAccount
    BY DEF Init, CompactionsAccount
  <1>4. WorkerPlaced /\ ContextsSound /\ FoldsSound
    BY DEF Init, WorkerPlaced, ContextsSound, FoldsSound, NoFold
  <1>5. MessagesPaired
    BY PairedEmpty DEF Init, MessagesPaired
  <1> QED
    BY <1>1, <1>2, <1>3, <1>4, <1>5 DEF IInv

LEMMA TypeStep == IInv /\ [Next]_vars => TypeOK'
  <1> SUFFICES ASSUME IInv, [Next]_vars PROVE TypeOK'
    OBVIOUS
  <1>t. TypeOK /\ SummaryAccounts
    BY DEF IInv
  <1>c. MaxCalls \in Nat
    BY ContextAssumption DEF ContextAssumption
  <1>n. /\ NoContext \in Context /\ issued \in Nat
        /\ turn \in Seq(Message) /\ stored \in Seq(Message)
    BY <1>t, <1>c DEF TypeOK, NoContext, Context, NoSummary, Summary, Position
  <1> DEFINE Settles == pc' = "idle" /\ prepared' = NoContext /\ rounds' = 0 /\ fold' = NoFold
  <1>1. CASE Write
    <2>1. turn' \in Seq(Message)
      BY <1>1, MessagesTyped DEF Write
    <2> QED
      BY <1>1, <1>t, <2>1 DEF Write, TypeOK, store, counters, history
  <1>2. CASE Resume
    <2>1. CASE next = "model"
      BY <1>2, <2>1, <1>t DEF Resume, EnterModel, TypeOK, store, checkpoint, counters, history
    <2>2. CASE next # "model"
      BY <1>2, <2>2, <1>t DEF Resume, TypeOK, store, checkpoint, counters, history
    <2> QED
      BY <2>1, <2>2
  <1>3. CASE Crash
    <2>1. lost' \subseteq Position
      <3>1. CASE pc = "record"
        <4>1. fold.through \in Nat /\ fold.cut \in Nat
          BY <3>1 DEF IInv, FoldsSound, FoldSound, Fold
        <4> QED
          BY <1>3, <3>1, <4>1, <1>t, SpanPositions DEF Crash, TypeOK
      <3>2. CASE pc # "record"
        BY <1>3, <3>2, <1>t DEF Crash, TypeOK
      <3> QED
        BY <3>1, <3>2
    <2> QED
      BY <1>3, <2>1, <1>t, <1>n DEF Crash, Release, TypeOK, store, checkpoint
  <1>4. CASE Load
    BY <1>4, <1>t, <1>n, AssembledSound DEF Load, EnterModel, TypeOK, store, counters, history
  <1>5. CASE Summarized
    <2>1. FoldSound(fold) /\ SetSummary(fold)
      BY <1>5 DEF Summarized, IInv, FoldsSound
    <2> QED
      BY <1>5, <2>1, <1>t, SetSummaryTyped DEF Summarized, TypeOK, checkpoint, counters, history
  <1>6. CASE Lapse
    <2>1. fold \in Fold
      BY <1>6 DEF Lapse, IInv, FoldsSound, FoldSound
    <2> QED
      BY <1>6, <2>1, <1>t, <1>n DEF Lapse, Release, TypeOK, store, checkpoint, history
  <1>7. CASE LateFold
    <2>1. FoldSound(lapsed) /\ SetSummary(lapsed) /\ RecordCompaction(lapsed)
      BY <1>7 DEF LateFold, IInv, FoldsSound
    <2>2. summary' \in Summary /\ through' \in Nat
      BY <2>1, SetSummaryTyped
    <2>3. compactions' \subseteq [through : Nat, folded : Nat]
      BY <2>1, <1>t, RecordTyped DEF FoldSound
    <2> QED
      BY <1>7, <2>2, <2>3, <1>t DEF LateFold, TypeOK, checkpoint, hand, counters, history
  <1>8. CASE AskForTools
    <2>1. PICK n \in 1..MaxBatch, size \in Written :
            /\ issued + n <= MaxCalls
            /\ turn' = Append(turn, Step(size, [i \in 1..n |-> issued + i]))
            /\ issued' = issued + n
      BY <1>8 DEF AskForTools
    <2>2. n \in Nat /\ issued' \in 0..MaxCalls
      BY <2>1, <1>c, <1>n, ContextAssumption DEF ContextAssumption
    <2>3. Step(size, [i \in 1..n |-> issued + i]) \in Message
      BY <2>1, <2>2, <1>n, BatchCalls, MessagesTyped
    <2>4. turn' \in Seq(Message)
      BY <2>1, <2>3, <1>n, AppendProperties
    <2> QED
      BY <1>8, <2>2, <2>4, <1>t, <1>n DEF AskForTools, Taken, TypeOK, store, counters, history
  <1>9. CASE Answer
    <2>1. turn' \in Seq(Message)
      <3>1. ASSUME NEW size \in Written PROVE Append(turn, Step(size, <<>>)) \in Seq(Message)
        BY <1>n, MessagesTyped, AppendProperties
      <3>2. \/ \E size \in Written : turn' = Append(turn, Step(size, <<>>))
            \/ turn' = turn
        BY <1>9 DEF Answer
      <3> QED
        BY <3>1, <3>2, <1>n
    <2> QED
      BY <1>9, <2>1, <1>t, <1>n DEF Answer, Taken, TypeOK, store, counters, history
  <1>10. CASE Ask
    BY <1>10, <1>t, <1>n DEF Ask, Release, TypeOK, store, checkpoint, counters, history
  <1>11. CASE RunTools
    <2>1. turn' \in Seq(Message)
      <3>1. Len(turn) > 0
        BY <1>11 DEF RunTools, IInv, WorkerPlaced, MessagesPaired, Open
      <3>2. PICK r \in [1..Len(turn[Len(turn)].calls) -> Returned] :
              turn' = turn \o [i \in 1..Len(turn[Len(turn)].calls) |->
                Result(r[i].size, r[i].media, r[i].failed, turn[Len(turn)].calls[i])]
        BY <1>11 DEF RunTools, Batch
      <3>3. [i \in 1..Len(turn[Len(turn)].calls) |->
               Result(r[i].size, r[i].media, r[i].failed, turn[Len(turn)].calls[i])]
              \in Seq(Message)
        BY <3>1, <1>n, ResultsTyped
      <3> QED
        BY <3>2, <3>3, <1>n, Joined
    <2> QED
      BY <1>11, <2>1, <1>t DEF RunTools, EnterModel, TypeOK, store, counters, history
  <1>12. CASE Store
    <2>1. stored' \in Seq(Message)
      BY <1>12, <1>n, Joined DEF Store
    <2> QED
      BY <1>12, <2>1, <1>t DEF Store, TypeOK, checkpoint, counters, history
  <1>13. CASE FoldMove
    <2>p. UNCHANGED <<stored, summary, through, lapsed, issued, lapses>>
      BY <1>13 DEF FoldMove
    <2>q. /\ compactions' \subseteq [through : Nat, folded : Nat]
          /\ crashes' \in Nat /\ compacts' \in Nat /\ lost' \subseteq Position
      BY <1>13, <1>t DEF FoldMove, TypeOK
    <2>1. CASE Sends
      BY <2>1, <2>p, <2>q, <1>t DEF Sends, SendIt, TypeOK, checkpoint
    <2>2. CASE Refuses
      <3>1. turn' \in Seq(Message) /\ context' \in Context
        <4>1. PICK c \in {context, prepared} : Refuse(c)
          BY <2>2 DEF Refuses
        <4>2. PICK n \in Written : turn' = Append(turn, Step(n, <<>>))
          BY <4>1 DEF Refuse
        <4>3. turn' \in Seq(Message)
          BY <4>2, <1>n, MessagesTyped, AppendProperties
        <4> QED
          BY <4>1, <4>3, <1>t DEF Refuse, TypeOK
      <3> QED
        BY <2>2, <3>1, <2>p, <2>q, <1>t, <1>n DEF Refuses, Refuse, TypeOK
    <2>3. CASE Ends
      BY <2>3, <2>p, <2>q, <1>t, <1>n DEF Ends, EndTurn, Release, TypeOK
    <2>4. CASE Drop
      BY <2>4, <2>p, <2>q, <1>t, <1>n DEF Drop, Release, TypeOK, checkpoint
    <2>5. CASE Resumes
      BY <2>5, <2>p, <2>q, <1>t, AssembledSound DEF Resumes, TypeOK, checkpoint
    <2>6. ASSUME NEW why \in Whys, Begins(why), Asks(why) PROVE TypeOK'
      <3>1. rounds' \in 0..3
        BY <2>6, <1>t DEF Begins, Asks, TypeOK
      <3> QED
        BY <2>6, <3>1, <2>p, <2>q, <1>t DEF Begins, FoldSound, TypeOK, checkpoint
    <2> QED
      BY <1>13, <2>1, <2>2, <2>3, <2>4, <2>5, <2>6 DEF FoldMove
  <1>14. CASE UNCHANGED vars
    BY <1>14, <1>t DEF vars, TypeOK, store, checkpoint, hand, counters, history
  <1> QED
    BY Moves, <1>1, <1>2, <1>3, <1>4, <1>5, <1>6, <1>7, <1>8, <1>9, <1>10, <1>11, <1>12,
       <1>13, <1>14

----------------------------------------------------------------------------
(* The store and its summary.                                              *)

LEMMA StoreGrows ==
  ASSUME TypeOK, Store
  PROVE  /\ stored' \in Seq(Message) /\ stored \in Seq(Message) /\ Len(stored) \in Nat
         /\ Len(stored') >= Len(stored)
         /\ \A i \in 1..Len(stored) : stored'[i] = stored[i]
         /\ stored' = stored \/ stored' = stored \o turn
  <1>1. stored \in Seq(Message) /\ turn \in Seq(Message) /\ Len(stored) \in Nat
    BY LenProperties DEF TypeOK
  <1>2. stored' = stored \/ stored' = stored \o turn
    BY DEF Store
  <1>3. CASE stored' = stored
    BY <1>1, <1>3
  <1>4. CASE stored' = stored \o turn
    BY <1>1, <1>4, Joined
  <1> QED
    BY <1>2, <1>3, <1>4

(* A place where a step begins, and what is kept behind it, stay so. *)
LEMMA PlaceStays ==
  ASSUME TypeOK, Store, NEW k \in Nat
  PROVE  /\ k < Len(stored) /\ Starts(stored, k) => k < Len(stored') /\ Starts(stored', k)
         /\ KeptBehind(stored, k) => KeptBehind(stored', k)
  <1>1. /\ stored' \in Seq(Message) /\ stored \in Seq(Message) /\ Len(stored) \in Nat
        /\ Len(stored') >= Len(stored) /\ Len(stored') \in Nat
        /\ \A i \in 1..Len(stored) : stored'[i] = stored[i]
        /\ stored' = stored \/ stored' = stored \o turn
    BY StoreGrows, LenProperties
  <1>2. k < Len(stored) /\ Starts(stored, k) => k < Len(stored') /\ Starts(stored', k)
    BY <1>1 DEF Starts
  <1>3. KeptBehind(stored, k) => KeptBehind(stored \o turn, k)
    BY WindowAssumption, KeptGrown DEF TypeOK
  <1> QED
    BY <1>1, <1>2, <1>3

LEMMA SummaryWritten ==
  ASSUME TypeOK, NEW f, FoldSound(f), SetSummary(f), stored' = stored
  PROVE  /\ through' = f.through + f.cut /\ through' \in 1..Len(stored)
         /\ SummaryAccounts' /\ NewestStays'
  <1>1. /\ f.through \in Nat /\ f.cut \in Nat /\ f.cut > 0 /\ f.previous = 1..f.through
        /\ f.through + f.cut < Len(stored) /\ Len(stored) \in Nat
    BY LenProperties DEF FoldSound, Fold, TypeOK
  <1>2. through' = f.through + f.cut
        /\ summary'.covers = (1..f.through) \cup ((f.through + 1)..(f.through + f.cut))
    BY <1>1 DEF SetSummary
  <1>3. summary'.covers = 1..through'
    BY <1>1, <1>2
  <1>4. stored[through' + 1].role # "tool"
    BY <1>1, <1>2 DEF FoldSound, Starts
  <1>5. SummaryAccounts'
    BY <1>1, <1>2, <1>3, <1>4 DEF SummaryAccounts
  <1>6. NewestStays'
    BY <1>2 DEF NewestStays, FoldSound, KeptBehind
  <1> QED
    BY <1>1, <1>2, <1>5, <1>6

LEMMA SummaryStep == IInv /\ [Next]_vars => SummaryAccounts' /\ NewestStays'
  <1> SUFFICES ASSUME IInv, [Next]_vars PROVE SummaryAccounts' /\ NewestStays'
    OBVIOUS
  <1>t. TypeOK /\ SummaryAccounts /\ NewestStays
    BY DEF IInv
  <1>1. CASE UNCHANGED <<stored, summary, through>>
    BY <1>1, <1>t DEF SummaryAccounts, NewestStays
  <1>2. CASE Summarized
    <2>1. FoldSound(fold) /\ SetSummary(fold) /\ stored' = stored
      BY <1>2 DEF Summarized, IInv, FoldsSound
    <2> QED
      BY <2>1, <1>t, SummaryWritten
  <1>3. CASE LateFold
    <2>1. FoldSound(lapsed) /\ SetSummary(lapsed) /\ stored' = stored
      BY <1>3 DEF LateFold, IInv, FoldsSound
    <2> QED
      BY <2>1, <1>t, SummaryWritten
  <1>4. CASE Store
    <2>1. UNCHANGED <<summary, through>> /\ through \in Nat
      BY <1>4, <1>t DEF Store, TypeOK
    <2>2. SummaryAccounts'
      <3>1. /\ Len(stored) \in Nat /\ Len(stored') >= Len(stored) /\ Len(stored') \in Nat
            /\ \A i \in 1..Len(stored) : stored'[i] = stored[i]
        BY <1>4, <1>t, StoreGrows, LenProperties
      <3>2. CASE through < Len(stored)
        BY <2>1, <3>1, <3>2, <1>t DEF SummaryAccounts
      <3>3. CASE through = Len(stored)
        <4>1. turn \in Seq(Message) /\ stored \in Seq(Message) /\ Paired(turn)
          BY <1>4 DEF Store, IInv, TypeOK, WorkerPlaced, MessagesPaired
        <4>2. CASE stored' = stored
          BY <2>1, <4>2, <1>t DEF SummaryAccounts
        <4>3. CASE stored' = stored \o turn
          <5>1. Len(turn) > 0 => stored'[Len(stored) + 1] = turn[1] /\ turn[1].role # "tool"
            BY <4>1, <4>3, PairedStarts, Joined DEF Starts
          <5> QED
            BY <2>1, <3>1, <3>3, <4>1, <4>3, <5>1, <1>t, Joined DEF SummaryAccounts
        <4> QED
          BY <1>4, <1>t, <4>2, <4>3, StoreGrows
      <3> QED
        BY <3>2, <3>3, <3>1, <2>1, <1>t DEF SummaryAccounts
    <2>3. NewestStays'
      BY <2>1, <1>4, <1>t, PlaceStays DEF NewestStays, KeptBehind
    <2> QED
      BY <2>2, <2>3
  <1> QED
    BY Moves, <1>1, <1>2, <1>3, <1>4
    DEF Write, Resume, Crash, Load, Lapse, AskForTools, Answer, Ask, RunTools, FoldMove, vars,
        store

----------------------------------------------------------------------------
(* The worker, the folds and the contexts.                                 *)

LEMMA PlacedStep == IInv /\ [Next]_vars => WorkerPlaced'
  <1> SUFFICES ASSUME IInv, [Next]_vars PROVE WorkerPlaced'
    OBVIOUS
  <1>t. WorkerPlaced
    BY DEF IInv
  <1>1. CASE Write
    BY <1>1 DEF Write, WorkerPlaced
  <1>2. CASE Resume
    <2>1. next' = next /\ pc' = next /\ next \in {"load", "model", "tools", "persist"}
      BY <1>2 DEF Resume, EnterModel, checkpoint, IInv, TypeOK
    <2> QED
      BY <2>1 DEF WorkerPlaced
  <1>3. CASE Crash \/ Lapse \/ Ask
    BY <1>3 DEF Crash, Lapse, Ask, Release, WorkerPlaced
  <1>4. CASE Load \/ RunTools
    BY <1>4 DEF Load, RunTools, EnterModel, WorkerPlaced
  <1>5. CASE Summarized
    BY <1>5, <1>t DEF Summarized, checkpoint, WorkerPlaced
  <1>6. CASE LateFold
    BY <1>6, <1>t DEF LateFold, checkpoint, hand, WorkerPlaced
  <1>7. CASE AskForTools
    BY <1>7 DEF AskForTools, WorkerPlaced
  <1>8. CASE Answer
    BY <1>8 DEF Answer, WorkerPlaced
  <1>9. CASE Store
    BY <1>9, <1>t DEF Store, checkpoint, WorkerPlaced
  <1>10. CASE FoldMove
    <2>1. CASE Sends
      BY <2>1, <1>t DEF Sends, SendIt, checkpoint, WorkerPlaced
    <2>2. CASE Refuses
      BY <2>2 DEF Refuses, Refuse, WorkerPlaced
    <2>3. CASE Ends
      BY <2>3 DEF Ends, EndTurn, Release, WorkerPlaced
    <2>4. CASE Drop
      BY <2>4 DEF Drop, Release, WorkerPlaced
    <2>5. CASE Resumes
      BY <2>5, <1>t DEF Resumes, checkpoint, WorkerPlaced
    <2>6. ASSUME NEW why \in Whys, Begins(why), Asks(why) PROVE WorkerPlaced'
      BY <2>6, <1>t DEF Begins, Asks, checkpoint, WorkerPlaced
    <2> QED
      BY <1>10, <2>1, <2>2, <2>3, <2>4, <2>5, <2>6 DEF FoldMove
  <1>11. CASE UNCHANGED vars
    BY <1>11, <1>t DEF vars, checkpoint, hand, WorkerPlaced
  <1> QED
    BY Moves, <1>1, <1>2, <1>3, <1>4, <1>5, <1>6, <1>7, <1>8, <1>9, <1>10, <1>11

(* A fold that was sound stays so while the store only grows. *)
LEMMA FoldStays ==
  ASSUME TypeOK, NEW f, FoldSound(f), Store \/ stored' = stored
  PROVE  /\ f \in Fold /\ f.previous = 1..f.through /\ f.cut > 0
         /\ f.through + f.cut < Len(stored') /\ Starts(stored', f.through + f.cut)
         /\ KeptBehind(stored', f.through + f.cut)
  <1>1. f.through + f.cut \in Nat
    BY DEF FoldSound, Fold
  <1> QED
    BY <1>1, PlaceStays DEF FoldSound

LEMMA FoldsStep == IInv /\ [Next]_vars => FoldsSound'
  <1> SUFFICES ASSUME IInv, [Next]_vars PROVE FoldsSound'
    OBVIOUS
  <1>t. TypeOK /\ FoldsSound
    BY DEF IInv
  <1>s. ASSUME NEW f, FoldSound(f), Store \/ stored' = stored, NEW g, g = f
        PROVE  /\ g \in Fold /\ g.previous = 1..g.through /\ g.cut > 0
               /\ g.through + g.cut < Len(stored') /\ Starts(stored', g.through + g.cut)
               /\ KeptBehind(stored', g.through + g.cut)
    BY <1>s, <1>t, FoldStays
  <1>1. CASE /\ pc' \notin {"fold", "record"} /\ UNCHANGED <<lapsed, lapses>>
             /\ Store \/ stored' = stored
    BY <1>1, <1>s, <1>t DEF FoldsSound, FoldSound
  <1>2. CASE Crash
    BY <1>1, <1>2 DEF Crash, Release, store
  <1>3. CASE Summarized
    <2>1. FoldSound(fold) /\ SetSummary(fold) /\ stored' = stored
      BY <1>3, <1>t DEF Summarized, FoldsSound
    <2>2. through' = fold.through + fold.cut
      BY <2>1 DEF SetSummary
    <2> QED
      BY <1>3, <2>1, <2>2, <1>s, <1>t DEF Summarized, FoldsSound, FoldSound, counters
  <1>4. CASE Lapse
    <2>1. FoldSound(fold) /\ stored' = stored
      BY <1>4, <1>t DEF Lapse, FoldsSound, store
    <2>2. lapses' # 0
      BY <1>4, <1>t DEF Lapse, TypeOK
    <2> QED
      BY <1>4, <2>1, <2>2, <1>s DEF Lapse, Release, FoldsSound, FoldSound
  <1>5. CASE LateFold
    <2>1. lapses' # 0 /\ lapsed' = NoFold
      BY <1>5, <1>t DEF LateFold, FoldsSound, counters
    <2> QED
      BY <1>5, <2>1, <1>s, <1>t DEF LateFold, FoldsSound, FoldSound, hand
  <1>6. CASE Begins(fold'.why) /\ UNCHANGED <<stored, through, lapsed, lapses>>
    <2>1. fold'.through = through /\ pc' = "fold" /\ FoldSound(fold')
      BY <1>6 DEF Begins
    <2> QED
      BY <1>6, <2>1, <1>s, <1>t DEF FoldsSound, FoldSound
  <1>7. CASE FoldMove
    <2>1. CASE Sends \/ Refuses \/ Ends \/ Drop \/ Resumes
      BY <1>7, <2>1, <1>1
      DEF FoldMove, Sends, SendIt, Refuses, Refuse, Ends, EndTurn, Drop, Release, Resumes
    <2>2. ASSUME NEW why \in Whys, Begins(why) PROVE FoldsSound'
      BY <1>6, <1>7, <2>2 DEF FoldMove, Begins
    <2> QED
      BY <1>7, <2>1, <2>2 DEF FoldMove
  <1>8. CASE UNCHANGED vars
    BY <1>8, <1>t DEF vars, store, hand, counters, FoldsSound, FoldSound
  <1>9. CASE Write
    BY <1>1, <1>9 DEF Write, store, counters
  <1>10. CASE Resume
    BY <1>1, <1>10 DEF Resume, EnterModel, store, counters, IInv, TypeOK
  <1>11. CASE Load \/ RunTools
    BY <1>1, <1>11 DEF Load, RunTools, EnterModel, store, counters
  <1>12. CASE AskForTools \/ Answer \/ Ask
    BY <1>1, <1>12 DEF AskForTools, Answer, Ask, Release, store, counters
  <1>13. CASE Store
    BY <1>1, <1>13 DEF Store, counters
  <1> QED
    BY Moves, <1>2, <1>3, <1>4, <1>5, <1>7, <1>8, <1>9, <1>10, <1>11, <1>12, <1>13

LEMMA ContextsStep == IInv /\ [Next]_vars => ContextsSound'
  <1> SUFFICES ASSUME IInv, [Next]_vars PROVE ContextsSound'
    OBVIOUS
  <1>t. TypeOK /\ SummaryAccounts /\ WorkerPlaced /\ ContextsSound
    BY DEF IInv
  <1>a. ContextSound(Assembled)
    BY <1>t, AssembledSound
  <1>1. CASE Write
    BY <1>1 DEF Write, ContextsSound
  <1>2. CASE Resume
    <2>1. /\ next \in {"load", "model", "tools", "persist"} /\ pc' = next
          /\ next = "model" => prepared' = context
          /\ UNCHANGED <<stored, next, context>>
      BY <1>2, <1>t DEF Resume, EnterModel, TypeOK, store, checkpoint
    <2> QED
      BY <2>1, <1>t DEF ContextsSound, ContextSound
  <1>3. CASE Crash \/ Lapse \/ Ask
    BY <1>3, <1>t
    DEF Crash, Lapse, Ask, Release, ContextsSound, ContextSound, store, checkpoint
  <1>4. CASE Load
    BY <1>4, <1>a DEF Load, EnterModel, ContextsSound, ContextSound, store
  <1>5. CASE Summarized
    BY <1>5, <1>t DEF Summarized, ContextsSound, ContextSound, checkpoint
  <1>6. CASE LateFold
    BY <1>6, <1>t DEF LateFold, ContextsSound, ContextSound, checkpoint, hand
  <1>7. CASE AskForTools
    BY <1>7, <1>t DEF AskForTools, Taken, Sending, ContextsSound, ContextSound, store
  <1>8. CASE Answer
    BY <1>8 DEF Answer, ContextsSound
  <1>9. CASE RunTools
    BY <1>9, <1>t DEF RunTools, EnterModel, WorkerPlaced, ContextsSound, ContextSound, store
  <1>10. CASE Store
    BY <1>10, <1>t DEF Store, WorkerPlaced, ContextsSound, checkpoint
  <1>11. CASE FoldMove
    <2>s. stored' = stored
      BY <1>11 DEF FoldMove
    <2>1. CASE Sends
      BY <2>1, <2>s, <1>t DEF Sends, SendIt, ContextsSound, ContextSound, checkpoint
    <2>2. CASE Refuses
      BY <2>2 DEF Refuses, Refuse, ContextsSound
    <2>3. CASE Ends
      BY <2>3 DEF Ends, EndTurn, Release, ContextsSound
    <2>4. CASE Drop
      BY <2>4, <2>s, <1>t DEF Drop, Release, ContextsSound, ContextSound, checkpoint
    <2>5. CASE Resumes
      BY <2>5, <2>s, <1>a, <1>t DEF Resumes, ContextsSound, ContextSound, checkpoint
    <2>6. ASSUME NEW why \in Whys, Begins(why), Asks(why) PROVE ContextsSound'
      <3>1. why = "fitted" => pc = "model"
        BY <2>6 DEF Asks
      <3> QED
        BY <2>6, <3>1, <2>s, <1>t DEF Begins, ContextsSound, ContextSound, checkpoint
    <2> QED
      BY <1>11, <2>1, <2>2, <2>3, <2>4, <2>5, <2>6 DEF FoldMove
  <1>12. CASE UNCHANGED vars
    BY <1>12, <1>t DEF vars, store, checkpoint, hand, ContextsSound, ContextSound
  <1> QED
    BY Moves, <1>1, <1>2, <1>3, <1>4, <1>5, <1>6, <1>7, <1>8, <1>9, <1>10, <1>11, <1>12

LEMMA PairedStep == IInv /\ [Next]_vars => MessagesPaired'
  <1> SUFFICES ASSUME IInv, [Next]_vars PROVE MessagesPaired'
    OBVIOUS
  <1>t. /\ turn \in Seq(Message) /\ stored \in Seq(Message)
        /\ WorkerPlaced /\ FoldsSound /\ MessagesPaired
    BY DEF IInv, TypeOK
  <1>a. ASSUME NEW size \in Written, Paired(turn)
        PROVE  Paired(Append(turn, Step(size, <<>>)))
    <2> DEFINE m == Step(size, <<>>)
    <2>1. m \in Message /\ m.role # "tool" /\ m.calls = <<>>
      BY MessagesTyped DEF Step
    <2> HIDE DEF m
    <2>2. Append(turn, m) = turn \o <<m>>
      BY <1>t, <2>1, AppendIsConcat
    <2>3. Paired(turn \o <<m>>)
      BY <1>a, <1>t, <2>1, PairedAlone, PairedJoined
    <2> QED
      BY <2>2, <2>3 DEF m
  <1>1. CASE Write
    <2>1. Paired(turn')
      <3>1. PICK m \in Said : turn' = <<User(m.size, m.media)>>
        BY <1>1 DEF Write
      <3>2. User(m.size, m.media) \in Message
        BY MessagesTyped
      <3>3. User(m.size, m.media).role # "tool" /\ User(m.size, m.media).calls = <<>>
        BY DEF User
      <3> HIDE DEF User
      <3> QED
        BY <3>1, <3>2, <3>3, PairedAlone
    <2> QED
      BY <1>1, <2>1, <1>t DEF Write, store, MessagesPaired
  <1>2. CASE UNCHANGED <<stored, turn, next>>
    BY <1>2, <1>t DEF MessagesPaired
  <1>3. CASE Load
    BY <1>3, <1>t DEF Load, WorkerPlaced, store, MessagesPaired
  <1>4. CASE AskForTools
    <2>1. next = "model" /\ Paired(turn)
      BY <1>4, <1>t DEF AskForTools, Taken, Sending, WorkerPlaced, MessagesPaired
    <2>2. PICK n \in 1..MaxBatch, size \in Written :
            /\ issued + n <= MaxCalls
            /\ turn' = Append(turn, Step(size, [i \in 1..n |-> issued + i]))
      BY <1>4 DEF AskForTools
    <2> DEFINE m == Step(size, [i \in 1..n |-> issued + i])
    <2>3. m \in Message /\ m.role = "assistant"
      <3>1. [i \in 1..n |-> issued + i] \in Seq(CallId)
        <4>1. n \in Nat /\ issued \in Nat
          BY ContextAssumption DEF ContextAssumption, IInv, TypeOK
        <4> QED
          BY <2>2, <4>1, BatchCalls
      <3> QED
        BY <3>1, MessagesTyped DEF Step
    <2> HIDE DEF m
    <2>4. Open(turn')
      BY <2>1, <2>2, <2>3, <1>t, OpenAppended DEF m
    <2> QED
      BY <1>4, <2>4, <1>t DEF AskForTools, store, MessagesPaired
  <1>5. CASE Answer
    <2>1. next = "model" /\ Paired(turn)
      BY <1>5, <1>t DEF Answer, Taken, Sending, WorkerPlaced, MessagesPaired
    <2>2. \/ \E size \in Written : turn' = Append(turn, Step(size, <<>>))
          \/ turn' = turn
      BY <1>5 DEF Answer
    <2>3. Paired(turn')
      BY <2>1, <2>2, <1>a
    <2> QED
      BY <1>5, <2>3, <1>t DEF Answer, store, MessagesPaired
  <1>6. CASE RunTools
    <2>1. Open(turn) /\ Len(turn) > 0
      BY <1>6, <1>t DEF RunTools, WorkerPlaced, MessagesPaired, Open
    <2>2. PICK r \in [1..Len(turn[Len(turn)].calls) -> Returned] :
            turn' = turn \o [i \in 1..Len(turn[Len(turn)].calls) |->
              Result(r[i].size, r[i].media, r[i].failed, turn[Len(turn)].calls[i])]
      BY <1>6 DEF RunTools, Batch
    <2> DEFINE out == [i \in 1..Len(turn[Len(turn)].calls) |->
              Result(r[i].size, r[i].media, r[i].failed, turn[Len(turn)].calls[i])]
    <2>3. /\ out \in Seq(Message) /\ Len(out) = Len(turn[Len(turn)].calls)
          /\ \A i \in 1..Len(out) :
               out[i].role = "tool" /\ out[i].call = turn[Len(turn)].calls[i]
      BY <2>1, <1>t, ResultsTyped
    <2>4. turn' = turn \o out
      BY <2>2
    <2> HIDE DEF out
    <2>5. Paired(turn')
      BY <2>1, <2>3, <2>4, <1>t, PairedAnswered
    <2> QED
      BY <1>6, <2>5, <1>t DEF RunTools, store, MessagesPaired
  <1>7. CASE Store
    <2>1. Paired(turn) /\ Paired(stored) /\ next' = next /\ turn' = turn
      BY <1>7, <1>t DEF Store, checkpoint, WorkerPlaced, MessagesPaired
    <2>2. Paired(stored')
      BY <1>7, <2>1, <1>t, PairedJoined DEF Store
    <2> QED
      BY <2>1, <2>2, <1>t DEF MessagesPaired
  <1>8. CASE FoldMove
    <2>1. CASE Refuses
      <3>1. next = "model" /\ Paired(turn)
        BY <2>1, <1>t DEF Refuses, WorkerPlaced, MessagesPaired
      <3>2. /\ \E n \in Written : turn' = Append(turn, Step(n, <<>>))
            /\ next' = "persist"
        BY <2>1 DEF Refuses, Refuse
      <3>3. Paired(turn')
        BY <3>1, <3>2, <1>a
      <3> QED
        BY <1>8, <3>2, <3>3, <1>t DEF FoldMove, MessagesPaired
    <2>2. CASE Ends
      <3>1. next = "persist"
        BY <2>2, <1>t DEF Ends, WorkerPlaced
      <3> QED
        BY <1>8, <2>2, <3>1, <1>t DEF FoldMove, Ends, EndTurn, MessagesPaired
    <2>3. CASE Sends \/ Drop \/ Resumes \/ \E why \in Whys : Begins(why)
      BY <1>2, <1>8, <2>3 DEF FoldMove, Sends, SendIt, Drop, Resumes, Begins, checkpoint
    <2> QED
      BY <1>8, <2>1, <2>2, <2>3 DEF FoldMove
  <1>9. CASE UNCHANGED vars
    BY <1>2, <1>9 DEF vars, store, checkpoint
  <1>10. CASE Resume \/ Crash \/ Lapse \/ Ask
    BY <1>2, <1>10 DEF Resume, Crash, Lapse, Ask, store, checkpoint
  <1>11. CASE Summarized \/ LateFold
    BY <1>2, <1>11 DEF Summarized, LateFold, checkpoint
  <1> QED
    BY Moves, <1>1, <1>3, <1>4, <1>5, <1>6, <1>7, <1>8, <1>9, <1>10, <1>11

----------------------------------------------------------------------------
(* The records.                                                            *)

LEMMA RecordedNext ==
  ASSUME NEW a \in Nat, NEW b \in Nat, b > 0
  PROVE  /\ Taking([through |-> a + b, folded |-> b]) = (a + 1)..(a + b)
         /\ (1..a) \cup ((a + 1)..(a + b)) = 1..(a + b)
         /\ (1..a) \cap ((a + 1)..(a + b)) = {}
  BY DEF Taking

LEMMA RecordsStep == IInv /\ [Next]_vars => CompactionsAccount'
  <1> SUFFICES ASSUME IInv, [Next]_vars, lapses' = 0 PROVE CompactionsAccount'
    BY DEF CompactionsAccount
  <1> DEFINE All(S) == UNION {Taking(r) : r \in S}
             Apart(S) == \A r, q \in S : Taking(r) \cap Taking(q) # {} => r = q
  <1>t. TypeOK
    BY DEF IInv
  <1>u. lapses = 0 =>
          /\ All(compactions) \cup lost = 1..(IF pc = "record" THEN fold.through ELSE through)
          /\ Apart(compactions)
    <2>1. CompactionsAccount
      BY DEF IInv
    <2> QED
      BY <2>1 DEF CompactionsAccount
  <1>v. ASSUME /\ All(compactions') \cup lost'
                    = 1..(IF pc' = "record" THEN fold'.through ELSE through')
               /\ Apart(compactions')
        PROVE  CompactionsAccount'
    BY <1>v DEF CompactionsAccount
  <1>0. CASE UNCHANGED <<compactions, lost, through, lapses, pc>> /\ UNCHANGED fold
    BY <1>0 DEF IInv, CompactionsAccount
  <1>1. CASE /\ pc # "record" /\ pc' # "record"
             /\ UNCHANGED <<compactions, lost, through, lapses>>
    BY <1>1 DEF IInv, CompactionsAccount
  <1>f. ASSUME pc \in {"fold", "record"}
        PROVE  fold.through \in Nat /\ fold.cut \in Nat /\ fold.cut > 0
    BY <1>f DEF IInv, FoldsSound, FoldSound, Fold
  <1>2. CASE Summarized
    <2>1. lapses = 0 /\ pc = "fold" /\ pc' = "record" /\ fold' = fold
          /\ UNCHANGED <<compactions, lost>>
      BY <1>2 DEF Summarized, counters, history
    <2>2. through = fold.through
      BY <2>1 DEF IInv, FoldsSound
    <2> QED
      BY <2>1, <2>2 DEF IInv, CompactionsAccount
  <1>3. CASE Recorded
    <2>1. /\ lapses = 0 /\ pc = "record" /\ pc' # "record" /\ UNCHANGED <<lost, through>>
          /\ fold.why \in Whys
      BY <1>3 DEF Recorded, counters, EndTurn, Drop, Release, IInv, FoldsSound, FoldSound, Fold,
                  Whys
    <2> DEFINE new == [through |-> fold.through + fold.cut, folded |-> fold.cut]
    <2>2. compactions' = compactions \cup {new}
      BY <1>3 DEF Recorded, RecordCompaction
    <2>3. /\ through = fold.through + fold.cut
          /\ All(compactions) \cup lost = 1..fold.through /\ Apart(compactions)
      <3> HIDE DEF All, Apart
      <3> QED
        BY <2>1, <1>u DEF IInv, FoldsSound
    <2>4. /\ Taking(new) = (fold.through + 1)..(fold.through + fold.cut)
          /\ (1..fold.through) \cup Taking(new) = 1..through
          /\ (1..fold.through) \cap Taking(new) = {}
      BY <2>1, <2>3, <1>f, RecordedNext
    <2> HIDE DEF new
    <2>5. All(compactions') = All(compactions) \cup Taking(new)
      BY <2>2
    <2>6. All(compactions') \cup lost' = 1..through'
      BY <2>1, <2>3, <2>4, <2>5
    <2>7. \A r \in compactions : Taking(r) \cap Taking(new) = {}
      BY <2>3, <2>4
    <2>8. Apart(compactions')
      BY <2>2, <2>3, <2>7
    <2> HIDE DEF All, Apart
    <2> QED
      BY <2>1, <2>6, <2>8, <1>v
  <1>4. CASE Crash
    <2>1. lapses = 0 /\ pc' # "record" /\ UNCHANGED <<compactions, through>>
      BY <1>4 DEF Crash, Release, store
    <2>2. CASE pc = "record"
      <3>1. lost' = lost \cup ((fold.through + 1)..(fold.through + fold.cut))
        BY <1>4, <2>2 DEF Crash
      <3>2. /\ through = fold.through + fold.cut
            /\ All(compactions) \cup lost = 1..fold.through /\ Apart(compactions)
        <4> HIDE DEF All, Apart
        <4> QED
          BY <2>1, <2>2, <1>u DEF IInv, FoldsSound
      <3>3. (1..fold.through) \cup ((fold.through + 1)..(fold.through + fold.cut)) = 1..through
        BY <3>2, <2>2, <1>f, RecordedNext
      <3>4. All(compactions) \cup lost' = 1..through
        BY <3>1, <3>2, <3>3
      <3> HIDE DEF All, Apart
      <3> QED
        BY <2>1, <3>2, <3>4, <1>v
    <2>3. CASE pc # "record"
      BY <1>1, <1>4, <2>1, <2>3 DEF Crash
    <2> QED
      BY <2>2, <2>3
  <1>5. CASE Lapse
    BY <1>5, <1>t DEF Lapse, TypeOK
  <1>6. CASE LateFold
    BY <1>6 DEF LateFold, counters, IInv, FoldsSound
  <1>7. CASE Fit \/ Compact \/ FoldAfter \/ Overflow \/ NotSummarized
    <2>1. pc # "record" /\ UNCHANGED <<compactions, lost, through, lapses>>
      BY <1>7 DEF Fit, Compact, FoldAfter, Overflow, NotSummarized, Sending, store, counters
    <2>2. FoldMove
      BY <1>7, FoldMoves
    <2>3. pc' # "record"
      BY <2>1, <2>2
      DEF FoldMove, Sends, SendIt, Refuses, Refuse, Ends, EndTurn, Drop, Release, Resumes, Begins
    <2> QED
      BY <1>1, <2>1, <2>3
  <1>8. CASE Write \/ Load \/ AskForTools \/ Answer \/ Ask \/ RunTools \/ Store
    BY <1>1, <1>8
    DEF Write, Load, AskForTools, Answer, Taken, Sending, Ask, RunTools, Store, EnterModel,
        Release, store, counters, history
  <1>9. CASE Resume
    BY <1>1, <1>9, <1>t DEF Resume, EnterModel, TypeOK, store, counters, history
  <1>10. CASE UNCHANGED vars
    BY <1>0, <1>10 DEF vars, store, hand, counters, history
  <1> QED
    BY <1>2, <1>3, <1>4, <1>5, <1>6, <1>7, <1>8, <1>9, <1>10
    DEF Next, Folding, Turn, Faults

----------------------------------------------------------------------------
(* The theorems.                                                           *)

(* Every reachable state satisfies the inductive invariant. *)
THEOREM Invariant == Spec => []IInv
  <1>1. IInv /\ [Next]_vars => IInv'
    BY TypeStep, SummaryStep, RecordsStep, PlacedStep, ContextsStep, FoldsStep, PairedStep
    DEF IInv
  <1> QED
    BY Initially, <1>1, PTL DEF Spec

(* Types. *)
THEOREM TypeCorrect == Spec => []TypeOK
  <1>1. IInv => TypeOK
    BY DEF IInv
  <1> QED
    BY Invariant, <1>1, PTL

(* summary.py: the summary stands for the messages up to its position, and *)
(* a step begins behind it, whatever races, dies or lapses.                *)
THEOREM SummaryAccounted == Spec => []SummaryAccounts
  <1>1. IInv => SummaryAccounts
    BY DEF IInv
  <1> QED
    BY Invariant, <1>1, PTL

(* summary.py, verbatim_floor: the newest part is never folded.            *)
THEOREM NewestKept == Spec => []NewestStays
  <1>1. IInv => NewestStays
    BY DEF IInv
  <1> QED
    BY Invariant, <1>1, PTL

(* record_compaction: while leases hold, the records account for all that  *)
(* was folded, once.                                                       *)
THEOREM CompactionsAccounted == Spec => []CompactionsAccount
  <1>1. IInv => CompactionsAccount
    BY DEF IInv
  <1> QED
    BY Invariant, <1>1, PTL

(* graph.py, fitted: what is sent is the summary of the front of the store *)
(* and the rest of it word for word, however old the context is.           *)
THEOREM RequestsWhole == Spec => []RequestWhole
  <1>1. IInv => RequestWhole
    BY DEF IInv, ContextsSound, ContextSound, RequestWhole, Sending
  <1> QED
    BY Invariant, <1>1, PTL

(* A request the provider accepts: calls and results stand together,       *)
(* wherever the history was cut.                                           *)
THEOREM RequestsPaired == Spec => []RequestPaired
  <1>1. IInv => RequestPaired
    <2> SUFFICES ASSUME IInv, Sending PROVE Paired(prepared.history \o turn)
      BY DEF RequestPaired
    <2>1. /\ stored \in Seq(Message) /\ turn \in Seq(Message)
          /\ Paired(stored) /\ Paired(turn) /\ ContextSound(prepared)
      BY DEF IInv, TypeOK, Sending, WorkerPlaced, ContextsSound, MessagesPaired
    <2>2. prepared.through \in 0..Len(stored)
      BY <2>1, LenProperties DEF IInv, TypeOK, Context, ContextSound
    <2>3. /\ prepared.history = From(stored, prepared.through)
          /\ From(stored, prepared.through) \in Seq(Message)
          /\ Starts(stored, prepared.through)
      BY <2>1, <2>2, FromProperties DEF ContextSound
    <2>4. Paired(prepared.history)
      BY <2>1, <2>2, <2>3, PairedBehind
    <2> QED
      BY <2>1, <2>3, <2>4, PairedJoined
  <1> QED
    BY Invariant, <1>1, PTL

(* window.py, shortened: the position a stub names is the place of the     *)
(* whole result in the store, and the turn's own results are whole.        *)
THEOREM StubsFound == Spec => []StubsPointHome
  <1>1. IInv => StubsPointHome
    <2> SUFFICES ASSUME IInv, Sending,
                        NEW i \in 1..Len(Request(prepared)), Request(prepared)[i].stub # 0
                 PROVE  /\ i <= Len(prepared.history)
                        /\ Request(prepared)[i].stub <= Len(stored)
                        /\ stored[Request(prepared)[i].stub] = Request(prepared)[i].message
      BY DEF StubsPointHome
    <2> DEFINE h == prepared.history
               k == prepared.through
               w == h \o turn
    <2>1. /\ stored \in Seq(Message) /\ turn \in Seq(Message) /\ ContextSound(prepared)
      BY DEF IInv, TypeOK, Sending, ContextsSound
    <2>2. k \in 0..Len(stored)
      BY <2>1, LenProperties DEF IInv, TypeOK, Context, ContextSound
    <2>3. /\ h \in Seq(Message) /\ Len(h) = Len(stored) - k /\ Len(stored) \in Nat
          /\ \A j \in 1..(Len(stored) - k) : h[j] = stored[k + j]
      <3>1. h = From(stored, k) /\ Len(stored) \in Nat
        BY <2>1, LenProperties DEF ContextSound
      <3> HIDE DEF h, k
      <3> QED
        BY <2>1, <2>2, <3>1, FromProperties
    <2>4. /\ Len(w) \in Nat /\ \A j \in 1..Len(h) : w[j] = h[j]
      BY <2>1, <2>3, Joined, LenProperties
    <2> DEFINE short == Shortened(w, KEEP_RESULTS, Len(h))
    <2>5. /\ Len(Request(prepared)) = Len(w)
          /\ Request(prepared)[i].stub = IF i \in short THEN k + i ELSE 0
          /\ Request(prepared)[i].message = w[i]
      <3> HIDE DEF w, h, k
      <3>1. Len(Request(prepared)) = Len(w)
        BY <2>4 DEF Request, Surface, w, h, k
      <3> QED
        BY <3>1 DEF Request, Surface, w, h, k
    <2>6. i \in short
      BY <2>5
    <2>7. i <= Len(h) /\ i \in 1..Len(w)
      BY <2>5, <2>6 DEF Shortened
    <2> HIDE DEF w, h, k, short
    <2>8. i \in 1..Len(h)
      BY <2>4, <2>7
    <2>9. k + i <= Len(stored) /\ stored[k + i] = w[i]
      BY <2>2, <2>3, <2>4, <2>8
    <2> QED
      BY <2>5, <2>6, <2>7, <2>9 DEF h
  <1> QED
    BY Invariant, <1>1, PTL

(* Context.surface: what a request shows of the media is within the budget, *)
(* in how many messages it stands.                                         *)
THEOREM MediaWithin == Spec => []MediaBounded
  <1>1. IInv => MediaBounded
    <2> DEFINE w == prepared.history \o turn
               short == Shortened(w, KEEP_RESULTS, Len(prepared.history))
               shown == [i \in 1..Len(w) |-> IF i \in short THEN 0 ELSE w[i].media]
               s == Request(prepared)
               kept == [i \in 1..Len(s) |-> s[i].media]
    <2> SUFFICES ASSUME IInv, Sending PROVE Total(kept, Len(s)) <= MEDIA_BUDGET
      BY DEF MediaBounded
    <2>1. stored \in Seq(Message) /\ turn \in Seq(Message) /\ ContextSound(prepared)
      BY DEF IInv, TypeOK, Sending, ContextsSound
    <2>2. prepared.through \in 0..Len(stored)
      BY <2>1, LenProperties DEF IInv, TypeOK, Context, ContextSound
    <2>3. prepared.history \in Seq(Message)
      BY <2>1, <2>2, FromProperties DEF ContextSound
    <2>4. w \in Seq(Message) /\ Len(w) \in Nat
      BY <2>1, <2>3, Joined, LenProperties
    <2> HIDE DEF w, short
    <2>5. \A i \in 1..Len(w) : w[i].media \in Nat
      BY <2>4, MessageFields DEF Message
    <2>6. /\ Len(shown) = Len(w) /\ \A i \in 1..Len(w) : shown[i] \in Nat
      BY <2>4, <2>5
    <2>7. Len(s) = Len(w) /\ \A i \in 1..Len(w) : s[i].media = MediaShown(shown, i)
      <3>1. s = [i \in 1..Len(w) |->
                   [message |-> w[i], stub |-> IF i \in short THEN prepared.through + i ELSE 0,
                    media |-> MediaShown(shown, i)]]
        BY DEF Request, Surface, w, short
      <3> HIDE DEF s, shown
      <3> QED
        BY <2>4, <3>1
    <2> HIDE DEF s, shown
    <2>8. \A i \in 1..Len(w) : kept[i] = MediaShown(shown, i)
      BY <2>7
    <2> HIDE DEF kept
    <2> QED
      BY <2>4, <2>6, <2>7, <2>8, MediaWithinBudget
  <1> QED
    BY Invariant, <1>1, PTL

(* Summary and records together, while leases hold. *)
THEOREM Accounted == Spec => []FoldsAccounted
  <1>1. SummaryAccounts /\ CompactionsAccount => FoldsAccounted
    BY DEF FoldsAccounted
  <1> QED
    BY SummaryAccounted, CompactionsAccounted, <1>1, PTL

(* Every message is in the summary, in the request or behind its stub. *)
THEOREM NothingLost == Spec => []NothingIsLost
  <1>1. RequestWhole /\ StubsPointHome => NothingIsLost
    BY DEF NothingIsLost
  <1> QED
    BY RequestsWhole, StubsFound, <1>1, PTL

(* What is sent is what the provider takes. *)
THEOREM RequestsAccepted == Spec => []ProviderAccepts
  <1>1. RequestPaired /\ MediaBounded => ProviderAccepts
    BY DEF ProviderAccepts
  <1> QED
    BY RequestsPaired, MediaWithin, <1>1, PTL
===============================================================================
