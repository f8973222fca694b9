--------------------------- MODULE LedgerSumProofs ---------------------------
(***************************************************************************)
(* What a change of the rows does to the total of a ledger, for ledgers of *)
(* any length.  Every proof goes by the least row at which the claim would *)
(* fail, which the well-foundedness of < on Nat provides.                  *)
(***************************************************************************)
EXTENDS LedgerSum, TLAPS, WellFoundedInduction

\* A set of numbers that is not empty has a least element: the principle the
\* sums are reasoned with.
LEMMA LeastElement ==
    ASSUME NEW T, T \subseteq Nat, T # {}
    PROVE  \E x \in T : \A y \in T : ~(y < x)
<1> DEFINE R == {z \in Nat \X Nat : z[1] < z[2]}
<1>1. IsWellFoundedOn(R, Nat)
  BY NatLessThanWellFounded DEF OpToRel
<1>2. PICK x \in T : \A y \in T : ~(<<y, x>> \in R)
  <2> HIDE DEF R
  <2> QED BY <1>1, WFMin
<1>3. QED BY <1>2

\* So has one that is bounded a greatest.
LEMMA GreatestElement ==
    ASSUME NEW n \in Nat, NEW T, T \subseteq 0..n, T # {}
    PROVE  \E x \in T : \A y \in T : y <= x
<1> DEFINE U == {n - x : x \in T}
<1>1. U \subseteq Nat /\ U # {}
  <2>1. \A x \in T : n - x \in Nat /\ n - x \in U
    OBVIOUS
  <2>2. U \subseteq Nat
    BY <2>1
  <2>3. \E x : x \in T
    OBVIOUS
  <2> QED BY <2>1, <2>2, <2>3
<1>2. PICK u \in U : \A v \in U : ~(v < u)
  <2> HIDE DEF U
  <2> QED BY <1>1, LeastElement
<1>3. PICK x \in T : u = n - x
  OBVIOUS
<1>4. ASSUME NEW y \in T PROVE y <= x
  <2>1. ~(n - y < n - x)
    BY <1>2, <1>3
  <2> QED BY <2>1
<1> QED BY <1>4

\* s is the running total of f: the balance after each row of the ledger.
SumsOf(s, f, n) == s = [k \in 0..n |-> IF k = 0 THEN 0 ELSE s[k - 1] + f[k]]

\* Every ledger has a running total.
LEMMA SumsExist ==
    ASSUME NEW n \in Nat, NEW f \in [1..n -> Int]
    PROVE  \E s \in [0..n -> Int] : SumsOf(s, f, n)
<1> DEFINE Sums(m) == \E s \in [0..m -> Int] : SumsOf(s, f, m)
           T == {m \in 0..n : ~Sums(m)}
<1> SUFFICES ASSUME ~Sums(n) PROVE FALSE
  OBVIOUS
<1>1. T \subseteq Nat /\ T # {}
  OBVIOUS
<1>2. PICK m \in T : \A y \in T : ~(y < m)
  <2> HIDE DEF T
  <2> QED BY <1>1, LeastElement
<1>3. m # 0
  <2> SUFFICES ASSUME m = 0 PROVE FALSE
    OBVIOUS
  <2>1. SumsOf([k \in 0..0 |-> 0], f, 0)
    BY DEF SumsOf
  <2>2. [k \in 0..0 |-> 0] \in [0..0 -> Int]
    OBVIOUS
  <2> QED BY <2>1, <2>2, <1>2
<1>4. m - 1 \in 0..n /\ m \in 1..n
  BY <1>3
<1>5. PICK s \in [0..(m - 1) -> Int] : SumsOf(s, f, m - 1)
  BY <1>2, <1>4
<1> DEFINE t == [k \in 0..m |-> IF k = m THEN s[m - 1] + f[m] ELSE s[k]]
<1>6. t \in [0..m -> Int]
  BY <1>4, <1>5
<1>7. \A k \in 0..m : t[k] = IF k = 0 THEN 0 ELSE t[k - 1] + f[k]
  <2> TAKE k \in 0..m
  <2>1. CASE k = m
    BY <2>1, <1>4
  <2>2. CASE k # m
    <3>1. k \in 0..(m - 1)
      BY <2>2, <1>4
    <3>2. s[k] = IF k = 0 THEN 0 ELSE s[k - 1] + f[k]
      BY <3>1, <1>5 DEF SumsOf
    <3> QED BY <3>1, <3>2, <2>2, <1>4
  <2> QED BY <2>1, <2>2
<1>8. SumsOf(t, f, m)
  <2> HIDE DEF t
  <2> QED BY <1>6, <1>7 DEF SumsOf
<1> QED BY <1>6, <1>8, <1>2

\* Total is the last value of the running total, which is a number throughout.
LEMMA TotalSums ==
    ASSUME NEW n \in Nat, NEW f \in [1..n -> Int]
    PROVE  \E s \in [0..n -> Int] : SumsOf(s, f, n) /\ Total(f, n) = s[n]
<1>1. PICK g \in [0..n -> Int] : SumsOf(g, f, n)
  BY SumsExist
<1> DEFINE s == CHOOSE h : SumsOf(h, f, n)
<1>2. SumsOf(s, f, n)
  BY <1>1
<1>3. Total(f, n) = s[n]
  BY DEF Total, SumsOf
<1>4. \A k \in 0..n : s[k] \in Int
  <2> DEFINE T == {k \in 0..n : s[k] \notin Int}
  <2> SUFFICES ASSUME T # {} PROVE FALSE
    OBVIOUS
  <2>1. PICK k \in T : \A y \in T : ~(y < k)
    <3>1. T \subseteq Nat
      OBVIOUS
    <3> HIDE DEF T
    <3> QED BY <3>1, LeastElement
  <2>2. s[k] = IF k = 0 THEN 0 ELSE s[k - 1] + f[k]
    <3> HIDE DEF s
    <3> QED BY <1>2 DEF SumsOf
  <2> HIDE DEF s
  <2>3. k # 0
    BY <2>1, <2>2
  <2>4. k \in 1..n /\ k - 1 \in 0..n
    BY <2>3
  <2> QED BY <2>1, <2>2, <2>4
<1>5. s \in [0..n -> Int]
  <2> HIDE DEF s
  <2> QED BY <1>2, <1>4 DEF SumsOf
<1> HIDE DEF s
<1> QED BY <1>2, <1>3, <1>5

\* The total of a ledger is an integer.
LEMMA TotalType ==
    ASSUME NEW n \in Nat, NEW f \in [1..n -> Int]
    PROVE  Total(f, n) \in Int
BY TotalSums

\* A row that is posted, changed or deleted moves the total by the change of its
\* amount: what each service does to the balance.
LEMMA TotalChange ==
    ASSUME NEW n \in Nat, NEW f \in [1..n -> Int], NEW g \in [1..n -> Int],
           NEW i \in 1..n, \A j \in 1..n : j # i => g[j] = f[j]
    PROVE  Total(g, n) = Total(f, n) + (g[i] - f[i])
<1>1. PICK s \in [0..n -> Int] : SumsOf(s, f, n) /\ Total(f, n) = s[n]
  BY TotalSums
<1>2. PICK t \in [0..n -> Int] : SumsOf(t, g, n) /\ Total(g, n) = t[n]
  BY TotalSums
<1> DEFINE d == g[i] - f[i]
           Grown(k) == IF k < i THEN s[k] ELSE s[k] + d
           T == {k \in 0..n : t[k] # Grown(k)}
<1>a. d \in Int /\ f[i] \in Int /\ g[i] = f[i] + d
  OBVIOUS
<1> SUFFICES ASSUME T # {} PROVE FALSE
  <2>1. n \in 0..n /\ ~(n < i)
    OBVIOUS
  <2>2. T = {} => t[n] = s[n] + d
    <3> HIDE DEF d
    <3> QED BY <2>1
  <2> QED BY <1>1, <1>2, <2>2
<1> HIDE DEF d
<1>3. PICK k \in T : \A y \in T : ~(y < k)
  <2>1. T \subseteq Nat
    OBVIOUS
  <2> HIDE DEF T
  <2> QED BY <2>1, LeastElement
<1>4. /\ s[k] = IF k = 0 THEN 0 ELSE s[k - 1] + f[k]
      /\ t[k] = IF k = 0 THEN 0 ELSE t[k - 1] + g[k]
  BY <1>1, <1>2 DEF SumsOf
<1>5. k # 0
  BY <1>3, <1>4
<1>6. k \in 1..n /\ k - 1 \in 0..n
  BY <1>5
<1>7. t[k - 1] = Grown(k - 1)
  <2>1. k - 1 \notin T
    <3> HIDE DEF T
    <3> QED BY <1>3, <1>6
  <2> HIDE DEF Grown
  <2> QED BY <1>6, <2>1
<1>8. s[k] = s[k - 1] + f[k] /\ t[k] = t[k - 1] + g[k] /\ t[k] # Grown(k)
  BY <1>3, <1>4, <1>5
<1>9. f[k] \in Int /\ g[k] \in Int /\ s[k - 1] \in Int
  BY <1>1, <1>6
<1>10. CASE k = i
  <2>1. g[k] = f[k] + d
    BY <1>10, <1>a
  <2> QED BY <1>a, <1>7, <1>8, <1>9, <1>10, <2>1
<1>11. CASE k # i
  <2>1. g[k] = f[k]
    BY <1>6, <1>11
  <2>2. k < i <=> k - 1 < i
    BY <1>6, <1>11
  <2>3. CASE k < i
    <3>1. t[k - 1] = s[k - 1] /\ t[k] # s[k]
      BY <1>7, <1>8, <2>2, <2>3
    <3> QED BY <1>8, <1>9, <2>1, <3>1
  <2>4. CASE ~(k < i)
    <3>1. t[k - 1] = s[k - 1] + d /\ t[k] # s[k] + d
      BY <1>7, <1>8, <2>2, <2>4
    <3>2. t[k] = (s[k - 1] + d) + f[k] /\ t[k] # (s[k - 1] + f[k]) + d
      BY <1>8, <2>1, <3>1
    <3>3. d \in Int
      BY <1>a
    <3> DEFINE a == s[k - 1]
               b == f[k]
    <3>4. a \in Int /\ b \in Int
      BY <1>9
    <3>5. t[k] = (a + d) + b /\ t[k] # (a + b) + d
      BY <3>2
    <3> HIDE DEF a, b
    <3>6. (a + d) + b = (a + b) + d
      BY <3>3, <3>4
    <3> QED BY <3>5, <3>6, Zenon
  <2> QED BY <2>3, <2>4
<1> QED BY <1>10, <1>11

\* The total of a ledger without rows is 0: the balance of a new company or
\* employee.
LEMMA TotalOfZeros ==
    ASSUME NEW n \in Nat, NEW f \in [1..n -> Int], \A j \in 1..n : f[j] = 0
    PROVE  Total(f, n) = 0
<1>1. PICK s \in [0..n -> Int] : SumsOf(s, f, n) /\ Total(f, n) = s[n]
  BY TotalSums
<1> DEFINE T == {k \in 0..n : s[k] # 0}
<1> SUFFICES ASSUME T # {} PROVE FALSE
  BY <1>1
<1>3. PICK k \in T : \A y \in T : ~(y < k)
  <2>1. T \subseteq Nat
    OBVIOUS
  <2> HIDE DEF T
  <2> QED BY <2>1, LeastElement
<1>4. s[k] = IF k = 0 THEN 0 ELSE s[k - 1] + f[k]
  BY <1>1 DEF SumsOf
<1>5. k # 0
  BY <1>3, <1>4
<1>6. k \in 1..n /\ k - 1 \in 0..n
  BY <1>5
<1> QED BY <1>3, <1>4, <1>6

\* The total of two ledgers read row by row is the sum of their totals: what the
\* sweep refunds is the total of what it deletes.
LEMMA TotalOfSums ==
    ASSUME NEW n \in Nat, NEW f \in [1..n -> Int], NEW g \in [1..n -> Int],
           NEW h \in [1..n -> Int], \A j \in 1..n : h[j] = f[j] + g[j]
    PROVE  Total(h, n) = Total(f, n) + Total(g, n)
<1>1. PICK s \in [0..n -> Int] : SumsOf(s, f, n) /\ Total(f, n) = s[n]
  BY TotalSums
<1>2. PICK t \in [0..n -> Int] : SumsOf(t, g, n) /\ Total(g, n) = t[n]
  BY TotalSums
<1>3. PICK u \in [0..n -> Int] : SumsOf(u, h, n) /\ Total(h, n) = u[n]
  BY TotalSums
<1> DEFINE T == {k \in 0..n : u[k] # s[k] + t[k]}
<1> SUFFICES ASSUME T # {} PROVE FALSE
  <2>1. n \in 0..n
    OBVIOUS
  <2>2. T = {} => u[n] = s[n] + t[n]
    BY <2>1
  <2> QED BY <1>1, <1>2, <1>3, <2>2
<1>4. PICK k \in T : \A y \in T : ~(y < k)
  <2>1. T \subseteq Nat
    OBVIOUS
  <2> HIDE DEF T
  <2> QED BY <2>1, LeastElement
<1>5. /\ s[k] = IF k = 0 THEN 0 ELSE s[k - 1] + f[k]
      /\ t[k] = IF k = 0 THEN 0 ELSE t[k - 1] + g[k]
      /\ u[k] = IF k = 0 THEN 0 ELSE u[k - 1] + h[k]
  BY <1>1, <1>2, <1>3 DEF SumsOf
<1>6. k # 0
  BY <1>4, <1>5
<1>7. k \in 1..n /\ k - 1 \in 0..n
  BY <1>6
<1>8. u[k - 1] = s[k - 1] + t[k - 1]
  <2>1. k - 1 \notin T
    <3> HIDE DEF T
    <3> QED BY <1>4, <1>7
  <2> QED BY <1>7, <2>1
<1>9. /\ f[k] \in Int /\ g[k] \in Int /\ s[k - 1] \in Int /\ t[k - 1] \in Int
      /\ h[k] = f[k] + g[k]
  BY <1>7
<1> DEFINE a == s[k - 1]
           b == t[k - 1]
           c == f[k]
           d == g[k]
<1>10. a \in Int /\ b \in Int /\ c \in Int /\ d \in Int
  BY <1>9
<1>11. s[k] = a + c /\ t[k] = b + d /\ u[k] = (a + b) + (c + d)
  BY <1>5, <1>6, <1>8, <1>9
<1> HIDE DEF a, b, c, d
<1>12. (a + b) + (c + d) = (a + c) + (b + d)
  BY <1>10
<1>13. u[k] = s[k] + t[k]
  BY <1>11, <1>12, Zenon
<1> QED BY <1>4, <1>13

\* A row posted at the end of the ledger adds its amount to the total.
LEMMA TotalNext ==
    ASSUME NEW n \in Nat, NEW f \in [1..n -> Int], NEW g \in [1..(n + 1) -> Int],
           \A j \in 1..n : g[j] = f[j]
    PROVE  Total(g, n + 1) = Total(f, n) + g[n + 1]
<1>1. PICK s \in [0..n -> Int] : SumsOf(s, f, n) /\ Total(f, n) = s[n]
  BY TotalSums
<1>2. PICK t \in [0..(n + 1) -> Int] : SumsOf(t, g, n + 1) /\ Total(g, n + 1) = t[n + 1]
  BY TotalSums
<1>s. \A k \in 0..n : s[k] = IF k = 0 THEN 0 ELSE s[k - 1] + f[k]
  BY <1>1 DEF SumsOf
<1>t. \A k \in 0..(n + 1) : t[k] = IF k = 0 THEN 0 ELSE t[k - 1] + g[k]
  BY <1>2 DEF SumsOf
<1>3. t[n] = s[n]
  <2> DEFINE T == {k \in 0..n : t[k] # s[k]}
  <2> SUFFICES ASSUME T # {} PROVE FALSE
    <3>1. n \in 0..n
      OBVIOUS
    <3>2. t[n] # s[n] => n \in T
      BY <3>1
    <3> QED BY <3>2
  <2>1. PICK k \in T : \A y \in T : ~(y < k)
    <3>1. T \subseteq Nat
      OBVIOUS
    <3> HIDE DEF T
    <3> QED BY <3>1, LeastElement
  <2>2. /\ s[k] = IF k = 0 THEN 0 ELSE s[k - 1] + f[k]
        /\ t[k] = IF k = 0 THEN 0 ELSE t[k - 1] + g[k]
    BY <1>s, <1>t
  <2>3. k # 0
    BY <2>1, <2>2
  <2>4. k \in 1..n /\ k - 1 \in 0..n
    BY <2>3
  <2>5. t[k - 1] = s[k - 1]
    <3>1. k - 1 \notin T
      <4> HIDE DEF T
      <4> QED BY <2>1, <2>4
    <3> QED BY <2>4, <3>1
  <2>6. g[k] = f[k]
    BY <2>4
  <2> QED BY <2>1, <2>2, <2>3, <2>5, <2>6
<1>4. t[n + 1] = t[n] + g[n + 1]
  BY <1>t
<1> QED BY <1>1, <1>2, <1>3, <1>4

\* A row taken out of the ledger, the rows behind it moving up, takes its amount
\* out of the total.
LEMMA TotalWithout ==
    ASSUME NEW n \in Nat, NEW f \in [1..(n + 1) -> Int], NEW g \in [1..n -> Int],
           NEW i \in 1..(n + 1), \A j \in 1..n : g[j] = IF j < i THEN f[j] ELSE f[j + 1]
    PROVE  Total(g, n) = Total(f, n + 1) - f[i]
<1>1. PICK s \in [0..(n + 1) -> Int] : SumsOf(s, f, n + 1) /\ Total(f, n + 1) = s[n + 1]
  BY TotalSums
<1>2. PICK t \in [0..n -> Int] : SumsOf(t, g, n) /\ Total(g, n) = t[n]
  BY TotalSums
<1> DEFINE d == f[i]
           Shrunk(k) == IF k < i THEN s[k] ELSE s[k + 1] - d
           T == {k \in 0..n : t[k] # Shrunk(k)}
<1>3. d \in Int
  OBVIOUS
<1>4. \A k \in 1..(n + 1) : s[k] = s[k - 1] + f[k] /\ s[k - 1] \in Int
  BY <1>1 DEF SumsOf
<1> SUFFICES ASSUME T # {} PROVE FALSE
  <2>1. n \in 0..n /\ n + 1 \in 1..(n + 1)
    OBVIOUS
  <2>2. T = {} => t[n] = Shrunk(n)
    BY <2>1
  <2>3. CASE n < i
    <3>1. i = n + 1
      BY <2>3
    <3>2. s[n + 1] = s[n] + f[n + 1] /\ s[n] \in Int
      BY <2>1, <1>4
    <3> QED BY <1>1, <1>2, <1>3, <2>2, <2>3, <3>1, <3>2
  <2>4. CASE ~(n < i)
    BY <1>1, <1>2, <2>2, <2>4
  <2> QED BY <2>3, <2>4
<1>5. PICK k \in T : \A y \in T : ~(y < k)
  <2>1. T \subseteq Nat
    OBVIOUS
  <2> HIDE DEF T
  <2> QED BY <2>1, LeastElement
<1>6. t[k] = IF k = 0 THEN 0 ELSE t[k - 1] + g[k]
  BY <1>2 DEF SumsOf
<1>7. k # 0
  <2>1. s[0] = 0
    BY <1>1 DEF SumsOf
  <2> QED BY <1>5, <1>6, <2>1
<1>8. k \in 1..n /\ k - 1 \in 0..n /\ t[k] # Shrunk(k)
  BY <1>5, <1>7
<1>9. t[k - 1] = Shrunk(k - 1)
  <2>1. k - 1 \notin T
    <3> HIDE DEF T
    <3> QED BY <1>5, <1>8
  <2> HIDE DEF Shrunk
  <2> QED BY <1>8, <2>1
<1>10. t[k] = t[k - 1] + g[k]
  BY <1>6, <1>7
<1> HIDE DEF d, T
<1>11. CASE k < i
  <2>1. t[k - 1] = s[k - 1] /\ t[k] # s[k] /\ g[k] = f[k]
    BY <1>8, <1>9, <1>11
  <2>2. s[k] = s[k - 1] + f[k]
    BY <1>4, <1>8
  <2> QED BY <1>10, <2>1, <2>2
<1>12. CASE k = i
  <2>1. t[k - 1] = s[k - 1] /\ t[k] # s[k + 1] - d /\ g[k] = f[k + 1]
    BY <1>8, <1>9, <1>12
  <2>2. s[k] = s[k - 1] + f[k] /\ s[k - 1] \in Int
    BY <1>4, <1>8
  <2>3. s[k + 1] = s[k] + f[k + 1] /\ f[k + 1] \in Int /\ f[k] = d
    BY <1>4, <1>8, <1>12 DEF d
  <2> DEFINE a == s[k - 1]
             b == f[k + 1]
  <2>4. a \in Int /\ b \in Int /\ t[k] = a + b /\ t[k] # ((a + d) + b) - d
    BY <1>10, <2>1, <2>2, <2>3
  <2> HIDE DEF a, b
  <2> QED BY <1>3, <2>4
<1>13. CASE k > i
  <2>1. t[k - 1] = s[k] - d /\ t[k] # s[k + 1] - d /\ g[k] = f[k + 1]
    BY <1>8, <1>9, <1>13
  <2> DEFINE l == k + 1
  <2>a. l \in 1..(n + 1) /\ k = l - 1
    BY <1>8
  <2>b. s[l] = s[l - 1] + f[l] /\ f[l] \in Int /\ s[l - 1] \in Int
    <3> HIDE DEF l
    <3> QED BY <1>4, <2>a
  <2>2. s[k + 1] = s[k] + f[k + 1] /\ f[k + 1] \in Int /\ s[k] \in Int
    BY <2>a, <2>b
  <2> DEFINE a == s[k]
             b == f[k + 1]
  <2>3. a \in Int /\ b \in Int /\ t[k] = (a - d) + b /\ t[k] # (a + b) - d
    BY <1>10, <2>1, <2>2
  <2> HIDE DEF a, b
  <2> QED BY <1>3, <2>3
<1> QED BY <1>8, <1>11, <1>12, <1>13

\* A ledger whose rows are none above those of another has no higher total.
LEMMA TotalMonotone ==
    ASSUME NEW n \in Nat, NEW f \in [1..n -> Int], NEW g \in [1..n -> Int],
           \A j \in 1..n : f[j] <= g[j]
    PROVE  Total(f, n) <= Total(g, n)
<1>1. PICK s \in [0..n -> Int] : SumsOf(s, f, n) /\ Total(f, n) = s[n]
  BY TotalSums
<1>2. PICK t \in [0..n -> Int] : SumsOf(t, g, n) /\ Total(g, n) = t[n]
  BY TotalSums
<1> DEFINE T == {k \in 0..n : ~(s[k] <= t[k])}
<1> SUFFICES ASSUME T # {} PROVE FALSE
  <2>1. n \in 0..n
    OBVIOUS
  <2> QED BY <1>1, <1>2, <2>1
<1>3. PICK k \in T : \A y \in T : ~(y < k)
  <2>1. T \subseteq Nat
    OBVIOUS
  <2> HIDE DEF T
  <2> QED BY <2>1, LeastElement
<1>4. /\ s[k] = IF k = 0 THEN 0 ELSE s[k - 1] + f[k]
      /\ t[k] = IF k = 0 THEN 0 ELSE t[k - 1] + g[k]
  BY <1>1, <1>2 DEF SumsOf
<1>5. k # 0
  BY <1>3, <1>4
<1>6. k \in 1..n /\ k - 1 \in 0..n /\ ~(s[k] <= t[k])
  BY <1>3, <1>5
<1>7. s[k - 1] <= t[k - 1]
  <2>1. k - 1 \notin T
    <3> HIDE DEF T
    <3> QED BY <1>3, <1>6
  <2> QED BY <1>6, <2>1
<1>8. /\ s[k - 1] \in Int /\ t[k - 1] \in Int /\ f[k] \in Int /\ g[k] \in Int
      /\ f[k] <= g[k]
  BY <1>6
<1> QED BY <1>4, <1>5, <1>6, <1>7, <1>8
=============================================================================
