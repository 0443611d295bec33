----------------------------- MODULE ViewportProofs -----------------------------
(***************************************************************************)
(* Theorems about the registry of clients and the order of their scenes,   *)
(* for every set of ids, objects and sensors and every bound of the clock. *)
(*                                                                         *)
(* The types are kept by any requests of any number of workers; the rest   *)
(* is proved of requests that do not overlap, whoever serves them, and of  *)
(* the UDP thread, which loads at any moment.                              *)
(***************************************************************************)
EXTENDS Viewport, OperatorLemmas, FiniteSetTheorems

\* A relation that orders a set: of two members exactly one comes before.
Orders(R, S) ==
    /\ \A x \in S : <<x, x>> \notin R
    /\ \A x, y, z \in S : <<x, y>> \in R /\ <<y, z>> \in R => <<x, z>> \in R
    /\ \A x, y \in S : x = y \/ <<x, y>> \in R \/ <<y, x>> \in R

\* InOrder lists a finite set: every member has a place, and they ascend.
LEMMA InOrderLists ==
    ASSUME NEW S, IsFiniteSet(S), NEW R, Orders(R, S)
    PROVE  /\ InOrder(S, R) \in [1..Cardinality(S) -> S]
           /\ \A x \in S : \E n \in 1..Cardinality(S) : InOrder(S, R)[n] = x
           /\ \A m, n \in 1..Cardinality(S) :
                 m < n => <<InOrder(S, R)[m], InOrder(S, R)[n]>> \in R
<1> DEFINE Below(x) == {y \in S : <<y, x>> \in R}
           f == [x \in S |-> Cardinality(Below(x))]
           c == Cardinality(S)
           D == 0..c - 1
<1>0. \A x, y \in S : x = y \/ <<x, y>> \in R \/ <<y, x>> \in R
  BY DEF Orders
<1>1. c \in Nat
  BY FS_CardinalityType
<1>2. \A x \in S : IsFiniteSet(Below(x)) /\ Cardinality(Below(x)) \in Nat
  <2> SUFFICES ASSUME NEW x \in S
               PROVE  IsFiniteSet(Below(x)) /\ Cardinality(Below(x)) \in Nat
    OBVIOUS
  <2>1. Below(x) \in SUBSET S
    OBVIOUS
  <2>2. IsFiniteSet(Below(x))
    BY <2>1, FS_Subset
  <2>. QED
    BY <2>2, FS_CardinalityType
<1>3. ASSUME NEW x \in S, NEW y \in S, <<x, y>> \in R
      PROVE  f[x] < f[y]
  <2>1. Below(x) \subseteq Below(y) /\ x \in Below(y) /\ x \notin Below(x)
    BY <1>3 DEF Orders
  <2>2. Below(x) \in SUBSET Below(y) /\ Below(x) # Below(y)
    BY <2>1
  <2> HIDE DEF Below
  <2>3. /\ Cardinality(Below(x)) <= Cardinality(Below(y))
        /\ Cardinality(Below(x)) # Cardinality(Below(y))
    BY <1>2, <2>2, FS_Subset
  <2>. QED
    BY <1>2, <2>3
<1>4. \A x \in S : f[x] \in D
  <2> SUFFICES ASSUME NEW x \in S PROVE f[x] \in D
    OBVIOUS
  <2>1. Below(x) \in SUBSET S /\ Below(x) # S
    BY DEF Orders
  <2> HIDE DEF Below
  <2>2. Cardinality(Below(x)) <= c /\ Cardinality(Below(x)) # c
    BY <2>1, FS_Subset
  <2>. QED
    BY <1>1, <1>2, <2>2
<1>5. f \in Injection(S, D)
  <2>1. f \in [S -> D]
    BY <1>4
  <2>2. ASSUME NEW x \in S, NEW y \in S, f[x] = f[y] PROVE x = y
    <3>1. f[x] \in Int /\ f[y] \in Int
      BY <1>4
    <3> HIDE DEF f, Below
    <3>2. ~(f[x] < f[y]) /\ ~(f[y] < f[x])
      BY <2>2, <3>1
    <3>3. <<x, y>> \notin R /\ <<y, x>> \notin R
      BY <1>3, <3>2
    <3>. QED
      BY <1>0, <3>3
  <2>3. DOMAIN f = S
    OBVIOUS
  <2> HIDE DEF f, D
  <2>. QED
    BY <2>1, <2>2, <2>3 DEF Injection, IsInjective
<1>6. f \in Surjection(S, D)
  <2>1. IsFiniteSet(D) /\ Cardinality(D) = c
    BY <1>1, FS_Interval, SMTT(30)
  <2> HIDE DEF f, D
  <2>. QED
    BY <1>5, <2>1, FS_Injection
<1>7. ASSUME NEW n \in 1..c
      PROVE  InOrder(S, R)[n] \in S /\ f[InOrder(S, R)[n]] = n - 1
  <2>1. n - 1 \in D
    BY <1>1
  <2>2. \E x \in S : f[x] = n - 1
    BY <1>6, <2>1 DEF Surjection
  <2>3. \E x \in S : Cardinality({y \in S : <<y, x>> \in R}) = n - 1
    BY <2>2
  <2>4. InOrder(S, R)[n] = CHOOSE x \in S : Cardinality({y \in S : <<y, x>> \in R}) = n - 1
    BY DEF InOrder
  <2>. QED
    BY <2>3, <2>4
<1>8. InOrder(S, R) \in [1..c -> S]
  BY <1>7 DEF InOrder
<1>9. ASSUME NEW x \in S PROVE \E n \in 1..c : InOrder(S, R)[n] = x
  <2> HIDE DEF f
  <2>1. PICK n \in 1..c : n - 1 = f[x]
    <3>1. f[x] \in D /\ f[x] + 1 \in 1..c /\ f[x] + 1 - 1 = f[x]
      BY <1>1, <1>4
    <3>. QED
      BY <3>1
  <2>2. InOrder(S, R)[n] \in S /\ f[InOrder(S, R)[n]] = f[x]
    BY <1>7, <2>1
  <2>. QED
    BY <1>5, <2>1, <2>2 DEF Injection, IsInjective
<1>10. ASSUME NEW m \in 1..c, NEW n \in 1..c, m < n
       PROVE  <<InOrder(S, R)[m], InOrder(S, R)[n]>> \in R
  <2> DEFINE x == InOrder(S, R)[m]
             y == InOrder(S, R)[n]
  <2>1. x \in S /\ y \in S /\ f[x] = m - 1 /\ f[y] = n - 1
    BY <1>7
  <2> HIDE DEF x, y, f
  <2>2. ~(f[y] < f[x]) /\ f[x] # f[y]
    BY <1>1, <1>10, <2>1
  <2>3. <<y, x>> \notin R
    BY <1>3, <2>1, <2>2
  <2>4. x # y
    BY <2>2
  <2>5. <<x, y>> \in R
    BY <1>0, <2>1, <2>3, <2>4
  <2>. QED
    BY <2>5 DEF x, y
<1>. QED
  BY <1>8, <1>9, <1>10

\* What erasing leaves are the elements outside T, in the order they had.
LEMMA ErasedLists ==
    ASSUME NEW X, NEW s \in Seq(X), NEW T
    PROVE  /\ Erased(s, T) \in Seq(X)
           /\ \A i \in DOMAIN Erased(s, T) :
                 \E k \in DOMAIN s : Erased(s, T)[i] = s[k] /\ s[k] \notin T
           /\ \A i, j \in DOMAIN Erased(s, T) : i < j =>
                 \E k, l \in DOMAIN s :
                     k < l /\ Erased(s, T)[i] = s[k] /\ Erased(s, T)[j] = s[l]
<1> DEFINE kept == {i \in DOMAIN s : s[i] \notin T}
           R == {p \in kept \X kept : p[1] < p[2]}
           at == InOrder(kept, R)
           n == Cardinality(kept)
<1>1. kept \subseteq 1..Len(s) /\ Len(s) \in Nat /\ DOMAIN s = 1..Len(s)
  OBVIOUS
<1>2. IsFiniteSet(kept)
  <2>1. IsFiniteSet(1..Len(s)) /\ kept \in SUBSET (1..Len(s))
    BY <1>1, FS_Interval
  <2>. QED
    BY <2>1, FS_Subset
<1>3. Orders(R, kept)
  <2>1. \A x, y \in kept : <<x, y>> \in R <=> x < y
    OBVIOUS
  <2>2. \A x \in kept : x \in Int
    BY <1>1
  <2> HIDE DEF kept, R
  <2>. QED
    BY <2>1, <2>2 DEF Orders
<1>4. /\ at \in [1..n -> kept]
      /\ \A i, j \in 1..n : i < j => <<at[i], at[j]>> \in R
  <2> HIDE DEF kept, R
  <2>. QED
    BY <1>2, <1>3, InOrderLists
<1>5. n \in Nat
  BY <1>2, FS_CardinalityType
<1>6. \A i, j \in 1..n : i < j => at[i] < at[j]
  <2>1. \A p \in R : p[1] < p[2]
    OBVIOUS
  <2> HIDE DEF kept, R, at
  <2> SUFFICES ASSUME NEW i \in 1..n, NEW j \in 1..n, i < j PROVE at[i] < at[j]
    OBVIOUS
  <2>2. <<at[i], at[j]>> \in R
    BY <1>4
  <2>. QED
    BY <2>1, <2>2
<1>7. Erased(s, T) = [k \in 1..n |-> s[at[k]]]
  BY <1>4 DEF Erased
<1>8. \A i \in 1..n : at[i] \in DOMAIN s /\ s[at[i]] \notin T /\ s[at[i]] \in X
  <2>1. \A i \in kept : i \in DOMAIN s /\ s[i] \notin T /\ s[i] \in X
    OBVIOUS
  <2> HIDE DEF kept, at
  <2>. QED
    BY <1>4, <2>1
<1> HIDE DEF kept, R, at, n
<1>9. Erased(s, T) \in Seq(X) /\ DOMAIN Erased(s, T) = 1..n
  <2>1. Erased(s, T) \in [1..n -> X]
    BY <1>7, <1>8
  <2>. QED
    BY <1>5, <2>1, SeqDef
<1>10. \A i \in 1..n : Erased(s, T)[i] = s[at[i]]
  BY <1>7
<1>. QED
  BY <1>6, <1>8, <1>9, <1>10

\* The pushes list every scene of a set with consecutive numbers, by stamp, and
\* once if no two have the same stamp.
Stamped(S, t) ==
    /\ t \in Seq(S \X Nat)
    /\ \A n \in DOMAIN t : t[n][2] = n
    /\ S = {t[n][1] : n \in DOMAIN t}
    /\ \A i, j \in DOMAIN t : i < j => first[t[i][1]] <= first[t[j][1]]
    /\ (\A r, s \in S : first[r] = first[s] => r = s) =>
          \A i, j \in DOMAIN t : t[i][1] = t[j][1] => i = j

\* The pushes: all scenes of the set and only those, numbered, by ascending
\* stamp, and each once if no two have the same stamp.
LEMMA ByStampLists ==
    ASSUME NEW S \in SUBSET Scenes, IsFiniteSet(S), NEW visited \in SetToSeqs(S),
           first \in [Scenes -> Nat],
           NEW t, t = ByStamp(visited)
    PROVE  Stamped(S, t)
<1> DEFINE D == 1..Cardinality(S)
           stamp(i) == first[visited[i]]
           pairs == {p \in (DOMAIN visited) \X (DOMAIN visited) : stamp(p[1]) = stamp(p[2])}
           R == {pq \in pairs \X pairs :
                   LET p == pq[1]
                       q == pq[2]
                   IN  \/ stamp(p[1]) < stamp(q[1])
                       \/ stamp(p[1]) = stamp(q[1]) /\ p[1] < q[1]
                       \/ p[1] = q[1] /\ p[2] < q[2]}
           u == InOrder(pairs, R)
           c == Cardinality(pairs)
<1>1. Cardinality(S) \in Nat
  BY FS_CardinalityType
<1>2. /\ visited \in [D -> S]
      /\ \A i, j \in D : visited[i] = visited[j] => i = j
  BY DEF SetToSeqs
<1>3. \A s \in S : \E i \in D : visited[i] = s
  <2>1. visited \in Injection(D, S)
    BY <1>2 DEF Injection, IsInjective
  <2>2. IsFiniteSet(D) /\ Cardinality(D) = Cardinality(S)
    BY <1>1, FS_Interval
  <2>3. visited \in Surjection(D, S)
    BY <2>1, <2>2, FS_Injection
  <2>. QED
    BY <2>3 DEF Surjection
<1>4. \A i \in D : stamp(i) \in Nat
  BY <1>2
<1>5. IsFiniteSet(pairs)
  <2>1. IsFiniteSet(D)
    BY <1>1, FS_Interval
  <2>2. IsFiniteSet(D \X D)
    BY <2>1, FS_Product
  <2>3. pairs \in SUBSET (D \X D)
    BY <1>2
  <2>. QED
    BY <2>2, <2>3, FS_Subset
<1>6. \A p \in pairs : p[1] \in D /\ p[2] \in D /\ stamp(p[1]) = stamp(p[2])
                       /\ p = <<p[1], p[2]>>
  BY <1>2
<1>7. \A p, q \in pairs : <<p, q>> \in R <=>
          \/ stamp(p[1]) < stamp(q[1])
          \/ stamp(p[1]) = stamp(q[1]) /\ p[1] < q[1]
          \/ p[1] = q[1] /\ p[2] < q[2]
  <2> HIDE DEF pairs, stamp
  <2>. QED
    OBVIOUS
<1>8. Orders(R, pairs)
  <2> HIDE DEF pairs, R, stamp
  <2>0. \A p \in pairs : p[1] \in Int /\ p[2] \in Int /\ stamp(p[1]) \in Int
    BY <1>4, <1>6
  <2>1. \A p \in pairs : <<p, p>> \notin R
    BY <1>7, <2>0
  <2>2. ASSUME NEW p \in pairs, NEW q \in pairs, NEW r \in pairs,
               <<p, q>> \in R, <<q, r>> \in R
        PROVE  <<p, r>> \in R
    BY <1>7, <2>0, <2>2
  <2>3. ASSUME NEW p \in pairs, NEW q \in pairs
        PROVE  p = q \/ <<p, q>> \in R \/ <<q, p>> \in R
    <3>1. CASE p[1] = q[1] /\ p[2] = q[2]
      BY <1>6, <3>1
    <3>2. CASE ~(p[1] = q[1] /\ p[2] = q[2])
      BY <1>7, <2>0, <3>2
    <3>. QED
      BY <3>1, <3>2
  <2>. QED
    BY <2>1, <2>2, <2>3 DEF Orders
<1>9. /\ u \in [1..c -> pairs]
      /\ \A p \in pairs : \E n \in 1..c : u[n] = p
      /\ \A m, n \in 1..c : m < n => <<u[m], u[n]>> \in R
  <2> HIDE DEF pairs, R
  <2>. QED
    BY <1>5, <1>8, InOrderLists
<1>10. c \in Nat
  BY <1>5, FS_CardinalityType
<1>11. t = [n \in 1..c |-> <<visited[u[n][2]], n>>]
  <2>1. DOMAIN u = 1..c
    BY <1>9
  <2>2. t = [n \in DOMAIN u |-> <<visited[u[n][2]], n>>]
    BY DEF ByStamp
  <2>. QED
    BY <2>1, <2>2
<1>12. \A p \in (DOMAIN visited) \X (DOMAIN visited) : stamp(p[1]) = stamp(p[2]) => p \in pairs
  OBVIOUS
<1>12a. DOMAIN visited = D
  BY <1>2
<1> HIDE DEF pairs, R, u, c
<1>13. /\ DOMAIN t = 1..c
       /\ \A n \in 1..c : /\ u[n] \in pairs
                          /\ t[n] = <<visited[u[n][2]], n>>
                          /\ visited[u[n][2]] \in S
  BY <1>2, <1>6, <1>9, <1>11
<1>14. t \in Seq(S \X Nat)
  <2>1. \A n \in 1..c : t[n] \in S \X Nat
    <3>1. \A n \in 1..c : n \in Nat
      BY <1>10
    <3>2. SUFFICES ASSUME NEW n \in 1..c PROVE t[n] \in S \X Nat
      OBVIOUS
    <3>3. t[n] = <<visited[u[n][2]], n>> /\ visited[u[n][2]] \in S
      BY <1>13
    <3>. QED
      BY <3>1, <3>3
  <2>2. t \in [1..c -> S \X Nat]
    BY <1>11, <2>1
  <2>. QED
    BY <1>10, <2>2, SeqDef
<1>15. \A n \in 1..c : first[t[n][1]] = stamp(u[n][1])
  BY <1>6, <1>13
<1>16. ASSUME NEW s \in S PROVE \E n \in 1..c : t[n][1] = s
  <2>1. PICK i \in D : visited[i] = s
    BY <1>3
  <2>2. <<i, i>> \in pairs
    BY <1>12, <1>12a
  <2>3. PICK n \in 1..c : u[n] = <<i, i>>
    BY <1>9, <2>2
  <2>. QED
    BY <1>13, <2>1, <2>3
<1>17. ASSUME NEW i \in 1..c, NEW j \in 1..c, i < j
       PROVE  first[t[i][1]] <= first[t[j][1]]
  <2>1. <<u[i], u[j]>> \in R /\ u[i] \in pairs /\ u[j] \in pairs
    BY <1>9, <1>17
  <2>2. u[i][1] \in D /\ u[j][1] \in D
    BY <1>6, <2>1
  <2>3. stamp(u[i][1]) \in Int /\ stamp(u[j][1]) \in Int
    BY <1>4, <2>2
  <2>4. \/ stamp(u[i][1]) < stamp(u[j][1])
        \/ stamp(u[i][1]) = stamp(u[j][1])
    <3> HIDE DEF stamp
    <3>1. \/ stamp(u[i][1]) < stamp(u[j][1])
          \/ stamp(u[i][1]) = stamp(u[j][1]) /\ u[i][1] < u[j][1]
          \/ u[i][1] = u[j][1] /\ u[i][2] < u[j][2]
      BY <1>7, <2>1
    <3>. QED
      BY <3>1
  <2>5. first[t[i][1]] = stamp(u[i][1]) /\ first[t[j][1]] = stamp(u[j][1])
    BY <1>15
  <2> HIDE DEF stamp
  <2>. QED
    BY <2>3, <2>4, <2>5
<1>18. ASSUME \A r, s \in S : first[r] = first[s] => r = s,
              NEW i \in 1..c, NEW j \in 1..c, t[i][1] = t[j][1]
       PROVE  i = j
  <2>1. \A n \in 1..c : u[n][1] = u[n][2]
    BY <1>2, <1>6, <1>13, <1>18
  <2>2. u[i] = u[j]
    <3>1. u[i][2] = u[j][2]
      BY <1>2, <1>6, <1>13, <1>18
    <3>. QED
      BY <1>6, <1>13, <2>1, <3>1
  <2>3. <<u[i], u[j]>> \notin R /\ <<u[j], u[i]>> \notin R
    BY <1>8, <1>13, <2>2 DEF Orders
  <2>4. ~(i < j) /\ ~(j < i)
    BY <1>9, <2>3
  <2>. QED
    BY <2>4
<1>19. \A n \in 1..c : t[n][2] = n
  BY <1>13
<1>20. DOMAIN t = 1..c
  BY <1>13
<1>21. S = {t[n][1] : n \in DOMAIN t}
  <2>1. \A n \in DOMAIN t : t[n] \in S \X Nat
    BY <1>14
  <2>2. \A n \in DOMAIN t : t[n][1] \in S
    BY <2>1
  <2>. QED
    BY <1>16, <1>20, <2>2
<1>. QED
  BY <1>14, <1>17, <1>18, <1>19, <1>20, <1>21 DEF Stamped

\* The list without the element at a place.
LEMMA RemoveAtLists ==
    ASSUME NEW X, NEW s \in Seq(X), NEW i \in 1..Len(s),
           NEW r, r = RemoveAt(s, i)
    PROVE  /\ r \in Seq(X)
           /\ Len(r) = Len(s) - 1
           /\ \A k \in 1..Len(s) - 1 : r[k] = IF k < i THEN s[k] ELSE s[k + 1]
<1> DEFINE a == SubSeq(s, 1, i - 1)
           b == SubSeq(s, i + 1, Len(s))
<1>0. i \in Int /\ Len(s) \in Nat /\ \A j \in 1..Len(s) : s[j] \in X
  OBVIOUS
<1>1. /\ a \in Seq(X) /\ Len(a) = i - 1
      /\ \A k \in 1..i - 1 : a[k] = s[k]
  <2>1. \A j \in 1..i - 1 : s[j] \in X
    BY <1>0
  <2>2. /\ a \in Seq(X)
        /\ Len(a) = IF 1 <= i - 1 THEN i - 1 - 1 + 1 ELSE 0
        /\ \A k \in 1..i - 1 - 1 + 1 : a[k] = s[1 + k - 1]
    BY <1>0, <2>1, SubSeqProperties
  <2>3. Len(a) = i - 1
    BY <1>0, <2>2
  <2>4. \A k \in 1..i - 1 : k \in 1..i - 1 - 1 + 1 /\ 1 + k - 1 = k
    BY <1>0
  <2>. QED
    BY <2>2, <2>3, <2>4
<1>2. /\ b \in Seq(X) /\ Len(b) = Len(s) - i
      /\ \A k \in 1..Len(s) - i : b[k] = s[i + k]
  <2>1. \A j \in i + 1..Len(s) : s[j] \in X
    BY <1>0
  <2>2. /\ b \in Seq(X)
        /\ Len(b) = IF i + 1 <= Len(s) THEN Len(s) - (i + 1) + 1 ELSE 0
        /\ \A k \in 1..Len(s) - (i + 1) + 1 : b[k] = s[i + 1 + k - 1]
    BY <1>0, <2>1, SubSeqProperties
  <2>3. Len(b) = Len(s) - i
    BY <1>0, <2>2
  <2>4. \A k \in 1..Len(s) - i : k \in 1..Len(s) - (i + 1) + 1 /\ i + 1 + k - 1 = i + k
    BY <1>0
  <2>. QED
    BY <2>2, <2>3, <2>4
<1>3. r = a \o b
  BY DEF RemoveAt
<1> HIDE DEF a, b
<1>4. /\ r \in Seq(X)
      /\ Len(r) = Len(a) + Len(b)
      /\ \A k \in 1..Len(a) + Len(b) : r[k] = IF k <= Len(a) THEN a[k] ELSE b[k - Len(a)]
  <2>1. a \in Seq(X) /\ b \in Seq(X)
    BY <1>1, <1>2
  <2>2. /\ a \o b \in Seq(X)
        /\ Len(a \o b) = Len(a) + Len(b)
        /\ \A k \in 1..Len(a) + Len(b) :
              (a \o b)[k] = IF k <= Len(a) THEN a[k] ELSE b[k - Len(a)]
    BY <2>1, ConcatProperties
  <2>. QED
    BY ONLY <1>3, <2>2
<1>5. ASSUME NEW k \in 1..Len(s) - 1
      PROVE  r[k] = IF k < i THEN s[k] ELSE s[k + 1]
  <2>1. k \in 1..Len(a) + Len(b)
    BY <1>0, <1>1, <1>2
  <2>2. CASE k < i
    <3>1. k <= Len(a) /\ k \in 1..i - 1
      BY <1>0, <1>1, <2>2
    <3>. QED
      BY <1>1, <1>4, <2>1, <2>2, <3>1
  <2>3. CASE ~(k < i)
    <3>1. ~(k <= Len(a)) /\ k - Len(a) \in 1..Len(s) - i /\ i + (k - Len(a)) = k + 1
      BY <1>0, <1>1, <2>3
    <3>. QED
      BY <1>2, <1>4, <2>1, <2>3, <3>1
  <2>. QED
    BY <2>2, <2>3
<1>. QED
  BY <1>0, <1>1, <1>2, <1>4, <1>5

\* The search for an id ends at the first client that has it.
LEMMA PositionMatches ==
    ASSUME NEW id, Matches(id) # {}, list \in Seq(Objects)
    PROVE  /\ Position(id) \in 1..Len(list)
           /\ idOf[list[Position(id)]] = id
           /\ At(id) = list[Position(id)] /\ At(id) \in Clients /\ At(id) \in Objects
<1>1. Matches(id) \subseteq Nat /\ Matches(id) \subseteq DOMAIN list
  BY DEF Matches
<1>2. \E i \in Matches(id) : \A j \in Matches(id) : i <= j
  BY <1>1, Least
<1>3. Position(id) \in Matches(id)
  BY <1>2 DEF Position
<1>4. Position(id) \in DOMAIN list /\ idOf[list[Position(id)]] = id
  BY <1>3 DEF Matches
<1>. QED
  BY <1>4 DEF At, Clients, Range

\* ClientsList::At finds only a client that has the id.
LEMMA NobodyAt == ASSUME list \in Seq(Objects), NEW id PROVE At(id) # None => Matches(id) # {}
BY DEF At

\* A scene in the order has a last place in it.
LEMMA LastPlaceIs ==
    ASSUME ordered \in Seq(Scenes), NEW s \in Range(ordered)
    PROVE  /\ LastPlace(s) \in DOMAIN ordered
           /\ ordered[LastPlace(s)] = s
           /\ \A j \in DOMAIN ordered : ordered[j] = s => j <= LastPlace(s)
<1> DEFINE T == {i \in DOMAIN ordered : ordered[i] = s}
<1>1. T \subseteq 0..Len(ordered) /\ T # {} /\ Len(ordered) \in Nat
  BY DEF Range
<1>2. \E i \in T : \A j \in T : j <= i
  <2> HIDE DEF T
  <2>. QED
    BY <1>1, MaxIsGreatest
<1>3. \E i \in DOMAIN ordered : ordered[i] = s /\ \A j \in DOMAIN ordered : ordered[j] = s => j <= i
  BY <1>2
<1>. QED
  BY <1>3 DEF LastPlace

-------------------------------------------------------------------------------
\* A request on a client holds an id.
HoldsId == \A w \in Workers :
    pc[w] \in {"append", "find", "purge", "delete", "erase"} => cid[w] \in Ids

TypeInv == TypeOK /\ HoldsId

\* Construction and destruction of scenes keep the types of what scenes have.
LEMMA ConstructTypes ==
    ASSUME TypeOK, NEW fresh, Construct(fresh)
    PROVE  /\ first' \in [Scenes -> 0..MaxTime]
           /\ ordering' \in [Scenes -> Nat]
           /\ left' \in [Scenes -> Scenes \cup {Null, Garbage}]
           /\ right' \in [Scenes -> Scenes \cup {Null, Garbage}]
<1>1. 0 \in 0..MaxTime
  BY ViewportAssumption
<1> DEFINE Pointers == Scenes \cup {Null, Garbage}
<1>2. /\ first \in [Scenes -> 0..MaxTime] /\ ordering \in [Scenes -> Nat]
      /\ left \in [Scenes -> Pointers] /\ right \in [Scenes -> Pointers]
      /\ Garbage \in Pointers
  BY DEF TypeOK
<1> HIDE DEF Pointers
<1>3. /\ first' \in [Scenes -> 0..MaxTime] /\ ordering' \in [Scenes -> Nat]
      /\ left' \in [Scenes -> Pointers] /\ right' \in [Scenes -> Pointers]
  BY <1>1, <1>2 DEF Construct, New
<1>. QED
  BY <1>3 DEF Pointers

\* The scenes of registered clients are scenes, and there are finitely many.
LEMMA RegisteredScenes ==
    ASSUME list \in Seq(Objects), sensors \in [Objects -> SUBSET Sensors]
    PROVE  Registered \subseteq Scenes
<1>1. \A c \in Clients : c \in Objects
  BY DEF Clients, Range
<1>2. \A c \in Objects : Owned(c) \subseteq Scenes
  BY DEF Owned, Scenes
<1>. QED
  BY <1>1, <1>2 DEF Registered

\* Only finitely many scenes can exist at a time.
LEMMA ScenesFinite == \A S \in SUBSET Scenes : IsFiniteSet(S)
<1>1. IsFiniteSet(Scenes)
  BY ViewportAssumption, FS_Product DEF Scenes
<1>. QED
  BY <1>1, FS_Subset

\* The constructors of the empty registry establish the types.
LEMMA ViewportInitTypes == Init => TypeInv
<1> SUFFICES ASSUME Init PROVE TypeInv
  OBVIOUS
<1>1. 0 \in 0..MaxTime
  BY ViewportAssumption
<1>2. ListTypeOK
  BY DEF Init, ListInit, ListTypeOK
<1>3. TypeOK
  BY <1>1, <1>2 DEF Init, TypeOK, WorkerPCs
<1>. QED
  BY <1>3 DEF Init, TypeInv, HoldsId

\* Failing changes nothing but the fault.
LEMMA FailKeepsTypes ==
    ASSUME TypeInv, NEW how \in {"undefined", "terminated"}, Fail(how)
    PROVE  TypeInv'
BY DEF TypeInv, TypeOK, ListTypeOK, HoldsId, Fail, clientVars, sceneVars, orderVars,
       workerVars, udpVars

\* The steps of a registration keep the types.
LEMMA RegisterTypes ==
    ASSUME TypeInv, NEW w \in Workers, BeginRegister(w) \/ Generate(w) \/ AddClient(w)
    PROVE  TypeInv'
<1> USE DEF TypeInv, TypeOK, ListTypeOK, HoldsId, clientVars, sceneVars, orderVars, udpVars,
            WorkerPCs
<1>1. CASE BeginRegister(w)
  BY <1>1 DEF BeginRegister, Goto
<1>2. CASE Generate(w)
  <2>1. pc' = [pc EXCEPT ![w] = "append"]
    BY <1>2 DEF Generate, GenerateNextClientId
  <2>2. \E id \in Ids : cid' = [cid EXCEPT ![w] = id]
    <3>1. avail # <<>> => Head(avail) \in Ids
      OBVIOUS
    <3>. QED
      BY <1>2, <3>1 DEF Generate, GenerateNextClientId
  <2>3. avail' \in Seq(Ids)
    <3>1. avail # <<>> => Tail(avail) \in Seq(Ids)
      OBVIOUS
    <3>. QED
      BY <1>2, <3>1 DEF Generate, GenerateNextClientId
  <2>4. UNCHANGED <<list, alive, idOf, slot, sensors, sceneVars, orderVars, todo, target,
                    udpVars, fault>>
    BY <1>2 DEF Generate, GenerateNextClientId
  <2>5. cid' \in [Workers -> Ids \cup {None}] /\ cid'[w] \in Ids
        /\ \A v \in Workers \ {w} : cid'[v] = cid[v] /\ pc'[v] = pc[v]
    BY <2>1, <2>2
  <2>. QED
    BY <2>1, <2>3, <2>4, <2>5
<1>3. CASE AddClient(w)
  <2>1. PICK c \in Objects : AppendClient(w, c)
    BY <1>3 DEF AddClient
  <2>2. list' \in Seq(Objects) /\ alive' \subseteq Objects
        /\ idOf' \in [Objects -> Ids \cup {None}]
    BY <2>1 DEF AppendClient
  <2>3. /\ cid' \in [Workers -> Ids \cup {None}] /\ pc' \in [Workers -> WorkerPCs]
        /\ \A v \in Workers \ {w} : cid'[v] = cid[v] /\ pc'[v] = pc[v]
        /\ pc'[w] = "idle"
    BY <2>1 DEF AppendClient
  <2>4. UNCHANGED <<avail, slot, sensors, sceneVars, orderVars, todo, target, udpVars, fault>>
    BY <1>3, <2>1 DEF AddClient, AppendClient
  <2>5. TypeOK'
    BY <2>2, <2>3, <2>4
  <2>6. HoldsId'
    <3>1. ASSUME NEW v \in Workers, pc'[v] \in {"append", "find", "purge", "delete", "erase"}
          PROVE  cid'[v] \in Ids
      <4>1. v # w
        BY <2>3, <3>1
      <4>2. cid'[v] = cid[v] /\ pc'[v] = pc[v]
        BY <2>3, <4>1
      <4>. QED
        BY <3>1, <4>2
    <3>. QED
      BY <3>1
  <2>. QED
    BY <2>5, <2>6
<1>. QED
  BY <1>1, <1>2, <1>3

\* The steps of a deregistration keep the types.
LEMMA DeregisterTypes ==
    ASSUME TypeInv, NEW w \in Workers,
           \/ \E id \in Ids : BeginDeregister(w, id)
           \/ FindClient(w) \/ PurgeScenes(w) \/ Delete(w) \/ Erase(w)
    PROVE  TypeInv'
<1> USE DEF TypeInv, TypeOK, ListTypeOK, HoldsId, clientVars, sceneVars, orderVars, udpVars,
            WorkerPCs
<1>1. ASSUME NEW id \in Ids, BeginDeregister(w, id) PROVE TypeInv'
  BY <1>1 DEF BeginDeregister, Goto
<1>2. CASE FindClient(w)
  <2>1. CASE Fail("undefined")
    BY <2>1, FailKeepsTypes
  <2>2. CASE ~Fail("undefined")
    <3>1. At(cid[w]) \in Objects
      BY <1>2, <2>2, NobodyAt, PositionMatches DEF FindClient
    <3>. QED
      BY <1>2, <2>2, <3>1 DEF FindClient
  <2>. QED
    BY <2>1, <2>2
<1>3. CASE PurgeScenes(w)
  <2>1. ordered' \in Seq(Scenes) /\ scenesSet' \subseteq Scenes
    BY <1>3, ErasedLists DEF PurgeScenes
  <2>. QED
    BY <1>3, <2>1 DEF PurgeScenes, Goto
<1>4. CASE Delete(w)
  <2>1. DeleteClient(w)
    BY <1>4 DEF Delete
  <2>2. alive' \subseteq Objects /\ slot' \in [Workers -> Nat]
    <3>1. CASE Matches(cid[w]) = {}
      BY <2>1, <3>1 DEF DeleteClient
    <3>2. CASE Matches(cid[w]) # {}
      <4>1. Position(cid[w]) \in Nat
        BY <3>2, PositionMatches
      <4>. QED
        BY <2>1, <3>2, <4>1 DEF DeleteClient
    <3>. QED
      BY <3>1, <3>2
  <2>3. /\ first' \in [Scenes -> 0..MaxTime]
        /\ ordering' \in [Scenes -> Nat]
        /\ left' \in [Scenes -> Scenes \cup {Null, Garbage}]
        /\ right' \in [Scenes -> Scenes \cup {Null, Garbage}]
    <3> DEFINE fresh == UNION {Owned(c) : c \in alive \ alive'}
    <3>1. Construct(fresh)
      BY <1>4 DEF Delete
    <3>2. TypeOK
      OBVIOUS
    <3> HIDE DEF fresh, TypeInv, TypeOK
    <3>. QED
      BY <3>1, <3>2, ConstructTypes
  <2>4. sensors' \in [Objects -> SUBSET Sensors]
    BY <1>4 DEF Delete
  <2>5. /\ pc[w] = "delete" /\ pc' = [pc EXCEPT ![w] = "erase"]
        /\ UNCHANGED <<list, avail, idOf, cid>>
    BY <2>1 DEF DeleteClient
  <2>6. UNCHANGED <<orderVars, todo, target, udpVars, fault>>
    BY <1>4 DEF Delete
  <2>. QED
    BY <2>2, <2>3, <2>4, <2>5, <2>6
<1>5. CASE Erase(w)
  <2>1. EraseClient(w)
    BY <1>5 DEF Erase
  <2>2. list' \in Seq(Objects)
    <3>1. slot[w] \in 1..Len(list)
      BY <2>1 DEF EraseClient
    <3>2. list' = RemoveAt(list, slot[w])
      BY <2>1 DEF EraseClient
    <3>. QED
      BY <3>1, <3>2, RemoveAtLists
  <2>3. avail' \in Seq(Ids)
    BY <2>1 DEF EraseClient
  <2>. QED
    BY <1>5, <2>1, <2>2, <2>3, SMTT(30) DEF Erase, EraseClient
<1>. QED
  BY <1>1, <1>2, <1>3, <1>4, <1>5

\* The registration of sensors keeps the types.
LEMMA SensorsTypes ==
    ASSUME TypeInv, NEW w \in Workers,
           \/ \E id \in Ids : BeginRegisterSensors(w, id)
           \/ \E given \in SUBSET Sensors : InitialSensorsList(w, given)
    PROVE  TypeInv'
<1> USE DEF TypeInv, TypeOK, ListTypeOK, HoldsId, clientVars, sceneVars, orderVars, udpVars,
            WorkerPCs
<1>1. ASSUME NEW id \in Ids, BeginRegisterSensors(w, id) PROVE TypeInv'
  <2>1. CASE Fail("undefined")
    BY <2>1, FailKeepsTypes
  <2>2. CASE ~Fail("undefined")
    <3>1. At(id) \in Objects
      BY <1>1, <2>2, NobodyAt, PositionMatches DEF BeginRegisterSensors
    <3>. QED
      BY <1>1, <2>2, <3>1 DEF BeginRegisterSensors
  <2>. QED
    BY <2>1, <2>2
<1>2. ASSUME NEW given \in SUBSET Sensors, InitialSensorsList(w, given) PROVE TypeInv'
  <2>1. /\ first' \in [Scenes -> 0..MaxTime]
        /\ ordering' \in [Scenes -> Nat]
        /\ left' \in [Scenes -> Scenes \cup {Null, Garbage}]
        /\ right' \in [Scenes -> Scenes \cup {Null, Garbage}]
    <3>1. Construct({target[w]} \X (given \ sensors[target[w]]))
      BY <1>2 DEF InitialSensorsList
    <3>2. TypeOK
      OBVIOUS
    <3> HIDE DEF TypeInv, TypeOK
    <3>. QED
      BY <3>1, <3>2, ConstructTypes
  <2>2. sensors' \in [Objects -> SUBSET Sensors]
    BY <1>2 DEF InitialSensorsList
  <2>. QED
    BY <1>2, <2>1, <2>2 DEF InitialSensorsList, Goto
<1>. QED
  BY <1>1, <1>2

\* The steps that compute the order keep the types.
LEMMA OrderTypes ==
    ASSUME TypeInv, NEW w \in Workers,
           \/ RefreshScenesSet(w) \/ GiveUpOrder(w) \/ ResetOrdering(w)
           \/ PushOrdered(w) \/ LinkNeighbours(w)
    PROVE  TypeInv'
<1> USE DEF TypeInv, TypeOK, ListTypeOK, HoldsId, clientVars, sceneVars, orderVars, udpVars,
            WorkerPCs
<1>1. CASE RefreshScenesSet(w)
  <2>1. CASE Fail("undefined")
    BY <2>1, FailKeepsTypes
  <2>2. CASE ~Fail("undefined")
    <3>1. Registered \subseteq Scenes
      BY RegisteredScenes
    <3>2. /\ pc' = [pc EXCEPT ![w] = "check"] /\ scenesSet' = Registered /\ ordered' = <<>>
          /\ pc[w] = "idle"
          /\ UNCHANGED <<clientVars, sensors, sceneVars, cid, slot, todo, target, udpVars, fault>>
      BY <1>1, <2>2 DEF RefreshScenesSet
    <3>3. ordered' \in Seq(Scenes) /\ scenesSet' \subseteq Scenes
      BY <3>1, <3>2
    <3>. QED
      BY <3>2, <3>3
  <2>. QED
    BY <2>1, <2>2
<1>2. CASE GiveUpOrder(w)
  BY <1>2 DEF GiveUpOrder, Goto
<1>3. CASE ResetOrdering(w)
  <2>1. PICK visited \in SetToSeqs(scenesSet) :
            todo' = [todo EXCEPT ![w] = ByStamp(visited)]
    BY <1>3 DEF ResetOrdering
  <2>2. ByStamp(visited) \in Seq(scenesSet \X Nat)
    <3>1. scenesSet \in SUBSET Scenes /\ IsFiniteSet(scenesSet)
      BY ScenesFinite
    <3>2. first \in [Scenes -> Nat]
      BY ViewportAssumption
    <3>. QED
      BY <3>1, <3>2, ByStampLists DEF Stamped
  <2>3. ByStamp(visited) \in Seq(Scenes \X Nat)
    BY <2>2
  <2>4. todo' \in [Workers -> Seq(Scenes \X Nat)]
    BY <2>1, <2>3
  <2>5. ordering' \in [Scenes -> Nat]
    BY <1>3 DEF ResetOrdering, New
  <2>. QED
    BY <1>3, <2>4, <2>5 DEF ResetOrdering, Goto
<1>4. CASE PushOrdered(w)
  <2>1. todo[w] \in Seq(Scenes \X Nat) /\ todo[w] # <<>>
    BY <1>4 DEF PushOrdered
  <2>2. Head(todo[w]) \in Scenes \X Nat /\ Tail(todo[w]) \in Seq(Scenes \X Nat)
    BY <2>1
  <2>3. ordering' \in [Scenes -> Nat] /\ ordered' \in Seq(Scenes)
    BY <1>4, <2>2, SMTT(30) DEF PushOrdered
  <2>4. todo' \in [Workers -> Seq(Scenes \X Nat)]
    BY <1>4, <2>2 DEF PushOrdered
  <2>. QED
    BY <1>4, <2>3, <2>4 DEF PushOrdered, Goto
<1>5. CASE LinkNeighbours(w)
  <2> DEFINE Pointers == Scenes \cup {Null, Garbage}
             linked == IF Len(ordered) > 1 THEN Range(ordered) ELSE {}
  <2>1. \A s \in linked : LastPlace(s) \in DOMAIN ordered
    BY LastPlaceIs
  <2>2. \A i \in DOMAIN ordered : Previous[i] \in Pointers /\ Following[i] \in Pointers
    <3>1. ASSUME NEW i \in DOMAIN ordered, i # 1 PROVE Previous[i] \in Scenes
      <4>1. i - 1 \in DOMAIN ordered
        BY <3>1
      <4>. QED
        BY <3>1, <4>1 DEF Previous
    <3>2. ASSUME NEW i \in DOMAIN ordered, i # Len(ordered) PROVE Following[i] \in Scenes
      <4>1. i + 1 \in DOMAIN ordered
        BY <3>2
      <4>. QED
        BY <3>2, <4>1 DEF Following
    <3>3. \A i \in DOMAIN ordered : (i = 1 => Previous[i] = Null)
                                  /\ (i = Len(ordered) => Following[i] = Null)
      BY DEF Previous, Following
    <3>. QED
      BY <3>1, <3>2, <3>3
  <2>3. \A s \in linked : Previous[LastPlace(s)] \in Pointers /\ Following[LastPlace(s)] \in Pointers
    BY <2>1, <2>2
  <2>4. /\ left' = [s \in Scenes |-> IF s \in linked THEN Previous[LastPlace(s)] ELSE left[s]]
        /\ right' = [s \in Scenes |-> IF s \in linked THEN Following[LastPlace(s)] ELSE right[s]]
    BY <1>5 DEF LinkNeighbours, Link
  <2>5. left \in [Scenes -> Pointers] /\ right \in [Scenes -> Pointers]
    OBVIOUS
  <2>6. left' \in [Scenes -> Pointers] /\ right' \in [Scenes -> Pointers]
    <3> HIDE DEF linked, Pointers
    <3>. QED
      BY <2>3, <2>4, <2>5
  <2>. QED
    BY <1>5, <2>6 DEF LinkNeighbours, Link, Goto
<1>. QED
  BY <1>1, <1>2, <1>3, <1>4, <1>5

\* The steps of the UDP thread keep the types.
LEMMA LoadTypes == ASSUME TypeInv, LoadSkeleton PROVE TypeInv'
<1> USE DEF TypeInv, TypeOK, ListTypeOK, HoldsId, clientVars, sceneVars, orderVars, udpVars,
            workerVars, WorkerPCs
<1>0. CASE Fail("undefined")
  BY <1>0, FailKeepsTypes
<1>1. ASSUME NEW id \in Ids, NEW sensor \in Sensors, FindSender(id, sensor),
             ~Fail("undefined")
      PROVE  TypeInv'
  <2>1. At(id) \in Objects
    BY <1>1, NobodyAt, PositionMatches DEF FindSender
  <2>2. uscene' \in Scenes
    BY <1>1, <2>1 DEF FindSender, Scenes
  <2>. QED
    BY <1>1, <2>2 DEF FindSender, UGoto
<1>2. CASE ExtractSensor /\ ~Fail("undefined")
  BY <1>2 DEF ExtractSensor, UGoto
<1>3. CASE UpdateScene /\ ~Fail("undefined")
  <2>1. Ticks \subseteq 0..MaxTime
    BY DEF Ticks
  <2>2. first' \in [Scenes -> 0..MaxTime]
    BY <1>3, <2>1 DEF UpdateScene
  <2>. QED
    BY <1>3, <2>2 DEF UpdateScene, UGoto
<1>. QED
  BY <1>0, <1>1, <1>2, <1>3 DEF LoadSkeleton

\* Every step of every thread keeps the types.
THEOREM ViewportStepTypes == TypeInv /\ [Next]_vars => TypeInv'
<1> SUFFICES ASSUME TypeInv, [Next]_vars PROVE TypeInv'
  OBVIOUS
<1>1. CASE UNCHANGED vars
  BY <1>1 DEF TypeInv, TypeOK, ListTypeOK, HoldsId, vars, clientVars, sceneVars, orderVars,
              workerVars, udpVars
<1>2. ASSUME NEW w \in Workers, Begins(w) PROVE TypeInv'
  BY <1>2, RegisterTypes, DeregisterTypes, SensorsTypes, OrderTypes DEF Begins
<1>3. ASSUME NEW w \in Workers, Continues(w) PROVE TypeInv'
  <2>1. CASE MeetDeleted(w)
    BY <2>1, FailKeepsTypes DEF MeetDeleted
  <2>. QED
    BY <1>3, <2>1, RegisterTypes, DeregisterTypes, SensorsTypes, OrderTypes DEF Continues
<1>4. CASE LoadSkeleton
  BY <1>4, LoadTypes
<1>5. CASE Race
  BY <1>5, FailKeepsTypes DEF Race
<1>6. CASE Stopped
  BY <1>1, <1>6 DEF Stopped
<1>. QED
  BY <1>1, <1>2, <1>3, <1>4, <1>5, <1>6 DEF Next

\* The type invariant of Viewport, with any number of workers.
THEOREM ViewportTypeCorrect == Spec => []TypeOK
<1>1. TypeInv => TypeOK
  BY DEF TypeInv
<1>. QED
  BY <1>1, ViewportInitTypes, ViewportStepTypes, PTL DEF Spec

-------------------------------------------------------------------------------
(***************************************************************************)
(* Requests that do not overlap, by any number of workers; the UDP thread  *)
(* loads at any moment.                                                    *)
(***************************************************************************)
Serial == \A v, w \in Workers : pc[v] # "idle" /\ pc[w] # "idle" => v = w

\* What a step of worker w may then rely on: the others rest, before and after.
Alone(w) == \A v \in Workers \ {w} : pc[v] = "idle" /\ pc'[v] = "idle"

\* Who is in the list is allocated, except a client about to be erased from
\* it, whose slot the worker has.  An id that is in hand is nowhere else.
ListInv ==
    /\ IdsUnique
    /\ alive = {c \in Clients :
                   \A w \in Workers : pc[w] = "erase" => c # list[slot[w]]}
    /\ \A w \in Workers :
          /\ pc[w] = "append" => cid[w] \notin Assigned \cup Range(avail)
          /\ pc[w] \in {"purge", "delete"} => Matches(cid[w]) # {}
          /\ pc[w] = "erase" =>
                slot[w] \in DOMAIN list /\ idOf[list[slot[w]]] = cid[w]
          /\ pc[w] = "purge" => target[w] = At(cid[w])
          /\ pc[w] = "sensors" => target[w] \in Clients

\* The order and the set hold scenes of allocated clients, and none of a client
\* that is about to be deleted.
AliveInv ==
    /\ Range(ordered) \cup scenesSet \subseteq Live
    /\ \A w \in Workers : pc[w] = "delete" =>
          \A s \in Range(ordered) \cup scenesSet : s[1] # At(cid[w])

\* What is ordered has been observed, and earlier scenes come first; and while
\* the order is computed, what is still to be pushed continues it.
Pending(w) == {todo[w][n][1] : n \in DOMAIN todo[w]}

SortedInv ==
    /\ \A s \in Range(ordered) : Observed(s)
    /\ \A i, j \in DOMAIN ordered : i < j => first[ordered[i]] <= first[ordered[j]]
    /\ \A w \in Workers : pc[w] = "push" =>
          /\ \A s \in Pending(w) : Observed(s)
          /\ \A m, n \in DOMAIN todo[w] :
                m < n => first[todo[w][m][1]] <= first[todo[w][n][1]]
          /\ \A i \in DOMAIN ordered, n \in DOMAIN todo[w] :
                first[ordered[i]] <= first[todo[w][n][1]]

\* Every registered scene is in the set while the order is computed, and ends
\* up in the order; twice only if another was first observed in the same tick.
Ties == \E s, t \in Registered : s # t /\ first[s] = first[t]

CoverInv == \A w \in Workers :
    /\ pc[w] \in {"check", "push"} => scenesSet = Registered
    /\ pc[w] = "check" => ordered = <<>>
    /\ pc[w] = "push" =>
          /\ Range(ordered) \cup Pending(w) = Registered
          /\ \/ Ties
             \/ /\ NoDuplicates(ordered)
                /\ \A m, n \in DOMAIN todo[w] : todo[w][m][1] = todo[w][n][1] => m = n
                /\ Range(ordered) \cap Pending(w) = {}

\* While the order is computed a scene's number is its last place in it; after
\* that, scenes with consecutive numbers are neighbours.
LinkInv ==
    /\ \A w \in Workers : pc[w] = "push" =>
          /\ \A n \in DOMAIN todo[w] : todo[w][n][2] = Len(ordered) + n
          /\ \A s \in Range(ordered) : ordering[s] = LastPlace(s)
    /\ (\A w \in Workers : pc[w] # "push") =>
          \A s, t \in Range(ordered) :
              ordering[t] = ordering[s] + 1 => left[t] = s /\ right[s] = t

-------------------------------------------------------------------------------
(***************************************************************************)
(* The registry.                                                           *)
(***************************************************************************)
\* ListInv, said of the only worker that executes a request.
ListOf(w) ==
    /\ IdsUnique
    /\ alive = IF pc[w] = "erase" THEN Clients \ {list[slot[w]]} ELSE Clients
    /\ pc[w] = "append" => cid[w] \notin Assigned \cup Range(avail)
    /\ pc[w] \in {"purge", "delete"} => Matches(cid[w]) # {}
    /\ pc[w] = "erase" => slot[w] \in DOMAIN list /\ idOf[list[slot[w]]] = cid[w]
    /\ pc[w] = "purge" => target[w] = At(cid[w])
    /\ pc[w] = "sensors" => target[w] \in Clients

\* While the others rest the list's invariant is the one of this worker.
LEMMA ListOfOnly ==
    ASSUME NEW w \in Workers, \A v \in Workers \ {w} : pc[v] = "idle"
    PROVE  ListInv <=> ListOf(w)
<1>1. {c \in Clients : \A v \in Workers : pc[v] = "erase" => c # list[slot[v]]}
      = IF pc[w] = "erase" THEN Clients \ {list[slot[w]]} ELSE Clients
  OBVIOUS
<1>. QED
  BY <1>1 DEF ListInv, ListOf

\* So it is after a step, if they rest then, too.
LEMMA ListOfOne ==
    ASSUME NEW w \in Workers, Alone(w)
    PROVE  (ListInv <=> ListOf(w)) /\ (ListInv' <=> ListOf(w)')
<1>1. {c \in Clients' : \A v \in Workers : pc'[v] = "erase" => c # list'[slot'[v]]}
      = IF pc'[w] = "erase" THEN Clients' \ {list'[slot'[w]]} ELSE Clients'
  BY DEF Alone
<1>2. ListInv' <=> ListOf(w)'
  BY <1>1 DEF ListInv, ListOf, Alone
<1>. QED
  BY <1>2, ListOfOnly DEF Alone

\* The searches for an id give the same as long as the list and the ids stay.
LEMMA SameList ==
    ASSUME UNCHANGED <<list, idOf>>
    PROVE  /\ Clients' = Clients /\ Assigned' = Assigned
           /\ \A id : Matches(id)' = Matches(id) /\ At(id)' = At(id)
<1>1. Clients' = Clients
  BY DEF Clients
<1>2. Assigned' = Assigned
  BY <1>1 DEF Assigned
<1>3. \A id : Matches(id)' = Matches(id)
  BY DEF Matches
<1>4. \A id : Position(id)' = Position(id)
  BY <1>3 DEF Position
<1>5. \A id : At(id)' = At(id)
  BY <1>3, <1>4 DEF At
<1>. QED
  BY <1>1, <1>2, <1>3, <1>5

\* With unique ids, the search for a client's id finds it.
LEMMA FoundAt ==
    ASSUME TypeInv, IdsUnique, NEW i \in DOMAIN list
    PROVE  At(idOf[list[i]]) = list[i] /\ Position(idOf[list[i]]) = i
<1>1. list \in Seq(Objects)
  BY DEF TypeInv, TypeOK, ListTypeOK
<1>2. Matches(idOf[list[i]]) # {}
  BY DEF Matches
<1>3. Position(idOf[list[i]]) = i
  <2>1. /\ Position(idOf[list[i]]) \in DOMAIN list
        /\ idOf[list[Position(idOf[list[i]])]] = idOf[list[i]]
    BY <1>1, <1>2, PositionMatches
  <2>. QED
    BY <2>1 DEF IdsUnique
<1>. QED
  BY <1>1, <1>2, <1>3, PositionMatches

\* No two places of the list hold the same client.
LEMMA ListedOnce ==
    ASSUME IdsUnique
    PROVE  \A i, j \in DOMAIN list : list[i] = list[j] => i = j
BY DEF IdsUnique

\* Nothing of the registry changes, and no worker is or gets where it has
\* anything of it in hand.
LEMMA QuietList ==
    ASSUME NEW w \in Workers, Alone(w), ListInv, UNCHANGED clientVars,
           pc[w] # "erase", pc'[w] \in {"idle", "generate", "find", "check", "push"}
    PROVE  ListInv'
<1>1. ListOf(w)
  BY ListOfOne
<1>2. UNCHANGED <<list, avail, alive, idOf>>
  BY DEF clientVars
<1>3. Clients' = Clients /\ Assigned' = Assigned
  BY <1>2, SameList
<1>4. IdsUnique'
  BY <1>1, <1>2, <1>3 DEF ListOf, IdsUnique, NoDuplicates
<1>5. alive' = Clients'
  BY <1>1, <1>2, <1>3 DEF ListOf
<1>6. ListOf(w)'
  BY <1>4, <1>5 DEF ListOf
<1>. QED
  BY <1>6, ListOfOne

\* A step that changes neither the registry nor the workers.
LEMMA IdleList ==
    ASSUME ListInv, UNCHANGED <<clientVars, pc, cid, slot, target>>
    PROVE  ListInv'
<1>1. UNCHANGED <<list, avail, alive, idOf>>
  BY DEF clientVars
<1>2. /\ Clients' = Clients /\ Assigned' = Assigned
      /\ \A id : Matches(id)' = Matches(id) /\ At(id)' = At(id)
  BY <1>1, SameList
<1>3. IdsUnique'
  BY <1>1, <1>2 DEF ListInv, IdsUnique, NoDuplicates
<1>4. alive' = {c \in Clients' : \A w \in Workers : pc'[w] = "erase" => c # list'[slot'[w]]}
  BY <1>1, <1>2 DEF ListInv
<1>. QED
  BY <1>1, <1>2, <1>3, <1>4 DEF ListInv

\* A generated id is assigned to nobody and waits for nobody.
LEMMA GenerateList ==
    ASSUME NEW w \in Workers, Alone(w), TypeInv, ListInv, Generate(w)
    PROVE  ListInv'
<1>1. ListOf(w)
  BY ListOfOne
<1>2. /\ pc[w] = "generate" /\ pc' = [pc EXCEPT ![w] = "append"]
      /\ UNCHANGED <<list, alive, idOf, slot, target>>
      /\ \/ /\ avail # <<>> /\ cid' = [cid EXCEPT ![w] = Head(avail)] /\ avail' = Tail(avail)
         \/ /\ avail = <<>> /\ UNCHANGED avail
            /\ \E id \in Ids \ Assigned : cid' = [cid EXCEPT ![w] = id]
  BY DEF Generate, GenerateNextClientId
<1>3. /\ pc \in [Workers -> WorkerPCs] /\ cid \in [Workers -> Ids \cup {None}]
      /\ avail \in Seq(Ids)
  BY DEF TypeInv, TypeOK, ListTypeOK
<1>4. pc'[w] = "append"
  BY <1>2, <1>3
<1>5. Clients' = Clients /\ Assigned' = Assigned
  BY <1>2, SameList
<1>6. NoDuplicates(avail) /\ Range(avail) \cap Assigned = {}
  BY <1>1 DEF ListOf, IdsUnique
<1>7. /\ NoDuplicates(avail') /\ Range(avail') \subseteq Range(avail)
      /\ cid'[w] \notin Assigned \cup Range(avail')
  <2>1. CASE avail # <<>>
    <3>1. /\ cid'[w] = avail[1] /\ avail' = Tail(avail)
          /\ Len(avail') = Len(avail) - 1 /\ Len(avail) >= 1
          /\ \A i \in DOMAIN avail' : i + 1 \in DOMAIN avail /\ avail'[i] = avail[i + 1]
      <4>1. cid' = [cid EXCEPT ![w] = avail[1]] /\ avail' = Tail(avail)
        BY <1>2, <1>3, <2>1
      <4>2. cid'[w] = avail[1]
        BY <1>3, <4>1
      <4>3. Len(avail') = Len(avail) - 1 /\ Len(avail) \in Nat \ {0}
        BY <1>3, <2>1, <4>1
      <4>4. DOMAIN avail = 1..Len(avail) /\ DOMAIN avail' = 1..Len(avail) - 1
            /\ \A i \in 1..Len(avail) - 1 : avail'[i] = avail[i + 1]
        BY <1>3, <2>1, <4>1
      <4>. QED
        BY <4>1, <4>2, <4>3, <4>4
    <3>2. NoDuplicates(avail')
      BY <1>3, <1>6, <3>1 DEF NoDuplicates
    <3>3. Range(avail') \subseteq Range(avail)
      BY <3>1 DEF Range
    <3>4. avail[1] \in Range(avail)
      BY <1>3, <3>1 DEF Range
    <3>5. avail[1] \notin Range(avail')
      <4>1. \A i \in DOMAIN avail' : avail[i + 1] # avail[1]
        BY <1>3, <1>6, <3>1 DEF NoDuplicates
      <4>. QED
        BY <3>1, <4>1 DEF Range
    <3>. QED
      BY <1>6, <3>1, <3>2, <3>3, <3>4, <3>5
  <2>2. CASE avail = <<>>
    <3>1. Range(avail') = {} /\ avail' = avail
      BY <1>2, <2>2 DEF Range
    <3>2. PICK i \in Ids \ Assigned : cid' = [cid EXCEPT ![w] = i]
      BY <1>2, <2>2
    <3>3. cid'[w] = i
      BY <1>3, <3>2
    <3>. QED
      BY <1>6, <3>1, <3>2, <3>3
  <2>. QED
    BY <2>1, <2>2
<1>8. IdsUnique'
  BY <1>1, <1>2, <1>5, <1>6, <1>7 DEF ListOf, IdsUnique
<1>9. alive' = Clients'
  BY <1>1, <1>2, <1>5 DEF ListOf
<1>10. ListOf(w)'
  BY <1>4, <1>5, <1>7, <1>8, <1>9 DEF ListOf
<1>. QED
  BY <1>10, ListOfOne

\* The new client gets an address and an id that no client has.
LEMMA AddList ==
    ASSUME NEW w \in Workers, Alone(w), TypeInv, ListInv, AddClient(w)
    PROVE  ListInv'
<1>1. ListOf(w)
  BY ListOfOne
<1>2. PICK c \in Objects : AppendClient(w, c)
  BY DEF AddClient
<1>3. /\ pc[w] = "append" /\ c \notin alive /\ alive' = alive \cup {c}
      /\ idOf' = [idOf EXCEPT ![c] = cid[w]] /\ list' = Append(list, c)
      /\ pc' = [pc EXCEPT ![w] = "idle"] /\ UNCHANGED avail
  BY <1>2 DEF AppendClient
<1>4. /\ pc \in [Workers -> WorkerPCs] /\ list \in Seq(Objects)
      /\ idOf \in [Objects -> Ids \cup {None}]
  BY DEF TypeInv, TypeOK, ListTypeOK
<1>5. pc'[w] = "idle"
  BY <1>3, <1>4
<1>6. /\ alive = Clients /\ cid[w] \notin Assigned \cup Range(avail)
      /\ \A i, j \in DOMAIN list : idOf[list[i]] = idOf[list[j]] => i = j
      /\ NoDuplicates(avail) /\ Range(avail) \cap Assigned = {}
  BY <1>1, <1>3 DEF ListOf, IdsUnique
<1>7. /\ DOMAIN list' = 1..Len(list) + 1 /\ list'[Len(list) + 1] = c
      /\ \A i \in DOMAIN list : list'[i] = list[i]
  BY <1>3, <1>4
<1>8. /\ \A i \in DOMAIN list : list[i] \in Clients /\ list[i] # c /\ list[i] \in Objects
      /\ \A i \in DOMAIN list : idOf[list[i]] \in Assigned
  BY <1>3, <1>4, <1>6 DEF Clients, Range, Assigned
<1>9. /\ idOf'[c] = cid[w]
      /\ \A i \in DOMAIN list : idOf'[list'[i]] = idOf[list[i]]
  BY <1>3, <1>4, <1>7, <1>8
<1>10. Clients' = Clients \cup {c}
  <2>1. DOMAIN list' = DOMAIN list \cup {Len(list) + 1}
    BY <1>4, <1>7
  <2>. QED
    BY <1>7, <2>1 DEF Clients, Range
<1>11. Assigned' = Assigned \cup {cid[w]}
  <2>1. \A d \in Clients : idOf'[d] = idOf[d]
    BY <1>7, <1>9 DEF Clients, Range
  <2>. QED
    BY <1>9, <1>10, <2>1 DEF Assigned
<1>12. \A i, j \in DOMAIN list' : idOf'[list'[i]] = idOf'[list'[j]] => i = j
  <2>1. ASSUME NEW i \in DOMAIN list' PROVE i \in DOMAIN list \/ i = Len(list) + 1
    BY <1>4, <1>7
  <2>2. \A i \in DOMAIN list : idOf'[list'[i]] # idOf'[list'[Len(list) + 1]]
    BY <1>6, <1>7, <1>8, <1>9
  <2>. QED
    BY <1>6, <1>9, <2>1, <2>2
<1>13. IdsUnique'
  BY <1>3, <1>6, <1>11, <1>12 DEF IdsUnique
<1>14. ListOf(w)'
  BY <1>3, <1>5, <1>6, <1>10, <1>13 DEF ListOf
<1>. QED
  BY <1>14, ListOfOne

\* A search that succeeds finds a client of the list, and leaves the list alone.
LEMMA FindList ==
    ASSUME NEW w \in Workers, Alone(w), TypeInv, ListInv, FindClient(w)
    PROVE  ListInv'
<1>1. CASE Fail("undefined")
  BY <1>1, IdleList DEF Fail, workerVars
<1>2. CASE ~Fail("undefined")
  <2>1. ListOf(w)
    BY ListOfOne
  <2>2. /\ pc[w] = "find" /\ At(cid[w]) # None
        /\ pc' = [pc EXCEPT ![w] = "purge"] /\ target' = [target EXCEPT ![w] = At(cid[w])]
        /\ UNCHANGED <<list, avail, alive, idOf, cid>>
    BY <1>2 DEF FindClient, clientVars
  <2>3. /\ pc \in [Workers -> WorkerPCs] /\ target \in [Workers -> Objects \cup {None}]
        /\ list \in Seq(Objects)
    BY DEF TypeInv, TypeOK, ListTypeOK
  <2>4. pc'[w] = "purge" /\ target'[w] = At(cid[w])
    BY <2>2, <2>3
  <2>5. Matches(cid[w]) # {}
    BY <2>2, <2>3, NobodyAt
  <2>6. /\ Clients' = Clients /\ Assigned' = Assigned
        /\ \A id : Matches(id)' = Matches(id) /\ At(id)' = At(id)
    BY <2>2, SameList
  <2>7. IdsUnique' /\ alive' = Clients'
    BY <2>1, <2>2, <2>6 DEF ListOf, IdsUnique
  <2>8. ListOf(w)'
    BY <2>2, <2>4, <2>5, <2>6, <2>7 DEF ListOf
  <2>. QED
    BY <2>8, ListOfOne
<1>. QED
  BY <1>1, <1>2

\* Purging the scenes of a client touches neither list nor ids.
LEMMA PurgeList ==
    ASSUME NEW w \in Workers, Alone(w), TypeInv, ListInv, PurgeScenes(w)
    PROVE  ListInv'
<1>1. ListOf(w)
  BY ListOfOne
<1>2. /\ pc[w] = "purge" /\ pc' = [pc EXCEPT ![w] = "delete"]
      /\ UNCHANGED <<list, avail, alive, idOf, cid>>
  BY DEF PurgeScenes, Goto, clientVars
<1>3. pc \in [Workers -> WorkerPCs]
  BY DEF TypeInv, TypeOK
<1>4. pc'[w] = "delete"
  BY <1>2, <1>3
<1>5. /\ Clients' = Clients /\ Assigned' = Assigned
      /\ \A id : Matches(id)' = Matches(id)
  BY <1>2, SameList
<1>6. IdsUnique' /\ alive' = Clients'
  BY <1>1, <1>2, <1>5 DEF ListOf, IdsUnique
<1>7. ListOf(w)'
  BY <1>1, <1>2, <1>4, <1>5, <1>6 DEF ListOf
<1>. QED
  BY <1>7, ListOfOne

\* The client with the id is deleted, and its slot is the one to erase.
LEMMA DeleteList ==
    ASSUME NEW w \in Workers, Alone(w), TypeInv, ListInv, Delete(w)
    PROVE  ListInv'
<1>1. ListOf(w)
  BY ListOfOne
<1>2. /\ pc[w] = "delete" /\ pc' = [pc EXCEPT ![w] = "erase"]
      /\ UNCHANGED <<list, avail, idOf, cid>>
      /\ Matches(cid[w]) # {} =>
            /\ slot' = [slot EXCEPT ![w] = Position(cid[w])]
            /\ alive' = alive \ {At(cid[w])}
  BY DEF Delete, DeleteClient
<1>3. /\ pc \in [Workers -> WorkerPCs] /\ slot \in [Workers -> Nat] /\ list \in Seq(Objects)
  BY DEF TypeInv, TypeOK, ListTypeOK
<1>4. Matches(cid[w]) # {} /\ alive = Clients
  BY <1>1, <1>2 DEF ListOf
<1>5. pc'[w] = "erase" /\ slot'[w] = Position(cid[w])
  BY <1>2, <1>3, <1>4
<1>6. /\ Position(cid[w]) \in DOMAIN list /\ idOf[list[Position(cid[w])]] = cid[w]
      /\ At(cid[w]) = list[Position(cid[w])]
  BY <1>3, <1>4, PositionMatches
<1>7. Clients' = Clients /\ Assigned' = Assigned
  BY <1>2, SameList
<1>8. IdsUnique'
  BY <1>1, <1>2, <1>7 DEF ListOf, IdsUnique
<1>9. alive' = Clients' \ {list'[slot'[w]]}
  BY <1>2, <1>4, <1>5, <1>6, <1>7
<1>10. slot'[w] \in DOMAIN list' /\ idOf'[list'[slot'[w]]] = cid'[w]
  BY <1>2, <1>5, <1>6
<1>11. ListOf(w)'
  BY <1>5, <1>8, <1>9, <1>10 DEF ListOf
<1>. QED
  BY <1>11, ListOfOne

\* The slot is erased and the id given back: nobody else has either.
LEMMA EraseList ==
    ASSUME NEW w \in Workers, Alone(w), TypeInv, ListInv, Erase(w)
    PROVE  ListInv'
<1>1. ListOf(w)
  BY ListOfOne
<1>2. /\ pc[w] = "erase" /\ pc' = [pc EXCEPT ![w] = "idle"]
      /\ list' = RemoveAt(list, slot[w]) /\ avail' = Append(avail, cid[w])
      /\ UNCHANGED <<alive, idOf>>
  BY DEF Erase, EraseClient
<1>3. /\ pc \in [Workers -> WorkerPCs] /\ list \in Seq(Objects) /\ avail \in Seq(Ids)
  BY DEF TypeInv, TypeOK, ListTypeOK
<1>4. pc'[w] = "idle"
  BY <1>2, <1>3
<1> DEFINE n == slot[w]
           gone == list[n]
<1>5. /\ n \in DOMAIN list /\ idOf[gone] = cid[w] /\ alive = Clients \ {gone}
      /\ \A i, j \in DOMAIN list : idOf[list[i]] = idOf[list[j]] => i = j
      /\ NoDuplicates(avail) /\ Range(avail) \cap Assigned = {}
  BY <1>1, <1>2 DEF ListOf, IdsUnique
<1>6. /\ n \in 1..Len(list) /\ Len(list) \in Nat
      /\ list' \in Seq(Objects) /\ DOMAIN list' = 1..Len(list) - 1
      /\ \A k \in 1..Len(list) - 1 : list'[k] = IF k < n THEN list[k] ELSE list[k + 1]
  <2>1. n \in 1..Len(list)
    BY <1>3, <1>5
  <2>. QED
    BY <1>2, <1>3, <2>1, RemoveAtLists
<1> HIDE DEF n
<1> DEFINE Old(k) == IF k < n THEN k ELSE k + 1
<1>7. /\ \A k \in DOMAIN list' : Old(k) \in DOMAIN list /\ Old(k) # n /\ list'[k] = list[Old(k)]
      /\ \A j, k \in DOMAIN list' : Old(j) = Old(k) => j = k
      /\ \A i \in DOMAIN list : i # n => \E k \in DOMAIN list' : Old(k) = i
  <2>1. \A k \in DOMAIN list' : Old(k) \in DOMAIN list /\ Old(k) # n /\ list'[k] = list[Old(k)]
    BY <1>3, <1>6
  <2>2. \A j, k \in DOMAIN list' : Old(j) = Old(k) => j = k
    BY <1>6
  <2>3. ASSUME NEW i \in DOMAIN list, i # n PROVE \E k \in DOMAIN list' : Old(k) = i
    <3>1. CASE i < n
      <4>1. i \in DOMAIN list' /\ Old(i) = i
        BY <1>3, <1>6, <2>3, <3>1
      <4>. QED
        BY <4>1
    <3>2. CASE ~(i < n)
      <4>1. i - 1 \in DOMAIN list' /\ Old(i - 1) = i
        BY <1>3, <1>6, <2>3, <3>2
      <4>. QED
        BY <4>1
    <3>. QED
      BY <3>1, <3>2
  <2>. QED
    BY <2>1, <2>2, <2>3
<1> HIDE DEF Old
<1>8. Clients' = Clients \ {gone}
  <2>1. \A i \in DOMAIN list : i # n => list[i] # gone
    BY <1>5
  <2>2. ASSUME NEW c \in Clients' PROVE c \in Clients \ {gone}
    <3>1. PICK k \in DOMAIN list' : c = list'[k]
      BY <2>2 DEF Clients, Range
    <3>2. c = list[Old(k)] /\ Old(k) \in DOMAIN list /\ Old(k) # n
      BY <1>7, <3>1
    <3>. QED
      BY <2>1, <3>2 DEF Clients, Range
  <2>3. ASSUME NEW c \in Clients \ {gone} PROVE c \in Clients'
    <3>1. PICK i \in DOMAIN list : c = list[i] /\ i # n
      BY <2>3 DEF Clients, Range
    <3>2. PICK k \in DOMAIN list' : Old(k) = i
      BY <1>7, <3>1
    <3>3. list'[k] = c
      BY <1>7, <3>1, <3>2
    <3>. QED
      BY <3>3 DEF Clients, Range
  <2>. QED
    BY <2>2, <2>3
<1>9. /\ Assigned' \subseteq Assigned /\ cid[w] \notin Assigned' /\ cid[w] \in Assigned
  <2>1. Assigned' = {idOf[c] : c \in Clients'}
    BY <1>2 DEF Assigned
  <2>2. \A c \in Clients \ {gone} : idOf[c] # idOf[gone]
    <3>1. ASSUME NEW c \in Clients \ {gone} PROVE idOf[c] # idOf[gone]
      <4>1. PICK i \in DOMAIN list : c = list[i] /\ i # n
        BY <3>1 DEF Clients, Range
      <4>. QED
        BY <1>5, <4>1
    <3>. QED
      BY <3>1
  <2>3. gone \in Clients
    BY <1>5 DEF Clients, Range
  <2>. QED
    BY <1>5, <1>8, <2>1, <2>2, <2>3 DEF Assigned
<1>10. /\ DOMAIN avail' = 1..Len(avail) + 1 /\ avail'[Len(avail) + 1] = cid[w]
       /\ \A i \in DOMAIN avail : avail'[i] = avail[i]
       /\ DOMAIN avail = 1..Len(avail) /\ Len(avail) \in Nat
  <2>1. cid[w] \in Ids
    BY <1>2 DEF TypeInv, HoldsId
  <2>. QED
    BY <1>2, <1>3, <2>1
<1>11. Range(avail') = Range(avail) \cup {cid[w]}
  <2>1. DOMAIN avail' = DOMAIN avail \cup {Len(avail) + 1}
    BY <1>10
  <2>. QED
    BY <1>10, <2>1 DEF Range
<1>12. NoDuplicates(avail')
  <2>1. \A i \in DOMAIN avail' : i \in DOMAIN avail \/ i = Len(avail) + 1
    BY <1>10
  <2>2. \A i \in DOMAIN avail : avail[i] # cid[w]
    BY <1>5, <1>9 DEF Range
  <2>. QED
    BY <1>5, <1>10, <2>1, <2>2 DEF NoDuplicates
<1>13. \A i, j \in DOMAIN list' : idOf'[list'[i]] = idOf'[list'[j]] => i = j
  BY <1>2, <1>5, <1>7
<1>14. IdsUnique'
  BY <1>5, <1>9, <1>11, <1>12, <1>13 DEF IdsUnique
<1>15. alive' = Clients'
  BY <1>2, <1>5, <1>8
<1>16. ListOf(w)'
  BY <1>4, <1>14, <1>15 DEF ListOf
<1>. QED
  BY <1>16, ListOfOne

\* The sensors of a client are registered while it is in the list.
LEMMA SensorsList ==
    ASSUME NEW w \in Workers, Alone(w), TypeInv, ListInv, NEW id \in Ids,
           BeginRegisterSensors(w, id)
    PROVE  ListInv'
<1>1. CASE Fail("undefined")
  BY <1>1, IdleList DEF Fail, workerVars
<1>2. CASE ~Fail("undefined")
  <2>1. ListOf(w)
    BY ListOfOne
  <2>2. /\ pc[w] = "idle" /\ At(id) # None
        /\ pc' = [pc EXCEPT ![w] = "sensors"] /\ target' = [target EXCEPT ![w] = At(id)]
        /\ UNCHANGED <<list, avail, alive, idOf>>
    BY <1>2 DEF BeginRegisterSensors, clientVars
  <2>3. /\ pc \in [Workers -> WorkerPCs] /\ target \in [Workers -> Objects \cup {None}]
        /\ list \in Seq(Objects)
    BY DEF TypeInv, TypeOK, ListTypeOK
  <2>4. pc'[w] = "sensors" /\ target'[w] \in Clients
    BY <2>2, <2>3, NobodyAt, PositionMatches
  <2>5. Clients' = Clients /\ Assigned' = Assigned
    BY <2>2, SameList
  <2>6. IdsUnique' /\ alive' = Clients'
    BY <2>1, <2>2, <2>5 DEF ListOf, IdsUnique
  <2>7. ListOf(w)'
    BY <2>4, <2>5, <2>6 DEF ListOf
  <2>. QED
    BY <2>7, ListOfOne
<1>. QED
  BY <1>1, <1>2

\* What the UDP thread does, and a failure, changes neither registry nor workers.
LEMMA LoadKeeps ==
    ASSUME LoadSkeleton \/ (\E how : Fail(how))
    PROVE  UNCHANGED <<clientVars, sensors, ordering, left, right, orderVars, workerVars>>
<1>1. \A how : Fail(how) =>
          UNCHANGED <<clientVars, sensors, ordering, left, right, orderVars, workerVars>>
  BY DEF Fail, sceneVars
<1>2. \A from, to : UGoto(from, to) =>
          UNCHANGED <<clientVars, sensors, ordering, left, right, orderVars, workerVars>>
  BY DEF UGoto
<1>3. LoadSkeleton => \/ \E how : Fail(how)
                      \/ \E from, to : UGoto(from, to)
  <2>1. ASSUME NEW id \in Ids, NEW sensor \in Sensors, FindSender(id, sensor)
        PROVE  (\E how : Fail(how)) \/ \E from, to : UGoto(from, to)
    BY <2>1 DEF FindSender
  <2>2. ExtractSensor => (\E how : Fail(how)) \/ \E from, to : UGoto(from, to)
    BY DEF ExtractSensor
  <2>3. UpdateScene => (\E how : Fail(how)) \/ \E from, to : UGoto(from, to)
    BY DEF UpdateScene
  <2>. QED
    BY <2>1, <2>2, <2>3 DEF LoadSkeleton
<1>. QED
  BY <1>1, <1>2, <1>3

\* The empty list satisfies the list's invariant.
LEMMA ListInitially == Init => ListInv
<1> SUFFICES ASSUME Init PROVE ListInv
  OBVIOUS
<1>1. /\ list = <<>> /\ avail = <<>> /\ alive = {} /\ \A w \in Workers : pc[w] = "idle"
  BY DEF Init, ListInit
<1>2. Clients = {} /\ Assigned = {} /\ Range(avail) = {}
  BY <1>1 DEF Clients, Assigned, Range
<1>. QED
  BY <1>1, <1>2 DEF ListInv, IdsUnique, NoDuplicates

\* If requests do not overlap, a worker that moves moves alone.
LEMMA MoverAlone ==
    ASSUME Serial, Serial', TypeInv, NEW w \in Workers, NEW to,
           pc' = [pc EXCEPT ![w] = to], pc[w] # "idle" \/ to # "idle"
    PROVE  Alone(w)
<1>1. pc'[w] = to /\ \A v \in Workers \ {w} : pc'[v] = pc[v]
  BY DEF TypeInv, TypeOK
<1>. QED
  BY <1>1 DEF Serial, Alone

\* A step of a request that does not fail is one of a worker that executes one,
\* so the others rest.
LEMMA StepAlone ==
    ASSUME Serial, Serial', TypeInv, NEW w \in Workers, Begins(w) \/ Continues(w),
           ~Fail("undefined")
    PROVE  Alone(w)
<1>1. ASSUME NEW to, pc' = [pc EXCEPT ![w] = to], pc[w] # "idle" \/ to # "idle"
      PROVE  Alone(w)
  BY <1>1, MoverAlone
<1>2. CASE Begins(w)
  BY <1>1, <1>2 DEF Begins, BeginRegister, BeginDeregister, BeginRegisterSensors,
     RefreshScenesSet, Goto
<1>3. CASE Generate(w) \/ AddClient(w) \/ FindClient(w) \/ PurgeScenes(w)
  BY <1>1, <1>3 DEF Generate, GenerateNextClientId, AddClient, AppendClient, FindClient,
     PurgeScenes, Goto
<1>4. CASE Delete(w) \/ Erase(w) \/ \E given \in SUBSET Sensors : InitialSensorsList(w, given)
  BY <1>1, <1>4 DEF Delete, DeleteClient, Erase, EraseClient, InitialSensorsList, Goto
<1>5. CASE GiveUpOrder(w) \/ ResetOrdering(w) \/ PushOrdered(w) \/ LinkNeighbours(w)
  BY <1>1, <1>5 DEF GiveUpOrder, ResetOrdering, PushOrdered, LinkNeighbours, Link, Goto
<1>. QED
  BY <1>2, <1>3, <1>4, <1>5 DEF Continues, MeetDeleted

\* Every step keeps the registry consistent.
LEMMA ListStep ==
    ASSUME Serial, Serial', TypeInv, ListInv, [Next]_vars
    PROVE  ListInv'
<1>1. CASE UNCHANGED vars
  BY <1>1, IdleList DEF vars, workerVars
<1>2. CASE LoadSkeleton \/ \E how : Fail(how)
  BY <1>2, LoadKeeps, IdleList DEF workerVars
<1>3. CASE Stopped \/ Race
  BY <1>1, <1>2, <1>3 DEF Stopped, Race
<1>4. pc \in [Workers -> WorkerPCs]
  BY DEF TypeInv, TypeOK
<1>5. ASSUME NEW w \in Workers, Begins(w), ~Fail("undefined") PROVE ListInv'
  <2>0. Alone(w)
    BY <1>5, StepAlone
  <2>1. CASE BeginRegister(w)
    BY <1>4, <2>0, <2>1, QuietList DEF BeginRegister, Goto
  <2>2. CASE \E id \in Ids : BeginDeregister(w, id)
    BY <1>4, <2>0, <2>2, QuietList DEF BeginDeregister, Goto
  <2>3. CASE \E id \in Ids : BeginRegisterSensors(w, id)
    BY <2>0, <2>3, SensorsList
  <2>4. CASE RefreshScenesSet(w)
    BY <1>4, <1>5, <2>0, <2>4, QuietList DEF RefreshScenesSet
  <2>. QED
    BY <1>5, <2>1, <2>2, <2>3, <2>4 DEF Begins
<1>6. ASSUME NEW w \in Workers, Continues(w), ~Fail("undefined") PROVE ListInv'
  <2>0. Alone(w)
    BY <1>6, StepAlone
  <2>1. CASE GiveUpOrder(w) \/ ResetOrdering(w) \/ PushOrdered(w) \/ LinkNeighbours(w)
    <3>1. /\ UNCHANGED clientVars
          /\ \E from, to \in {"check", "push", "idle"} : Goto(w, from, to)
      BY <2>1 DEF GiveUpOrder, ResetOrdering, PushOrdered, LinkNeighbours, Link
    <3>. QED
      BY <1>4, <2>0, <3>1, QuietList DEF Goto
  <2>2. CASE \E given \in SUBSET Sensors : InitialSensorsList(w, given)
    BY <1>4, <2>0, <2>2, QuietList DEF InitialSensorsList, Goto
  <2>. QED
    BY <1>6, <2>0, <2>1, <2>2, GenerateList, AddList, FindList, PurgeList, DeleteList,
       EraseList DEF Continues, MeetDeleted
<1>. QED
  BY <1>1, <1>2, <1>3, <1>5, <1>6 DEF Next

\* While requests do not overlap, however many workers there are, no two
\* registered clients have the same id, and an id waits
\* for reuse at most once and never while a client has it: GenerateNextClientId
\* (ClientsList.cpp:49-63) gives out no id twice, however clients come and go.
THEOREM IdsUniqueHolds == Spec /\ []Serial => []IdsUnique
<1>1. ListInv => IdsUnique
  BY DEF ListInv
<1>2. TypeInv /\ ListInv /\ Serial /\ Serial' /\ [Next]_vars => TypeInv' /\ ListInv'
  BY ViewportStepTypes, ListStep
<1>. QED
  BY <1>1, <1>2, ViewportInitTypes, ListInitially, PTL DEF Spec

-------------------------------------------------------------------------------
(***************************************************************************)
(* The order: what is in it is allocated, sorted, complete and linked.     *)
(***************************************************************************)
OrderInv == AliveInv /\ SortedInv /\ CoverInv /\ LinkInv

\* One list has what is left of the other, in the same order.
Thinned(t, s) ==
    /\ \A i \in DOMAIN t : \E k \in DOMAIN s : t[i] = s[k]
    /\ \A i, j \in DOMAIN t : i < j =>
          \E k, l \in DOMAIN s : k < l /\ t[i] = s[k] /\ t[j] = s[l]

\* A step outside the computation of the order: it may take scenes out of the
\* order, and changes nothing of those that stay.
Kept(w) ==
    /\ pc[w] # "push" /\ pc'[w] \notin {"check", "push"}
    /\ Thinned(ordered', ordered)
    /\ \A s \in Range(ordered) :
          /\ first'[s] = first[s] /\ ordering'[s] = ordering[s]
          /\ left'[s] = left[s] /\ right'[s] = right[s]

\* Unless a client is being erased, the scenes that exist are those registered.
LEMMA LiveRegistered ==
    ASSUME NEW w \in Workers, Alone(w), ListInv, pc[w] # "erase"
    PROVE  alive = Clients /\ Live = Registered
<1>1. alive = Clients
  BY ListOfOne DEF ListOf
<1>. QED
  BY <1>1 DEF Live, Registered

\* The living scenes are those of the sensors of living clients.
LEMMA LiveIs ==
    TypeInv => /\ \A s \in Live : s \in Scenes /\ s[1] \in alive /\ s[2] \in sensors[s[1]]
               /\ \A s \in Scenes : s[1] \in alive /\ s[2] \in sensors[s[1]] => s \in Live
<1> SUFFICES ASSUME TypeInv
             PROVE  /\ \A s \in Live : s \in Scenes /\ s[1] \in alive /\ s[2] \in sensors[s[1]]
                    /\ \A s \in Scenes :
                          s[1] \in alive /\ s[2] \in sensors[s[1]] => s \in Live
  OBVIOUS
<1>1. alive \subseteq Objects /\ sensors \in [Objects -> SUBSET Sensors]
  BY DEF TypeInv, TypeOK, ListTypeOK
<1>2. ASSUME NEW s \in Live
      PROVE  s \in Scenes /\ s[1] \in alive /\ s[2] \in sensors[s[1]]
  <2>1. PICK c \in alive : s \in {c} \X sensors[c]
    BY <1>2 DEF Live, Owned
  <2>2. s[1] = c /\ s[2] \in sensors[c] /\ s \in Objects \X Sensors
    BY <1>1, <2>1
  <2>. QED
    BY <2>2 DEF Scenes
<1>3. ASSUME NEW s \in Scenes, s[1] \in alive, s[2] \in sensors[s[1]]
      PROVE  s \in Live
  <2>1. s = <<s[1], s[2]>>
    BY DEF Scenes
  <2>2. s \in {s[1]} \X sensors[s[1]]
    BY <1>3, <2>1
  <2>. QED
    BY <1>3, <2>2 DEF Live, Owned
<1>. QED
  BY <1>2, <1>3

\* A sequence is a thinned form of itself.
LEMMA SameThinned == ASSUME NEW s PROVE Thinned(s, s)
BY DEF Thinned

\* A thinned sequence has no new elements.
LEMMA ThinnedRange == ASSUME NEW s, NEW t, Thinned(t, s) PROVE Range(t) \subseteq Range(s)
BY DEF Thinned, Range

\* What is not under construction keeps what it has.
LEMMA ConstructKeeps ==
    ASSUME NEW fresh, Construct(fresh), NEW s \in Scenes \ fresh
    PROVE  /\ first'[s] = first[s] /\ ordering'[s] = ordering[s]
           /\ left'[s] = left[s] /\ right'[s] = right[s]
BY DEF Construct, New

\* Deleting a client takes its scenes, and no others, out of those that exist.
LEMMA DeleteKeeps ==
    ASSUME NEW w \in Workers, Alone(w), TypeInv, ListInv, AliveInv, Delete(w)
    PROVE  /\ Range(ordered) \cup scenesSet \subseteq Live'
           /\ \A s \in Range(ordered) :
                 /\ first'[s] = first[s] /\ ordering'[s] = ordering[s]
                 /\ left'[s] = left[s] /\ right'[s] = right[s]
<1>1. /\ pc[w] = "delete" /\ alive' = alive \ {At(cid[w])} /\ Matches(cid[w]) # {}
      /\ sensors' = [c \in Objects |-> IF c \in alive \ alive' THEN {} ELSE sensors[c]]
      /\ Construct(UNION {Owned(c) : c \in alive \ alive'})
  BY ListOfOne DEF Delete, DeleteClient, ListOf
<1>2. \A s \in Range(ordered) \cup scenesSet :
          /\ s \in Scenes /\ s[1] \in alive /\ s[2] \in sensors[s[1]] /\ s[1] # At(cid[w])
  BY <1>1, LiveIs DEF AliveInv
<1>3. alive \subseteq Objects
  BY DEF TypeInv, TypeOK, ListTypeOK
<1>4. ASSUME NEW s \in Range(ordered) \cup scenesSet
      PROVE  s \in Live' /\ s \notin UNION {Owned(c) : c \in alive \ alive'}
  <2>1. s[1] \in alive' /\ s[2] \in sensors'[s[1]] /\ s = <<s[1], s[2]>>
    BY <1>1, <1>2, <1>3 DEF Scenes
  <2>2. s \in {s[1]} \X sensors'[s[1]]
    BY <2>1
  <2>3. s \in Live'
    BY <2>1, <2>2 DEF Live, Owned
  <2>4. \A c \in alive \ alive' : s \notin Owned(c)
    BY <2>1 DEF Owned
  <2>. QED
    BY <2>3, <2>4
<1>. QED
  BY <1>1, <1>2, <1>4, ConstructKeeps

\* A sensor's scene is constructed for a sensor the client did not have.
LEMMA SensorsKeep ==
    ASSUME TypeInv, AliveInv, NEW w \in Workers, NEW given \in SUBSET Sensors,
           InitialSensorsList(w, given)
    PROVE  /\ Live \subseteq Live'
           /\ \A s \in Range(ordered) :
                 /\ first'[s] = first[s] /\ ordering'[s] = ordering[s]
                 /\ left'[s] = left[s] /\ right'[s] = right[s]
<1> DEFINE c == target[w]
           fresh == {c} \X (given \ sensors[c])
<1>1. /\ c \in alive /\ sensors' = [sensors EXCEPT ![c] = @ \cup given]
      /\ Construct(fresh) /\ UNCHANGED alive
  BY DEF InitialSensorsList, clientVars
<1>2. sensors \in [Objects -> SUBSET Sensors] /\ alive \subseteq Objects
  BY DEF TypeInv, TypeOK, ListTypeOK
<1>3. \A d \in Objects : sensors[d] \subseteq sensors'[d]
  BY <1>1, <1>2
<1>4. Live \subseteq Live'
  <2>1. \A d \in alive : {d} \X sensors[d] \subseteq {d} \X sensors'[d]
    BY <1>2, <1>3
  <2>. QED
    BY <1>1, <2>1 DEF Live, Owned
<1>5. \A s \in Range(ordered) : s \in Scenes /\ s[2] \in sensors[s[1]]
  BY LiveIs DEF AliveInv
<1>6. \A s \in Range(ordered) : s \in Scenes \ fresh
  BY <1>5
<1> HIDE DEF fresh
<1>. QED
  BY <1>1, <1>4, <1>6, ConstructKeeps

\* The steps outside the computation of the order keep it.
LEMMA OutsideKeeps ==
    ASSUME NEW w \in Workers, Alone(w), TypeInv, ListInv, OrderInv,
           \/ BeginRegister(w) \/ Generate(w) \/ AddClient(w)
           \/ \E id \in Ids : BeginDeregister(w, id)
           \/ FindClient(w) /\ ~Fail("undefined")
           \/ PurgeScenes(w) \/ Delete(w) \/ Erase(w)
           \/ \E id \in Ids : BeginRegisterSensors(w, id) /\ ~Fail("undefined")
           \/ \E given \in SUBSET Sensors : InitialSensorsList(w, given)
           \/ GiveUpOrder(w)
    PROVE  Kept(w)
<1>0. pc \in [Workers -> WorkerPCs] /\ ordered \in Seq(Scenes)
  BY DEF TypeInv, TypeOK
<1>1. ASSUME UNCHANGED <<ordered, sceneVars>>,
             pc[w] # "push", pc'[w] \notin {"check", "push"}
      PROVE  Kept(w)
  BY <1>1, SameThinned DEF Kept, sceneVars
<1>2. ASSUME BeginRegister(w) \/ Generate(w) \/ AddClient(w) PROVE Kept(w)
  <2>1. UNCHANGED <<ordered, sceneVars>>
    BY <1>2 DEF BeginRegister, Generate, AddClient, orderVars
  <2>2. pc[w] # "push" /\ pc'[w] \notin {"check", "push"}
    BY <1>0, <1>2 DEF BeginRegister, Goto, Generate, GenerateNextClientId, AddClient, AppendClient
  <2>. QED
    BY <1>1, <2>1, <2>2
<1>3. ASSUME NEW id \in Ids, BeginDeregister(w, id) PROVE Kept(w)
  BY <1>0, <1>1, <1>3 DEF BeginDeregister, Goto, orderVars
<1>4. ASSUME FindClient(w), ~Fail("undefined") PROVE Kept(w)
  BY <1>0, <1>1, <1>4 DEF FindClient, orderVars
<1>5. ASSUME PurgeScenes(w) PROVE Kept(w)
  <2>1. /\ pc[w] = "purge" /\ pc' = [pc EXCEPT ![w] = "delete"]
        /\ ordered' = Erased(ordered, Owned(target[w])) /\ UNCHANGED sceneVars
    BY <1>5 DEF PurgeScenes, Goto
  <2>2. Thinned(ordered', ordered)
    <3> DEFINE T == Owned(target[w])
    <3>1. ordered' = Erased(ordered, T)
      BY <2>1
    <3> HIDE DEF T
    <3>. QED
      BY <1>0, <3>1, ErasedLists DEF Thinned
  <2>. QED
    BY <1>0, <2>1, <2>2 DEF Kept, sceneVars
<1>6. ASSUME Delete(w) PROVE Kept(w)
  <2>1. pc[w] = "delete" /\ pc' = [pc EXCEPT ![w] = "erase"] /\ UNCHANGED ordered
    BY <1>6 DEF Delete, DeleteClient, orderVars
  <2>. QED
    BY <1>0, <1>6, <2>1, SameThinned, DeleteKeeps DEF Kept, OrderInv
<1>7. ASSUME Erase(w) PROVE Kept(w)
  BY <1>0, <1>1, <1>7 DEF Erase, EraseClient, orderVars
<1>8. ASSUME NEW id \in Ids, BeginRegisterSensors(w, id), ~Fail("undefined") PROVE Kept(w)
  BY <1>0, <1>1, <1>8 DEF BeginRegisterSensors, orderVars
<1>9. ASSUME NEW given \in SUBSET Sensors, InitialSensorsList(w, given) PROVE Kept(w)
  <2>1. pc[w] = "sensors" /\ pc' = [pc EXCEPT ![w] = "idle"] /\ UNCHANGED ordered
    BY <1>9 DEF InitialSensorsList, Goto, orderVars
  <2>. QED
    BY <1>0, <1>9, <2>1, SameThinned, SensorsKeep DEF Kept, OrderInv
<1>10. ASSUME GiveUpOrder(w) PROVE Kept(w)
  BY <1>0, <1>1, <1>10 DEF GiveUpOrder, Goto, orderVars
<1>. QED
  BY <1>2, <1>3, <1>4, <1>5, <1>6, <1>7, <1>8, <1>9, <1>10

\* What is thinned out stays sorted and linked, and nothing is claimed of its
\* completeness.
LEMMA KeptOrder ==
    ASSUME NEW w \in Workers, Alone(w), OrderInv, Kept(w)
    PROVE  SortedInv' /\ CoverInv' /\ LinkInv'
<1>1. /\ pc[w] # "push" /\ pc'[w] \notin {"check", "push"}
      /\ Thinned(ordered', ordered)
      /\ \A s \in Range(ordered) :
            /\ first'[s] = first[s] /\ ordering'[s] = ordering[s]
            /\ left'[s] = left[s] /\ right'[s] = right[s]
  BY DEF Kept
<1>2. \A v \in Workers : v = w \/ (pc[v] = "idle" /\ pc'[v] = "idle")
  BY DEF Alone
<1>3. Range(ordered') \subseteq Range(ordered)
  BY <1>1, ThinnedRange
<1>4. SortedInv'
  <2>1. \A s \in Range(ordered') : Observed(s)'
    BY <1>1, <1>3 DEF OrderInv, SortedInv, Observed
  <2>2. ASSUME NEW i \in DOMAIN ordered', NEW j \in DOMAIN ordered', i < j
        PROVE  first'[ordered'[i]] <= first'[ordered'[j]]
    <3>1. PICK k \in DOMAIN ordered, l \in DOMAIN ordered :
              k < l /\ ordered'[i] = ordered[k] /\ ordered'[j] = ordered[l]
      BY <1>1, <2>2 DEF Thinned
    <3>2. first[ordered[k]] <= first[ordered[l]]
      BY <3>1 DEF OrderInv, SortedInv
    <3>3. first'[ordered[k]] = first[ordered[k]] /\ first'[ordered[l]] = first[ordered[l]]
      BY <1>1 DEF Range
    <3>. QED
      BY <3>1, <3>2, <3>3
  <2>. QED
    BY <1>1, <1>2, <2>1, <2>2 DEF SortedInv
<1>5. CoverInv'
  BY <1>1, <1>2 DEF CoverInv
<1>6. LinkInv'
  <2>1. \A s, t \in Range(ordered) : ordering[t] = ordering[s] + 1 => left[t] = s /\ right[s] = t
    BY <1>1, <1>2 DEF OrderInv, LinkInv
  <2>. QED
    BY <1>1, <1>2, <1>3, <2>1 DEF LinkInv
<1>. QED
  BY <1>4, <1>5, <1>6

\* What is ordered stays allocated: a client's scenes leave the order before the
\* client is deleted.
LEMMA KeptAlive ==
    ASSUME NEW w \in Workers, Alone(w), TypeInv, ListInv, OrderInv,
           \/ BeginRegister(w) \/ Generate(w) \/ AddClient(w)
           \/ \E id \in Ids : BeginDeregister(w, id)
           \/ FindClient(w) /\ ~Fail("undefined")
           \/ PurgeScenes(w) \/ Delete(w) \/ Erase(w)
           \/ \E id \in Ids : BeginRegisterSensors(w, id) /\ ~Fail("undefined")
           \/ \E given \in SUBSET Sensors : InitialSensorsList(w, given)
           \/ GiveUpOrder(w)
    PROVE  AliveInv'
<1>0. /\ pc \in [Workers -> WorkerPCs] /\ ordered \in Seq(Scenes)
      /\ \A v \in Workers : v = w \/ (pc[v] = "idle" /\ pc'[v] = "idle")
  BY DEF TypeInv, TypeOK, Alone
<1>1. Range(ordered) \cup scenesSet \subseteq Live
  BY DEF OrderInv, AliveInv
<1>2. ASSUME UNCHANGED <<ordered, scenesSet>>, Live \subseteq Live', pc'[w] # "delete"
      PROVE  AliveInv'
  BY <1>0, <1>1, <1>2 DEF AliveInv
<1>3. ASSUME UNCHANGED <<alive, sensors>> PROVE Live' = Live
  BY <1>3 DEF Live, Owned
<1>4. ASSUME BeginRegister(w) \/ (\E id \in Ids : BeginDeregister(w, id)) \/ GiveUpOrder(w)
      PROVE  AliveInv'
  <2>1. UNCHANGED <<alive, sensors, ordered, scenesSet>>
    BY <1>4 DEF BeginRegister, BeginDeregister, GiveUpOrder, clientVars, orderVars
  <2>2. pc'[w] # "delete"
    BY <1>0, <1>4 DEF BeginRegister, BeginDeregister, GiveUpOrder, Goto
  <2>. QED
    BY <1>2, <1>3, <2>1, <2>2
<1>5. ASSUME Generate(w) PROVE AliveInv'
  BY <1>0, <1>2, <1>3, <1>5 DEF Generate, GenerateNextClientId, orderVars
<1>6. ASSUME AddClient(w) PROVE AliveInv'
  <2>1. /\ pc' = [pc EXCEPT ![w] = "idle"] /\ UNCHANGED <<sensors, ordered, scenesSet>>
        /\ alive \subseteq alive'
    BY <1>6 DEF AddClient, AppendClient, orderVars
  <2>2. Live \subseteq Live'
    BY <2>1 DEF Live, Owned
  <2>. QED
    BY <1>0, <1>2, <2>1, <2>2
<1>7. ASSUME FindClient(w), ~Fail("undefined") PROVE AliveInv'
  BY <1>0, <1>2, <1>3, <1>7 DEF FindClient, clientVars, orderVars
<1>8. ASSUME PurgeScenes(w) PROVE AliveInv'
  <2> DEFINE T == Owned(target[w])
  <2>1. /\ pc[w] = "purge" /\ ordered' = Erased(ordered, T) /\ scenesSet' = scenesSet \ T
        /\ UNCHANGED <<list, alive, idOf, sensors, cid>>
    BY <1>8 DEF PurgeScenes, Goto, clientVars
  <2>2. Live' = Live /\ target[w] = At(cid[w]) /\ At(cid[w])' = At(cid[w])
    <3>1. target[w] = At(cid[w])
      BY <2>1, ListOfOne DEF ListOf
    <3>. QED
      BY <1>3, <2>1, <3>1, SameList
  <2>3. Range(ordered') \cup scenesSet' \subseteq (Range(ordered) \cup scenesSet) \ T
    <3> HIDE DEF T
    <3>1. \A i \in DOMAIN ordered' : \E k \in DOMAIN ordered : ordered'[i] = ordered[k] /\ ordered[k] \notin T
      BY <1>0, <2>1, ErasedLists
    <3>. QED
      BY <2>1, <3>1 DEF Range
  <2>4. ASSUME NEW s \in Range(ordered') \cup scenesSet' PROVE s \in Live /\ s[1] # target[w]
    <3>1. s \in Live /\ s \notin T
      BY <1>1, <2>3
    <3>2. s[2] \in sensors[s[1]] /\ s = <<s[1], s[2]>>
      BY <3>1, LiveIs DEF Scenes
    <3>. QED
      BY <3>1, <3>2 DEF Owned
  <2> HIDE DEF T
  <2>. QED
    BY <1>0, <2>2, <2>4 DEF AliveInv
<1>9. ASSUME Delete(w) PROVE AliveInv'
  <2>1. pc[w] = "delete" /\ pc' = [pc EXCEPT ![w] = "erase"] /\ UNCHANGED <<ordered, scenesSet>>
    BY <1>9 DEF Delete, DeleteClient, orderVars
  <2>2. Range(ordered) \cup scenesSet \subseteq Live'
    BY <1>9, DeleteKeeps DEF OrderInv
  <2>3. pc'[w] # "delete"
    BY <1>0, <2>1
  <2>. QED
    BY <1>0, <2>1, <2>2, <2>3 DEF AliveInv
<1>10. ASSUME Erase(w) PROVE AliveInv'
  BY <1>0, <1>2, <1>3, <1>10 DEF Erase, EraseClient, orderVars
<1>11. ASSUME NEW id \in Ids, BeginRegisterSensors(w, id), ~Fail("undefined") PROVE AliveInv'
  BY <1>0, <1>2, <1>3, <1>11 DEF BeginRegisterSensors, clientVars, orderVars
<1>12. ASSUME NEW given \in SUBSET Sensors, InitialSensorsList(w, given) PROVE AliveInv'
  <2>1. pc[w] = "sensors" /\ pc' = [pc EXCEPT ![w] = "idle"] /\ UNCHANGED <<ordered, scenesSet>>
    BY <1>12 DEF InitialSensorsList, Goto, orderVars
  <2>. QED
    BY <1>0, <1>2, <1>12, <2>1, SensorsKeep DEF OrderInv
<1>. QED
  BY <1>4, <1>5, <1>6, <1>7, <1>8, <1>9, <1>10, <1>11, <1>12

\* Refreshing the set empties the order.
LEMMA RefreshOrder ==
    ASSUME NEW w \in Workers, Alone(w), TypeInv, ListInv, OrderInv, RefreshScenesSet(w),
           ~Fail("undefined")
    PROVE  OrderInv'
<1>1. /\ pc[w] = "idle" /\ Clients \subseteq alive
      /\ pc' = [pc EXCEPT ![w] = "check"] /\ scenesSet' = Registered /\ ordered' = <<>>
      /\ UNCHANGED <<list, alive, sensors>>
  BY DEF RefreshScenesSet, clientVars
<1>2. pc \in [Workers -> WorkerPCs] /\ \A v \in Workers : v = w \/ (pc[v] = "idle" /\ pc'[v] = "idle")
  BY DEF TypeInv, TypeOK, Alone
<1>3. pc'[w] = "check" /\ DOMAIN ordered' = {} /\ Range(ordered') = {}
  BY <1>1, <1>2 DEF Range
<1>4. Registered' = Registered /\ Live' = Live
  BY <1>1 DEF Registered, Live, Owned, Clients
<1>5. Registered \subseteq Live
  BY <1>1 DEF Registered, Live
<1>6. AliveInv'
  BY <1>1, <1>2, <1>3, <1>4, <1>5 DEF AliveInv
<1>7. SortedInv'
  BY <1>2, <1>3 DEF SortedInv
<1>8. CoverInv'
  BY <1>1, <1>2, <1>3, <1>4 DEF CoverInv
<1>9. LinkInv'
  BY <1>2, <1>3 DEF LinkInv
<1>. QED
  BY <1>6, <1>7, <1>8, <1>9 DEF OrderInv

\* The pushes to make list every scene of the set, sorted by its stamp.
LEMMA ResetOrder ==
    ASSUME NEW w \in Workers, Alone(w), TypeInv, ListInv, OrderInv, ResetOrdering(w)
    PROVE  OrderInv'
<1>1. PICK visited \in SetToSeqs(scenesSet) : todo' = [todo EXCEPT ![w] = ByStamp(visited)]
  BY DEF ResetOrdering
<1>2. /\ pc[w] = "check" /\ pc' = [pc EXCEPT ![w] = "push"]
      /\ \A s \in scenesSet : Observed(s)
      /\ UNCHANGED <<list, alive, sensors, first, ordered, scenesSet>>
  BY DEF ResetOrdering, Goto, clientVars, orderVars
<1>3. /\ pc \in [Workers -> WorkerPCs] /\ \A v \in Workers : v = w \/ (pc[v] = "idle" /\ pc'[v] = "idle")
      /\ first \in [Scenes -> Nat] /\ scenesSet \in SUBSET Scenes /\ IsFiniteSet(scenesSet)
      /\ todo \in [Workers -> Seq(Scenes \X Nat)]
  BY ViewportAssumption, ScenesFinite DEF TypeInv, TypeOK, Alone
<1>4. ordered = <<>> /\ scenesSet = Registered
  BY <1>2 DEF OrderInv, CoverInv
<1>5. /\ pc'[w] = "push" /\ Registered' = Registered /\ Live' = Live
      /\ DOMAIN ordered' = {} /\ Range(ordered') = {} /\ Len(ordered') = 0
  BY <1>2, <1>3, <1>4 DEF Registered, Live, Owned, Clients, Range
<1>6. PICK t : t = ByStamp(visited)
  OBVIOUS
<1>7. todo'[w] = t
  BY <1>1, <1>3, <1>6
<1>8. /\ t \in Seq(scenesSet \X Nat)
      /\ \A n \in DOMAIN t : t[n][2] = n
      /\ scenesSet = {t[n][1] : n \in DOMAIN t}
      /\ \A i, j \in DOMAIN t : i < j => first[t[i][1]] <= first[t[j][1]]
      /\ (\A r, s \in scenesSet : first[r] = first[s] => r = s) =>
            \A i, j \in DOMAIN t : t[i][1] = t[j][1] => i = j
  <2>1. first \in [Scenes -> Nat] /\ scenesSet \in SUBSET Scenes /\ IsFiniteSet(scenesSet)
    BY <1>3
  <2>2. Stamped(scenesSet, t)
    BY <1>6, <2>1, ByStampLists
  <2>. QED
    BY ONLY <2>2 DEF Stamped
<1>9. \A n \in DOMAIN t : t[n][1] \in scenesSet
  BY <1>8
<1>10. Pending(w)' = scenesSet
  BY <1>7, <1>8, <1>9 DEF Pending
<1>11. AliveInv'
  BY <1>2, <1>3, <1>5 DEF OrderInv, AliveInv
<1>12. SortedInv'
  <2>1. \A s \in Pending(w)' : Observed(s)'
    BY <1>2, <1>10 DEF Observed
  <2>. QED
    BY <1>2, <1>3, <1>5, <1>7, <1>8, <2>1 DEF SortedInv
<1>13. CoverInv'
  <2>1. Ties' \/ \A m, n \in DOMAIN todo'[w] : todo'[w][m][1] = todo'[w][n][1] => m = n
    <3>1. CASE \A r, s \in scenesSet : first[r] = first[s] => r = s
      BY <1>7, <1>8, <3>1
    <3>2. CASE ~ \A r, s \in scenesSet : first[r] = first[s] => r = s
      BY <1>2, <1>4, <1>5, <3>2 DEF Ties
    <3>. QED
      BY <3>1, <3>2
  <2>2. NoDuplicates(ordered')
    BY <1>5 DEF NoDuplicates
  <2>3. scenesSet' = Registered' /\ Range(ordered') \cup Pending(w)' = Registered'
    BY <1>2, <1>4, <1>5, <1>10
  <2>. QED
    BY <1>3, <1>5, <2>1, <2>2, <2>3 DEF CoverInv
<1>14. LinkInv'
  <2>1. \A n \in DOMAIN todo'[w] : todo'[w][n][2] = Len(ordered') + n
    <3>1. \A n \in DOMAIN t : n \in Nat /\ t[n][2] = n
      BY <1>8
    <3>. QED
      BY <1>5, <1>7, <3>1
  <2>. QED
    BY <1>3, <1>5, <2>1 DEF LinkInv
<1>. QED
  BY <1>11, <1>12, <1>13, <1>14 DEF OrderInv

\* The last place of a scene in a list is the one after which it does not come.
LastIn(q, s) == CHOOSE i \in DOMAIN q : q[i] = s /\ \A j \in DOMAIN q : q[j] = s => j <= i

\* A position behind which an element does not occur again is its last one.
LEMMA LastInIs ==
    ASSUME NEW q \in Seq(Scenes), NEW i \in DOMAIN q,
           \A j \in DOMAIN q : j > i => q[j] # q[i]
    PROVE  LastIn(q, q[i]) = i
<1>1. i \in Int /\ \A j \in DOMAIN q : j \in Int
  OBVIOUS
<1>2. \A j \in DOMAIN q : q[j] = q[i] => j <= i
  BY <1>1
<1>3. ASSUME NEW k \in DOMAIN q, q[k] = q[i], \A j \in DOMAIN q : q[j] = q[i] => j <= k
      PROVE  k = i
  BY <1>1, <1>2, <1>3
<1>. QED
  BY <1>2, <1>3 DEF LastIn

\* LastPlace is LastIn of the order, before and after a step.
LEMMA LastPlaces ==
    \A s : LastPlace(s) = LastIn(ordered, s) /\ LastPlace(s)' = LastIn(ordered', s)
BY DEF LastPlace, LastIn

\* The tail of a list has its elements but the first, one place earlier.
LEMMA TailIs ==
    ASSUME NEW X, NEW t \in Seq(X), t # <<>>, NEW u, u = Tail(t)
    PROVE  /\ Len(t) \in Nat \ {0} /\ DOMAIN t = 1..Len(t)
           /\ DOMAIN u = 1..Len(t) - 1
           /\ \A m \in DOMAIN u : m + 1 \in DOMAIN t /\ m + 1 # 1 /\ u[m] = t[m + 1]
           /\ \A m \in DOMAIN t : m = 1 \/ (m - 1 \in DOMAIN u /\ u[m - 1] = t[m])
<1>1. Len(t) \in Nat \ {0} /\ DOMAIN t = 1..Len(t)
  OBVIOUS
<1>2. u \in Seq(X) /\ Len(u) = Len(t) - 1 /\ DOMAIN u = 1..Len(u)
  BY <1>1
<1>3. \A m \in 1..Len(t) - 1 : u[m] = t[m + 1]
  BY <1>1
<1>4. \A m \in 1..Len(t) - 1 : m + 1 \in 1..Len(t) /\ m + 1 # 1
  BY <1>1
<1>5. \A m \in 1..Len(t) : m = 1 \/ (m - 1 \in 1..Len(t) - 1 /\ m - 1 + 1 = m)
  BY <1>1
<1>6. \A m \in 1..Len(t) : m = 1 \/ (m - 1 \in 1..Len(t) - 1 /\ u[m - 1] = t[m])
  BY <1>3, <1>5
<1>7. DOMAIN u = 1..Len(t) - 1
  BY <1>2
<1>. QED
  BY ONLY <1>1, <1>3, <1>4, <1>6, <1>7

\* Pushing a scene gives it its new last place as number and no other a new one.
LEMMA PushOrder ==
    ASSUME NEW w \in Workers, Alone(w), TypeInv, OrderInv, PushOrdered(w)
    PROVE  OrderInv'
<1> DEFINE s == Head(todo[w])[1]
           n == Head(todo[w])[2]
<1>1. /\ pc[w] = "push" /\ pc' = [pc EXCEPT ![w] = "push"] /\ todo[w] # <<>>
      /\ ordering' = [ordering EXCEPT ![s] = n] /\ ordered' = Append(ordered, s)
      /\ todo' = [todo EXCEPT ![w] = Tail(@)]
      /\ UNCHANGED <<list, alive, sensors, first, scenesSet>>
  BY DEF PushOrdered, Goto, clientVars
<1>2. /\ pc \in [Workers -> WorkerPCs] /\ \A v \in Workers : v = w \/ (pc[v] = "idle" /\ pc'[v] = "idle")
      /\ first \in [Scenes -> Nat] /\ ordered \in Seq(Scenes) /\ ordering \in [Scenes -> Nat]
      /\ todo \in [Workers -> Seq(Scenes \X Nat)]
  BY ViewportAssumption DEF TypeInv, TypeOK, Alone
<1> DEFINE t == todo[w]
           c == Len(ordered)
<1>3. /\ t \in Seq(Scenes \X Nat) /\ t # <<>> /\ Len(t) \in Nat \ {0} /\ c \in Nat
      /\ DOMAIN t = 1..Len(t) /\ DOMAIN ordered = 1..c
  BY <1>1, <1>2
<1>4. /\ s = t[1][1] /\ n = t[1][2] /\ 1 \in DOMAIN t /\ s \in Scenes /\ n \in Nat
  <2>1. Head(t) = t[1] /\ t[1] \in Scenes \X Nat /\ 1 \in DOMAIN t
    BY <1>3
  <2>. QED
    BY <2>1
<1>5. todo'[w] = Tail(t)
  BY <1>1, <1>2
<1> DEFINE u == todo'[w]
<1>6. /\ DOMAIN ordered' = 1..c + 1 /\ ordered'[c + 1] = s /\ Len(ordered') = c + 1
      /\ \A i \in DOMAIN ordered : i \in DOMAIN ordered' /\ ordered'[i] = ordered[i] /\ i # c + 1
      /\ \A i \in DOMAIN ordered' : i \in DOMAIN ordered \/ i = c + 1
      /\ ordered' \in Seq(Scenes)
  <2>1. ordered \in Seq(Scenes) /\ s \in Scenes /\ ordered' = Append(ordered, s)
    BY <1>1, <1>2, <1>4
  <2>2. DOMAIN ordered = 1..c
    BY <1>3
  <2> HIDE DEF s
  <2>. QED
    BY <2>1, <2>2, AppendPlaces
<1>7. /\ DOMAIN u = 1..Len(t) - 1
      /\ \A m \in DOMAIN u : m + 1 \in DOMAIN t /\ m + 1 # 1 /\ u[m] = t[m + 1]
      /\ \A m \in DOMAIN t : m = 1 \/ (m - 1 \in DOMAIN u /\ u[m - 1] = t[m])
  <2>1. t \in Seq(Scenes \X Nat) /\ t # <<>> /\ u = Tail(t)
    BY <1>3, <1>5
  <2> HIDE DEF t, u
  <2>. QED
    BY <2>1, TailIs, SMTT(30)
<1> HIDE DEF s, n, t, u, c
<1>8. Range(ordered') = Range(ordered) \cup {s}
  <2>1. Range(ordered') \subseteq Range(ordered) \cup {s}
    BY <1>6 DEF Range
  <2>2. c + 1 \in DOMAIN ordered'
    BY <1>3, <1>6 DEF c
  <2>3. Range(ordered) \cup {s} \subseteq Range(ordered')
    BY <1>6, <2>2 DEF Range
  <2>. QED
    BY <2>1, <2>3
<1>9. Pending(w) = {t[m][1] : m \in DOMAIN t} /\ Pending(w)' = {u[m][1] : m \in DOMAIN u}
  BY DEF Pending, t, u
<1>10. Pending(w) = Pending(w)' \cup {s} /\ Pending(w)' \subseteq Pending(w)
  <2>1. Pending(w) \subseteq Pending(w)' \cup {s}
    BY <1>4, <1>7, <1>9
  <2>2. Pending(w)' \subseteq Pending(w)
    BY <1>7, <1>9
  <2>3. s \in Pending(w)
    BY <1>4, <1>9
  <2>. QED
    BY <2>1, <2>2, <2>3
<1>11. /\ pc'[w] = "push" /\ Registered' = Registered /\ Live' = Live
  BY <1>1, <1>2 DEF Registered, Live, Owned, Clients
<1>12. /\ scenesSet = Registered /\ Range(ordered) \cup Pending(w) = Registered
       /\ \/ Ties
          \/ /\ NoDuplicates(ordered)
             /\ \A i, j \in DOMAIN t : t[i][1] = t[j][1] => i = j
             /\ Range(ordered) \cap Pending(w) = {}
  BY <1>1 DEF OrderInv, CoverInv, t
<1>13. AliveInv'
  <2>1. s \in scenesSet /\ Range(ordered) \cup scenesSet \subseteq Live
    BY <1>10, <1>12 DEF OrderInv, AliveInv
  <2>. QED
    BY <1>1, <1>2, <1>8, <1>11, <2>1 DEF AliveInv
<1>14. SortedInv'
  <2>1. /\ \A r \in Range(ordered) \cup Pending(w) : Observed(r)
        /\ \A i, j \in DOMAIN ordered : i < j => first[ordered[i]] <= first[ordered[j]]
        /\ \A i, j \in DOMAIN t : i < j => first[t[i][1]] <= first[t[j][1]]
        /\ \A i \in DOMAIN ordered, j \in DOMAIN t : first[ordered[i]] <= first[t[j][1]]
    BY <1>1 DEF OrderInv, SortedInv, t
  <2>2. \A r \in Range(ordered') \cup Pending(w)' : Observed(r)'
    BY <1>1, <1>8, <1>10, <2>1 DEF Observed
  <2>3. ASSUME NEW i \in DOMAIN ordered', NEW j \in DOMAIN ordered', i < j
        PROVE  first[ordered'[i]] <= first[ordered'[j]]
    <3>1. i \in DOMAIN ordered
      BY <1>3, <1>6, <2>3 DEF c
    <3>2. CASE j \in DOMAIN ordered
      BY <1>6, <2>1, <2>3, <3>1, <3>2
    <3>3. CASE j = c + 1
      BY <1>4, <1>6, <2>1, <3>1, <3>3
    <3>. QED
      BY <1>6, <3>2, <3>3
  <2>4. ASSUME NEW i \in DOMAIN u, NEW j \in DOMAIN u, i < j
        PROVE  first[u[i][1]] <= first[u[j][1]]
    <3>1. i + 1 < j + 1
      BY <1>7, <2>4
    <3>. QED
      BY <1>7, <2>1, <3>1
  <2>5. ASSUME NEW i \in DOMAIN ordered', NEW j \in DOMAIN u
        PROVE  first[ordered'[i]] <= first[u[j][1]]
    <3>1. CASE i \in DOMAIN ordered
      BY <1>6, <1>7, <2>1, <3>1
    <3>2. CASE i = c + 1
      <4>1. 1 < j + 1
        BY <1>7
      <4>. QED
        BY <1>4, <1>6, <1>7, <2>1, <3>2, <4>1
    <3>. QED
      BY <1>6, <3>1, <3>2
  <2>. QED
    BY <1>1, <1>2, <1>11, <2>2, <2>3, <2>4, <2>5 DEF SortedInv, u
<1>15. CoverInv'
  <2>1. Ties' <=> Ties
    BY <1>1, <1>11 DEF Ties
  <2>2. CASE Ties
    BY <1>1, <1>2, <1>8, <1>10, <1>11, <1>12, <2>1, <2>2 DEF CoverInv
  <2>3. CASE ~Ties
    <3>1. NoDuplicates(ordered')
      <4>1. \A i \in DOMAIN ordered : ordered[i] # s
        BY <1>10, <1>12, <2>3 DEF Range
      <4>. QED
        BY <1>6, <1>12, <2>3, <4>1 DEF NoDuplicates
    <3>2. \A i, j \in DOMAIN u : u[i][1] = u[j][1] => i = j
      <4>1. \A i, j \in DOMAIN u : i + 1 = j + 1 => i = j
        BY <1>7
      <4>. QED
        BY <1>7, <1>12, <2>3, <4>1
    <3>3. s \notin Pending(w)'
      BY <1>4, <1>7, <1>9, <1>12, <2>3
    <3>4. Range(ordered') \cap Pending(w)' = {}
      BY <1>8, <1>10, <1>12, <2>3, <3>3
    <3>. QED
      <4>1. scenesSet' = Registered' /\ Range(ordered') \cup Pending(w)' = Registered'
        BY <1>1, <1>8, <1>10, <1>11, <1>12
      <4>2. \A i, j \in DOMAIN todo'[w] : todo'[w][i][1] = todo'[w][j][1] => i = j
        BY <3>2 DEF u
      <4>. QED
        BY ONLY <1>2, <1>11, <3>1, <3>4, <4>1, <4>2 DEF CoverInv
  <2>. QED
    BY <2>2, <2>3
<1>16. LinkInv'
  <2>1. /\ \A m \in DOMAIN t : t[m][2] = c + m
        /\ \A r \in Range(ordered) : ordering[r] = LastPlace(r)
    BY <1>1 DEF OrderInv, LinkInv, t, c
  <2>2. \A m \in DOMAIN u : u[m][2] = Len(ordered') + m
    <3>1. \A m \in DOMAIN u : m \in Int /\ c + (m + 1) = c + 1 + m
      BY <1>3, <1>7 DEF c
    <3>. QED
      BY <1>6, <1>7, <2>1, <3>1
  <2>3. n = c + 1
    BY <1>4, <2>1
  <2>4. ASSUME NEW r \in Range(ordered') PROVE ordering'[r] = LastPlace(r)'
    <3>1. CASE r = s
      <4>1. \A j \in DOMAIN ordered' : ~(j > c + 1)
        BY <1>3, <1>6 DEF c
      <4>2. c + 1 \in DOMAIN ordered'
        BY <1>3, <1>6 DEF c
      <4>3. LastIn(ordered', s) = c + 1
        BY <1>6, <4>1, <4>2, LastInIs
      <4>4. ordering'[s] = n
        BY <1>1, <1>2, <1>4
      <4>. QED
        BY <2>3, <3>1, <4>3, <4>4, LastPlaces
    <3>2. CASE r # s
      <4>1. r \in Range(ordered) /\ r \in Scenes
        <5>1. r \in Range(ordered)
          BY <1>8, <3>2
        <5>2. \A i \in DOMAIN ordered : ordered[i] \in Scenes
          BY <1>2
        <5>. QED
          BY <5>1, <5>2 DEF Range
      <4> DEFINE p == LastPlace(r)
      <4>2. /\ p \in DOMAIN ordered /\ ordered[p] = r
            /\ \A j \in DOMAIN ordered : ordered[j] = r => j <= p
        BY <1>2, <4>1, LastPlaceIs
      <4> HIDE DEF p
      <4>3. p \in DOMAIN ordered' /\ ordered'[p] = r
        BY <1>6, <4>2
      <4>4. \A j \in DOMAIN ordered' : j > p => ordered'[j] # r
        BY <1>3, <1>6, <3>2, <4>2 DEF c
      <4>5. LastIn(ordered', r) = p
        BY <1>6, <4>3, <4>4, LastInIs
      <4>6. ordering'[r] = ordering[r]
        BY <1>1, <1>2, <3>2, <4>1
      <4>. QED
        BY <2>1, <4>1, <4>5, <4>6, LastPlaces DEF p
    <3>. QED
      BY <3>1, <3>2
  <2>. QED
    BY <1>2, <1>11, <2>2, <2>4 DEF LinkInv, u
<1>. QED
  BY <1>13, <1>14, <1>15, <1>16 DEF OrderInv

\* Linking makes neighbours of the scenes with consecutive last places.
LEMMA LinkOrder ==
    ASSUME NEW w \in Workers, Alone(w), TypeInv, OrderInv, LinkNeighbours(w)
    PROVE  /\ OrderInv'
           /\ Range(ordered') = Registered
           /\ Ties \/ NoDuplicates(ordered')
<1> DEFINE linked == IF Len(ordered) > 1 THEN Range(ordered) ELSE {}
<1>1. /\ pc[w] = "push" /\ pc' = [pc EXCEPT ![w] = "idle"] /\ todo[w] = <<>>
      /\ left' = [s \in Scenes |-> IF s \in linked THEN Previous[LastPlace(s)] ELSE left[s]]
      /\ right' = [s \in Scenes |-> IF s \in linked THEN Following[LastPlace(s)] ELSE right[s]]
      /\ scenesSet' = {}
      /\ UNCHANGED <<list, alive, sensors, first, ordering, ordered>>
  BY DEF LinkNeighbours, Link, Goto, clientVars
<1>2. /\ pc \in [Workers -> WorkerPCs] /\ \A v \in Workers : v = w \/ (pc[v] = "idle" /\ pc'[v] = "idle")
      /\ ordered \in Seq(Scenes) /\ ordering \in [Scenes -> Nat]
  BY DEF TypeInv, TypeOK, Alone
<1>3. pc'[w] = "idle" /\ Live' = Live
  BY <1>1, <1>2 DEF Live, Owned
<1>4. Pending(w) = {}
  BY <1>1 DEF Pending
<1>5. Range(ordered') = Registered /\ (Ties \/ NoDuplicates(ordered'))
  BY <1>1, <1>4 DEF OrderInv, CoverInv
<1>6. AliveInv'
  BY <1>1, <1>2, <1>3 DEF OrderInv, AliveInv
<1>7. SortedInv'
  <2>1. \A s \in Range(ordered) : Observed(s) /\ Observed(s)' = Observed(s)
    BY <1>1 DEF OrderInv, SortedInv, Observed
  <2>. QED
    BY <1>1, <1>2, <1>3, <2>1 DEF OrderInv, SortedInv
<1>8. CoverInv'
  BY <1>2, <1>3 DEF CoverInv
<1>9. ASSUME NEW s \in Range(ordered), NEW t \in Range(ordered), ordering[t] = ordering[s] + 1
      PROVE  left'[t] = s /\ right'[s] = t
  <2> DEFINE i == LastPlace(s)
             j == LastPlace(t)
  <2>1. ordering[s] = i /\ ordering[t] = j
    BY <1>1 DEF OrderInv, LinkInv
  <2>2. i \in DOMAIN ordered /\ ordered[i] = s /\ j \in DOMAIN ordered /\ ordered[j] = t
    BY <1>2, LastPlaceIs
  <2>3. s \in Scenes /\ t \in Scenes
    BY <1>2, <2>2
  <2> HIDE DEF i, j
  <2>4. /\ i \in Nat /\ j = i + 1 /\ j # 1 /\ i # Len(ordered) /\ Len(ordered) > 1
        /\ j - 1 = i
    BY <1>2, <1>9, <2>1, <2>2
  <2>5. Previous[j] = s /\ Following[i] = t
    BY <2>2, <2>4 DEF Previous, Following
  <2>6. linked = Range(ordered)
    BY <2>4
  <2>7. left'[t] = Previous[LastPlace(t)] /\ right'[s] = Following[LastPlace(s)]
    BY ONLY <1>1, <1>9, <2>3, <2>6, s \in Range(ordered), t \in Range(ordered)
  <2>. QED
    BY <2>5, <2>7 DEF i, j
<1>10. LinkInv'
  BY <1>1, <1>2, <1>3, <1>9 DEF LinkInv
<1>. QED
  BY <1>5, <1>6, <1>7, <1>8, <1>10 DEF OrderInv

\* A datagram stamps a scene at most once: what is ordered, or about to be, has
\* been observed and keeps its stamp.
LEMMA LoadFirst ==
    ASSUME TypeInv, LoadSkeleton \/ (\E how : Fail(how))
    PROVE  \A s \in Scenes : Observed(s) => first'[s] = first[s]
<1>1. \A how : Fail(how) => UNCHANGED first
  BY DEF Fail, sceneVars
<1>2. ASSUME NEW id \in Ids, NEW sensor \in Sensors, FindSender(id, sensor)
      PROVE  UNCHANGED first
  BY <1>1, <1>2 DEF FindSender
<1>3. ASSUME ExtractSensor PROVE UNCHANGED first
  BY <1>1, <1>3 DEF ExtractSensor
<1>4. ASSUME UpdateScene
      PROVE  \/ UNCHANGED first
             \/ ~Observed(uscene) /\ \E t \in Ticks : first' = [first EXCEPT ![uscene] = t]
  BY <1>1, <1>4 DEF UpdateScene
<1>5. first \in [Scenes -> 0..MaxTime]
  BY DEF TypeInv, TypeOK
<1>6. ASSUME ~Observed(uscene), NEW t \in Ticks, first' = [first EXCEPT ![uscene] = t],
             NEW s \in Scenes, Observed(s)
      PROVE  first'[s] = first[s]
  BY <1>5, <1>6
<1>. QED
  BY <1>1, <1>2, <1>3, <1>4, <1>6 DEF LoadSkeleton

\* Datagrams, failures and stutters keep the order.
LEMMA LoadOrder ==
    ASSUME TypeInv, OrderInv,
           UNCHANGED <<clientVars, sensors, ordering, left, right, orderVars, workerVars>>,
           \A s \in Scenes : Observed(s) => first'[s] = first[s]
    PROVE  OrderInv'
<1>1. UNCHANGED <<list, alive, idOf, sensors, ordering, left, right, ordered, scenesSet, pc,
                  cid, todo>>
  BY DEF clientVars, orderVars, workerVars
<1>2. /\ ordered \in Seq(Scenes) /\ todo \in [Workers -> Seq(Scenes \X Nat)]
      /\ Registered \subseteq Scenes
  BY RegisteredScenes DEF TypeInv, TypeOK, ListTypeOK
<1>3. Range(ordered) \subseteq Scenes
  BY <1>2 DEF Range
<1>4. /\ Registered' = Registered /\ Live' = Live /\ \A id : At(id)' = At(id)
      /\ \A w \in Workers : Pending(w)' = Pending(w)
  BY <1>1, SameList DEF Registered, Live, Owned, Clients, Pending
<1>5. \A w \in Workers : Pending(w) \subseteq Scenes
  <2>1. ASSUME NEW w \in Workers, NEW n \in DOMAIN todo[w] PROVE todo[w][n][1] \in Scenes
    <3>1. todo[w] \in Seq(Scenes \X Nat)
      BY <1>2
    <3>2. todo[w][n] \in Scenes \X Nat
      BY <3>1
    <3>. QED
      BY <3>2
  <2>. QED
    BY <2>1 DEF Pending
<1>6. AliveInv'
  BY <1>1, <1>4 DEF OrderInv, AliveInv
<1>7. /\ \A s \in Range(ordered) : Observed(s) /\ first'[s] = first[s]
      /\ \A w \in Workers : pc[w] = "push" =>
            \A s \in Pending(w) : Observed(s) /\ first'[s] = first[s]
  BY <1>3, <1>5 DEF OrderInv, SortedInv
<1>8. SortedInv'
  <2>1. \A s \in Range(ordered') : Observed(s)'
    BY <1>1, <1>7 DEF Observed
  <2>2. \A i \in DOMAIN ordered : first'[ordered[i]] = first[ordered[i]]
    BY <1>7 DEF Range
  <2>3. \A i, j \in DOMAIN ordered' : i < j => first'[ordered'[i]] <= first'[ordered'[j]]
    BY <1>1, <2>2 DEF OrderInv, SortedInv
  <2>4. ASSUME NEW w \in Workers, pc'[w] = "push"
        PROVE  /\ \A s \in Pending(w)' : Observed(s)'
               /\ \A m, n \in DOMAIN todo'[w] :
                     m < n => first'[todo'[w][m][1]] <= first'[todo'[w][n][1]]
               /\ \A i \in DOMAIN ordered', n \in DOMAIN todo'[w] :
                     first'[ordered'[i]] <= first'[todo'[w][n][1]]
    <3>1. \A s \in Pending(w)' : Observed(s)'
      BY <1>1, <1>4, <1>7, <2>4 DEF Observed
    <3>2. \A n \in DOMAIN todo[w] : first'[todo[w][n][1]] = first[todo[w][n][1]]
      BY <1>1, <1>7, <2>4 DEF Pending
    <3>3. /\ \A m, n \in DOMAIN todo[w] :
                m < n => first[todo[w][m][1]] <= first[todo[w][n][1]]
          /\ \A i \in DOMAIN ordered, n \in DOMAIN todo[w] :
                first[ordered[i]] <= first[todo[w][n][1]]
      BY <1>1, <2>4 DEF OrderInv, SortedInv
    <3>. QED
      BY <1>1, <2>2, <3>1, <3>2, <3>3
  <2>. QED
    BY <2>1, <2>3, <2>4 DEF SortedInv
<1>9. CoverInv'
  <2>1. ASSUME NEW w \in Workers
        PROVE  /\ pc'[w] \in {"check", "push"} => scenesSet' = Registered'
               /\ pc'[w] = "check" => ordered' = <<>>
               /\ pc'[w] = "push" =>
                     /\ Range(ordered') \cup Pending(w)' = Registered'
                     /\ \/ Ties'
                        \/ /\ NoDuplicates(ordered')
                           /\ \A m, n \in DOMAIN todo'[w] :
                                 todo'[w][m][1] = todo'[w][n][1] => m = n
                           /\ Range(ordered') \cap Pending(w)' = {}
    <3>1. pc[w] = "push" /\ Ties => Ties'
      <4>1. pc[w] = "push" => Range(ordered) \cup Pending(w) = Registered
        BY DEF OrderInv, CoverInv
      <4>2. pc[w] = "push" => \A s \in Registered : first'[s] = first[s]
        BY <1>7, <4>1
      <4>. QED
        BY <1>4, <4>2 DEF Ties
    <3>. QED
      BY <1>1, <1>4, <3>1 DEF OrderInv, CoverInv
  <2>. QED
    BY <2>1 DEF CoverInv
<1>10. LinkInv'
  <2>1. \A s : LastPlace(s)' = LastPlace(s)
    BY <1>1, LastPlaces
  <2>. QED
    BY <1>1, <2>1 DEF OrderInv, LinkInv
<1>. QED
  BY <1>6, <1>8, <1>9, <1>10 DEF OrderInv

\* The empty order satisfies the order's invariant.
LEMMA OrderInitially == Init => OrderInv
<1> SUFFICES ASSUME Init PROVE OrderInv
  OBVIOUS
<1>1. /\ ordered = <<>> /\ scenesSet = {} /\ \A w \in Workers : pc[w] = "idle"
  BY DEF Init
<1>2. Range(ordered) = {} /\ DOMAIN ordered = {}
  BY <1>1 DEF Range
<1>. QED
  BY <1>1, <1>2 DEF OrderInv, AliveInv, SortedInv, CoverInv, LinkInv

\* Every step keeps the order sorted, linked and free of deleted scenes.
LEMMA OrderStep ==
    ASSUME Serial, Serial', TypeInv, ListInv, OrderInv, [Next]_vars
    PROVE  OrderInv'
<1>1. CASE UNCHANGED vars
  <2>1. UNCHANGED <<clientVars, sensors, ordering, left, right, orderVars, workerVars, first>>
    BY <1>1 DEF vars, sceneVars
  <2>. QED
    BY <2>1, LoadOrder
<1>2. CASE LoadSkeleton \/ \E how : Fail(how)
  BY <1>2, LoadKeeps, LoadFirst, LoadOrder
<1>3. CASE Stopped \/ Race
  BY <1>1, <1>2, <1>3 DEF Stopped, Race
<1>4. ASSUME NEW w \in Workers, Begins(w), ~Fail("undefined") PROVE OrderInv'
  <2>1. Alone(w)
    BY <1>4, StepAlone
  <2>2. CASE RefreshScenesSet(w) /\ ~Fail("undefined")
    BY <2>1, <2>2, RefreshOrder
  <2>3. CASE \/ BeginRegister(w) \/ \E id \in Ids : BeginDeregister(w, id)
             \/ \E id \in Ids : BeginRegisterSensors(w, id) /\ ~Fail("undefined")
    BY <2>1, <2>3, OutsideKeeps, KeptOrder, KeptAlive DEF OrderInv
  <2>. QED
    BY <1>4, <2>2, <2>3 DEF Begins
<1>5. ASSUME NEW w \in Workers, Continues(w), ~Fail("undefined") PROVE OrderInv'
  <2>1. Alone(w)
    BY <1>5, StepAlone
  <2>2. CASE \/ Generate(w) \/ AddClient(w)
             \/ FindClient(w) /\ ~Fail("undefined")
             \/ PurgeScenes(w) \/ Delete(w) \/ Erase(w)
             \/ \E given \in SUBSET Sensors : InitialSensorsList(w, given)
             \/ GiveUpOrder(w)
    BY <2>1, <2>2, OutsideKeeps, KeptOrder, KeptAlive DEF OrderInv
  <2>3. CASE ResetOrdering(w) \/ PushOrdered(w) \/ LinkNeighbours(w)
    BY <2>1, <2>3, ResetOrder, PushOrder, LinkOrder
  <2>. QED
    BY <1>5, <2>2, <2>3 DEF Continues, MeetDeleted
<1>. QED
  BY <1>1, <1>2, <1>3, <1>4, <1>5 DEF Next

\* What holds of every state while requests do not overlap.
ViewportInv == TypeInv /\ ListInv /\ OrderInv

\* While requests do not overlap, registry and order are consistent between any
\* two steps of the requests of Algorithms/MinorityViewportAlgo.cpp.
THEOREM ViewportInvHolds == Spec /\ []Serial => []ViewportInv
<1>1. Init => ViewportInv
  BY ViewportInitTypes, ListInitially, OrderInitially DEF ViewportInv
<1>2. ViewportInv /\ Serial /\ Serial' /\ [Next]_vars => ViewportInv'
  BY ViewportStepTypes, ListStep, OrderStep DEF ViewportInv
<1>. QED
  BY <1>1, <1>2, PTL DEF Spec

\* So long, MergeScenes never follows a pointer of the order to a deleted
\* scene: DeregisterClient (MinorityViewportAlgo.cpp:52-87) takes a client's
\* scenes out of the order and the set before RemoveClient deletes them.
THEOREM OrderedAliveHolds == Spec /\ []Serial => []OrderedAlive
<1>1. ViewportInv => OrderedAlive
  BY DEF ViewportInv, OrderInv, AliveInv, OrderedAlive
<1>. QED
  BY <1>1, ViewportInvHolds, PTL

\* So long, the order is by first observation, whatever was deregistered
\* since and whatever the UDP thread stored while CalibrateSceneOrder
\* (MinorityViewportAlgo.cpp:100-186) computed it.
THEOREM OrderSortedHolds == Spec /\ []Serial => []OrderSorted
<1>1. ViewportInv => OrderSorted
  BY DEF ViewportInv, OrderInv, SortedInv, OrderSorted
<1>. QED
  BY <1>1, ViewportInvHolds, PTL

\* So long, of two scenes with consecutive numbers each is the other's
\* neighbour, even when scenes were purged from between others.
THEOREM AdjacentLinkedHolds == Spec /\ []Serial => []AdjacentLinked
<1>1. ViewportInv => AdjacentLinked
  <2>1. Idle => \A w \in Workers : pc[w] # "push"
    BY DEF Idle
  <2>. QED
    BY <2>1 DEF ViewportInv, OrderInv, LinkInv, AdjacentLinked
<1>. QED
  BY <1>1, ViewportInvHolds, PTL

\* So long, when CalibrateSceneOrder answers true every registered scene
\* is in the order, and only once unless two were first observed in one tick.
THEOREM OrderCoversHolds == Spec /\ []Serial => OrderCovers
<1>1. ASSUME Serial, Serial', ViewportInv, NEW w \in Workers, LinkNeighbours(w)
      PROVE  /\ Range(ordered') = Registered
             /\ \/ \E s, t \in Registered : s # t /\ first[s] = first[t]
                \/ NoDuplicates(ordered')
  <2>1. pc[w] = "push" /\ pc' = [pc EXCEPT ![w] = "idle"]
    BY <1>1 DEF LinkNeighbours, Link, Goto
  <2>2. Alone(w)
    BY <1>1, <2>1, MoverAlone DEF ViewportInv
  <2>. QED
    BY <1>1, <2>2, LinkOrder DEF ViewportInv, Ties
<1>2. ViewportInv /\ Serial /\ Serial' =>
          \A w \in Workers : LinkNeighbours(w) =>
              /\ Range(ordered') = Registered
              /\ \/ \E s, t \in Registered : s # t /\ first[s] = first[t]
                 \/ NoDuplicates(ordered')
  BY <1>1
<1>. QED
  BY <1>2, ViewportInvHolds, PTL DEF OrderCovers

\* No request ever works with what another deleted: undefined
\* behaviour of this kind needs requests that overlap.
NeverDeleted == Running => \A w \in Workers : ~UsesDeleted(w)

\* While requests do not overlap none follows a pointer to a client that was deleted
\* (MinorityViewportAlgo.cpp:52-98).
THEOREM NeverDeletedHolds == Spec /\ []Serial => []NeverDeleted
<1>1. ASSUME Serial, ViewportInv, NEW w \in Workers, pc[w] # "idle" PROVE ~UsesDeleted(w)
  <2>1. ListOf(w)
    BY <1>1, ListOfOnly DEF Serial, ViewportInv
  <2>2. Range(ordered) \cup scenesSet \subseteq Live
    BY <1>1 DEF ViewportInv, OrderInv, AliveInv
  <2>3. list \in Seq(Objects)
    BY <1>1 DEF ViewportInv, TypeInv, TypeOK, ListTypeOK
  <2>4. pc[w] \in {"purge", "sensors"} => target[w] \in alive
    BY <2>1, <2>3, PositionMatches DEF ListOf
  <2>5. pc[w] = "delete" => ~SearchMeetsDeleted(cid[w])
    BY <2>1 DEF ListOf, SearchMeetsDeleted, Clients, Range
  <2>6. pc[w] = "erase" => slot[w] \in DOMAIN list
    BY <2>1 DEF ListOf
  <2>. QED
    BY <2>2, <2>4, <2>5, <2>6 DEF UsesDeleted
<1>2. \A w \in Workers : pc[w] = "idle" => ~UsesDeleted(w)
  BY DEF UsesDeleted
<1>3. Serial /\ ViewportInv => NeverDeleted
  BY <1>1, <1>2 DEF NeverDeleted
<1>. QED
  BY <1>3, ViewportInvHolds, PTL
===============================================================================
