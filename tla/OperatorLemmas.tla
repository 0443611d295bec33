----------------------------- MODULE OperatorLemmas -----------------------------
(***************************************************************************)
(* Facts about numbers and sequences that the proofs of several components *)
(* rest on.                                                                *)
(***************************************************************************)
EXTENDS Integers, SequencesExt, SequenceTheorems, WellFoundedInduction, TLAPS

\* Every nonempty set of natural numbers has a least member.
LEMMA Least ==
    ASSUME NEW T, T \subseteq Nat, T # {}
    PROVE  \E x \in T : \A y \in T : x <= y
<1>1. PICK x \in T : \A y \in T : <<y, x>> \notin OpToRel(<, Nat)
  BY NatLessThanWellFounded, WFMin
<1>2. ASSUME NEW y \in T PROVE ~(y < x)
  <2>1. y \in Nat /\ x \in Nat /\ <<y, x>> \notin OpToRel(<, Nat)
    BY <1>1
  <2>. QED
    BY <2>1, Zenon DEF OpToRel
<1>3. ASSUME NEW y \in T PROVE x <= y
  <2>1. y \in Nat /\ x \in Nat
    OBVIOUS
  <2>. QED
    BY <2>1, <1>2
<1>. QED
  BY <1>3

\* The least and the greatest member, by the operators that choose them.
LEMMA MinIsLeast ==
    ASSUME NEW T, T \subseteq Nat, T # {}
    PROVE  Min(T) \in T /\ \A y \in T : Min(T) <= y
<1>1. \E x \in T : \A y \in T : x <= y
  BY Least
<1>. QED
  BY <1>1 DEF Min

\* The maximum of a bounded set of numbers is one of them and no less than any.
LEMMA MaxIsGreatest ==
    ASSUME NEW n \in Nat, NEW T, T \subseteq 0..n, T # {}
    PROVE  Max(T) \in T /\ \A y \in T : y <= Max(T)
<1> DEFINE U == {n - x : x \in T}
<1>0. \A x \in T : x \in 0..n /\ n - x \in Nat
  OBVIOUS
<1>1. PICK z \in U : \A y \in U : z <= y
  <2>1. U \subseteq Nat /\ U # {}
    BY <1>0
  <2> HIDE DEF U
  <2>. QED
    BY <2>1, Least
<1>2. PICK x \in T : z = n - x
  OBVIOUS
<1>3. ASSUME NEW y \in T PROVE x >= y
  <2>1. n - x <= n - y
    BY <1>1, <1>2
  <2>. QED
    BY <1>0, <2>1
<1>. QED
  BY <1>3 DEF Max

\* The end of a sequence is a single element where it begins at the last.
LEMMA LastOnly ==
    ASSUME NEW S, NEW s \in Seq(S), NEW i \in 1..Len(s), NEW x
    PROVE  SubSeq(s, i, Len(s)) = <<x>> <=> i = Len(s) /\ s[i] = x
<1> DEFINE t == SubSeq(s, i, Len(s))
<1>1. i \in Int /\ Len(s) \in Int /\ \A j \in i..Len(s) : s[j] \in S
  OBVIOUS
<1>2. /\ t \in Seq(S) /\ Len(t) = Len(s) - i + 1
      /\ \A j \in 1..Len(s) - i + 1 : t[j] = s[i + j - 1]
  BY <1>1, SubSeqProperties
<1>3. t[1] = s[i]
  BY <1>2
<1> HIDE DEF t
<1>4. ASSUME i = Len(s) PROVE t = <<s[i]>>
  <2>1. Len(t) = Len(<<s[i]>>) /\ <<s[i]>> \in Seq(S)
    BY <1>2, <1>4
  <2>2. \A j \in 1..Len(t) : t[j] = <<s[i]>>[j]
    BY <1>2, <1>3, <1>4
  <2>. QED
    BY <1>2, <2>1, <2>2, SeqEqual
<1>5. ASSUME t = <<x>> PROVE i = Len(s) /\ s[i] = x
  <2>1. Len(t) = 1 /\ t[1] = x
    BY <1>5
  <2>2. Len(s) - i + 1 = 1
    BY <1>2, <2>1
  <2>3. i = Len(s)
    BY <1>1, <2>2
  <2>. QED
    BY <1>3, <2>1, <2>3
<1>6. t = <<x>> <=> i = Len(s) /\ s[i] = x
  BY <1>4, <1>5
<1>. QED
  BY <1>6, Zenon DEF t

\* G says of every i in 0..n what the value at i is of a function f on 0..n,
\* with values in S, and looks only at the values of f before i.
Steps(n, S) == [0..n -> [[0..n -> S] -> S]]
LooksBack(G, n, S) ==
    \A i \in 0..n : \A f, g \in [0..n -> S] :
        (\A j \in 0..i - 1 : f[j] = g[j]) => G[i][f] = G[i][g]

\* Then there is a function with these values: what justifies a definition by
\* recursion.
LEMMA Recursion ==
    ASSUME NEW n \in Nat, NEW S, S # {}, NEW G \in Steps(n, S), LooksBack(G, n, S)
    PROVE  \E f \in [0..n -> S] : \A i \in 0..n : f[i] = G[i][f]
<1>0. /\ G \in [0..n -> [[0..n -> S] -> S]]
      /\ \A i \in 0..n : \A f, g \in [0..n -> S] :
            (\A j \in 0..i - 1 : f[j] = g[j]) => G[i][f] = G[i][g]
  BY DEF Steps, LooksBack
<1> DEFINE Solves(f, m) == \A i \in 0..m - 1 : f[i] = G[i][f]
           T == {m \in 0..n + 1 : ~\E f \in [0..n -> S] : Solves(f, m)}
<1>1. SUFFICES T = {}
  <2>1. n + 1 \in 0..n + 1 /\ n + 1 - 1 = n
    OBVIOUS
  <2>2. \E f \in [0..n -> S] : Solves(f, n + 1)
    BY <1>1, <2>1
  <2>. QED
    BY <2>1, <2>2
<1>2. SUFFICES ASSUME T # {} PROVE FALSE
  OBVIOUS
<1>3. PICK m \in T : \A l \in T : m <= l
  <2>1. T \subseteq Nat
    OBVIOUS
  <2> HIDE DEF T
  <2>. QED
    BY <1>2, <2>1, Least
<1>4. m # 0
  <2> SUFFICES ASSUME m = 0 PROVE FALSE
    OBVIOUS
  <2>1. PICK s \in S : TRUE
    OBVIOUS
  <2>2. [i \in 0..n |-> s] \in [0..n -> S]
    BY <2>1
  <2>3. Solves([i \in 0..n |-> s], m)
    OBVIOUS
  <2>. QED
    BY <2>2, <2>3
<1>5. m \in 1..n + 1 /\ m - 1 \in 0..n
  BY <1>4
<1>6. PICK f \in [0..n -> S] : Solves(f, m - 1)
  <2>1. m - 1 \notin T
    <3> HIDE DEF T
    <3>. QED
      BY <1>3, <1>5
  <2>. QED
    BY <1>5, <2>1
<1> DEFINE h == [f EXCEPT ![m - 1] = G[m - 1][f]]
<1>7. h \in [0..n -> S]
  BY <1>0, <1>5
<1>8. \A j \in 0..m - 2 : h[j] = f[j]
  BY <1>5
<1>9. h[m - 1] = G[m - 1][f]
  BY <1>5
<1> HIDE DEF h
<1>10. ASSUME NEW i \in 0..m - 1 PROVE h[i] = G[i][h]
  <2>1. i \in 0..n /\ G[i][h] = G[i][f]
    <3>1. i \in 0..n /\ \A j \in 0..i - 1 : h[j] = f[j]
      BY <1>5, <1>8
    <3>. QED
      BY <1>0, <1>7, <3>1
  <2>2. CASE i = m - 1
    BY <1>9, <2>1, <2>2
  <2>3. CASE i # m - 1
    <3>1. i \in 0..m - 1 - 1 /\ i \in 0..m - 2
      BY <1>5, <2>3
    <3>. QED
      BY <1>6, <1>8, <2>1, <3>1
  <2>. QED
    BY <2>2, <2>3
<1>. QED
  BY <1>7, <1>10

\* A sequence with one more at its end.
LEMMA AppendPlaces ==
    ASSUME NEW S, NEW q \in Seq(S), NEW x \in S
    PROVE  /\ Append(q, x) \in Seq(S) /\ Len(Append(q, x)) = Len(q) + 1
           /\ DOMAIN Append(q, x) = 1..Len(q) + 1 /\ Append(q, x)[Len(q) + 1] = x
           /\ \A i \in 1..Len(q) :
                 i \in 1..Len(q) + 1 /\ Append(q, x)[i] = q[i] /\ i # Len(q) + 1
           /\ \A i \in 1..Len(q) + 1 : i \in 1..Len(q) \/ i = Len(q) + 1
<1>1. Len(q) \in Nat
  OBVIOUS
<1>2. /\ Append(q, x) \in Seq(S) /\ Len(Append(q, x)) = Len(q) + 1
      /\ Append(q, x)[Len(q) + 1] = x
  OBVIOUS
<1>3. \A i \in 1..Len(q) : Append(q, x)[i] = q[i]
  OBVIOUS
<1>4. DOMAIN Append(q, x) = 1..Len(q) + 1
  BY <1>2
<1>5. /\ \A i \in 1..Len(q) : i \in 1..Len(q) + 1 /\ i # Len(q) + 1
      /\ \A i \in 1..Len(q) + 1 : i \in 1..Len(q) \/ i = Len(q) + 1
  BY <1>1
<1>. QED
  BY <1>2, <1>3, <1>4, <1>5
===============================================================================
