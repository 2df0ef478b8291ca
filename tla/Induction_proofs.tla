-------------------------- MODULE Induction_proofs --------------------------
(***************************************************************************)
(* Induction stated with sets, and what it gives for PrefixSums and        *)
(* Removals.                                                               *)
(***************************************************************************)
EXTENDS PrefixSums, Removals, TLAPS, WellFoundedInduction, SequenceTheorems

\* A nonempty set of naturals has a least element.
LEMMA LeastElement ==
  ASSUME NEW T \in SUBSET Nat, T # {}
  PROVE  \E m \in T : \A k \in T : m <= k
<1>1. IsWellFoundedOn(OpToRel(<, Nat), Nat)
  BY NatLessThanWellFounded
<1>2. PICK x \in T : \A y \in T : ~(<<y, x>> \in OpToRel(<, Nat))
  BY <1>1, WFMin
<1>3. \A y \in T : ~(y < x)
  BY <1>2 DEF OpToRel
<1> QED BY <1>3

\* A set of naturals that holds 0 and is closed under successor is Nat.
LEMMA SetInduction ==
  ASSUME NEW S \in SUBSET Nat, 0 \in S, \A n \in S : n + 1 \in S
  PROVE  S = Nat
<1>1. SUFFICES ASSUME Nat \ S # {} PROVE FALSE
  OBVIOUS
<1>2. PICK m \in Nat \ S : \A k \in Nat \ S : m <= k
  BY LeastElement, <1>1
<1>3. m # 0 /\ m - 1 \in Nat
  BY <1>2
<1>4. m - 1 \in S
  BY <1>2, <1>3
<1> QED BY <1>4, <1>3, <1>2

\* The recursion that defines Sums has a solution, so Sums satisfies it.
LEMMA SumsProperties ==
  ASSUME NEW f \in Seq(Nat)
  PROVE  /\ Sums(f) \in [0..Len(f) -> Nat]
         /\ Sums(f)[0] = 0
         /\ \A i \in 1..Len(f) : Sums(f)[i] = Sums(f)[i - 1] + f[i]
<1> DEFINE Solves(s, k) ==
      s[0] = 0 /\ \A i \in 1..k : s[i] = s[i - 1] + f[i]
<1> DEFINE Solvable(k) == k <= Len(f) => \E s \in [0..k -> Nat] : Solves(s, k)
<1> DEFINE S == {k \in Nat : Solvable(k)}
<1>0. Len(f) \in Nat /\ \A i \in 1..Len(f) : f[i] \in Nat
  OBVIOUS
<1>1. 0 \in S
  <2>1. [i \in 0..0 |-> 0] \in [0..0 -> Nat] /\ Solves([i \in 0..0 |-> 0], 0)
    OBVIOUS
  <2> QED BY <2>1
<1>2. ASSUME NEW n \in S PROVE n + 1 \in S
  <2> HIDE DEF Solves, Solvable
  <2>0. n \in Nat /\ Solvable(n)
    BY <1>2
  <2>a. SUFFICES Solvable(n + 1)
    BY <2>0
  <2>1. SUFFICES ASSUME n + 1 <= Len(f)
                 PROVE  \E s \in [0..(n + 1) -> Nat] : Solves(s, n + 1)
    BY DEF Solvable
  <2>b. n <= Len(f)
    BY <2>0, <2>1, <1>0
  <2>2. PICK s \in [0..n -> Nat] : Solves(s, n)
    BY <2>0, <2>b DEF Solvable
  <2> DEFINE t == [i \in 0..(n + 1) |-> IF i = n + 1 THEN s[n] + f[n + 1] ELSE s[i]]
  <2>3. n \in Nat /\ f[n + 1] \in Nat
    BY <1>0, <2>1
  <2>4. t \in [0..(n + 1) -> Nat]
    BY <2>3, <2>2
  <2>5. Solves(t, n + 1)
    <3>1. t[0] = 0
      BY <2>3, <2>2 DEF Solves
    <3>2. ASSUME NEW i \in 1..(n + 1) PROVE t[i] = t[i - 1] + f[i]
      <4>1. CASE i = n + 1
        BY <4>1, <2>3
      <4>2. CASE i # n + 1
        <5>1. i \in 1..n /\ i - 1 \in 0..n /\ i \in 0..n
          BY <4>2, <2>3
        <5>2. s[i] = s[i - 1] + f[i]
          BY <5>1, <2>2 DEF Solves
        <5> QED BY <5>1, <5>2, <4>2, <2>3
      <4> QED BY <4>1, <4>2
    <3> HIDE DEF t
    <3> QED BY <3>1, <3>2 DEF Solves
  <2> QED BY <2>4, <2>5
<1>3. S = Nat
  <2> HIDE DEF S
  <2>1. S \in SUBSET Nat BY DEF S
  <2> QED BY <1>1, <1>2, <2>1, SetInduction
<1>4. PICK s \in [0..Len(f) -> Nat] : Solves(s, Len(f))
  <2> HIDE DEF Solves, Solvable
  <2>1. Len(f) \in S
    BY <1>3, <1>0
  <2>2. Solvable(Len(f)) /\ Len(f) <= Len(f)
    BY <2>1, <1>0
  <2> QED BY <2>2 DEF Solvable
<1>5. s = [i \in 0..Len(f) |-> IF i = 0 THEN 0 ELSE s[i - 1] + f[i]]
  BY <1>4, <1>0
<1> DEFINE R == CHOOSE r : r = [i \in 0..Len(f) |-> IF i = 0 THEN 0 ELSE r[i - 1] + f[i]]
<1>6. Sums(f) = R
  BY DEF Sums
<1>7. R = [i \in 0..Len(f) |-> IF i = 0 THEN 0 ELSE R[i - 1] + f[i]]
  BY <1>5
<1> HIDE DEF R
<1>8. R[0] = 0 /\ \A i \in 1..Len(f) : R[i] = R[i - 1] + f[i]
  BY <1>7, <1>0, SMTT(60)
<1>9. R = s
  <2> DEFINE E == {k \in Nat : k <= Len(f) => R[k] = s[k]}
  <2>1. 0 \in E BY <1>8, <1>4
  <2>2. ASSUME NEW n \in E PROVE n + 1 \in E
    BY <1>8, <1>4, <1>0
  <2>3. E = Nat
    <3> HIDE DEF E
    <3>1. E \in SUBSET Nat BY DEF E
    <3> QED BY <2>1, <2>2, <3>1, SetInduction
  <2>4. \A k \in 0..Len(f) : R[k] = s[k]
    BY <2>3, <1>0
  <2> QED BY <2>4, <1>7, <1>4
<1> QED BY <1>6, <1>8, <1>9, <1>4

\* Sums of the differences of g telescope.
LEMMA SumsTelescope ==
  ASSUME NEW f \in Seq(Nat), NEW g \in [1..(Len(f) + 1) -> Int],
         \A i \in 1..Len(f) : g[i + 1] = g[i] + f[i]
  PROVE  \A i \in 0..Len(f) : Sums(f)[i] = g[i + 1] - g[1]
<1> DEFINE S == {k \in Nat : k <= Len(f) => Sums(f)[k] = g[k + 1] - g[1]}
<1>0. Len(f) \in Nat /\ \A i \in 1..Len(f) : f[i] \in Nat
  OBVIOUS
<1>1. 0 \in S
  BY SumsProperties, <1>0
<1>2. ASSUME NEW n \in S PROVE n + 1 \in S
  <2>0. n \in Nat /\ (n <= Len(f) => Sums(f)[n] = g[n + 1] - g[1])
    BY <1>2
  <2>1. SUFFICES ASSUME n + 1 <= Len(f) PROVE Sums(f)[n + 1] = g[(n + 1) + 1] - g[1]
    BY <2>0
  <2>2. Sums(f)[n] = g[n + 1] - g[1]
    BY <2>0, <2>1, <1>0
  <2>3. Sums(f)[n + 1] = Sums(f)[n] + f[n + 1]
    <3>1. n + 1 \in 1..Len(f) /\ (n + 1) - 1 = n
      BY <2>0, <2>1, <1>0
    <3> QED BY SumsProperties, <3>1
  <2>4. g[(n + 1) + 1] = g[n + 1] + f[n + 1]
    BY <2>0, <2>1, <1>0
  <2>5. g[n + 1] \in Int /\ g[1] \in Int /\ f[n + 1] \in Int
    <3>1. n + 1 \in 1..Len(f) /\ n + 1 \in 1..(Len(f) + 1) /\ 1 \in 1..(Len(f) + 1)
      BY <2>0, <2>1, <1>0
    <3>2. f[n + 1] \in Nat
      BY <3>1, <1>0
    <3>3. g[n + 1] \in Int /\ g[1] \in Int
      BY <3>1
    <3> QED BY <3>2, <3>3
  <2> QED BY <2>2, <2>3, <2>4, <2>5
<1>3. S = Nat
  <2> HIDE DEF S
  <2>1. S \in SUBSET Nat BY DEF S
  <2> QED BY <1>1, <1>2, <2>1, SetInduction
<1>4. ASSUME NEW i \in 0..Len(f) PROVE Sums(f)[i] = g[i + 1] - g[1]
  <2>1. i \in Nat /\ i <= Len(f)
    BY <1>0
  <2>2. i \in S
    BY <1>3, <2>1
  <2> QED BY <2>1, <2>2
<1> QED BY <1>4

\* Adding naturals never makes a running total smaller.
LEMMA SumsMonotone ==
  ASSUME NEW f \in Seq(Nat), NEW i \in 0..Len(f), NEW j \in i..Len(f)
  PROVE  Sums(f)[i] <= Sums(f)[j]
<1> DEFINE Above(k) == k \in i..Len(f) => Sums(f)[i] <= Sums(f)[k]
<1> DEFINE S == {k \in Nat : Above(k)}
<1>0. Len(f) \in Nat /\ \A k \in 1..Len(f) : f[k] \in Nat
  OBVIOUS
<1>t. \A k \in 0..Len(f) : Sums(f)[k] \in Nat
  BY SumsProperties
<1>1. 0 \in S
  <2>1. Above(0)
    BY <1>0, <1>t
  <2> QED BY <2>1
<1>2. ASSUME NEW n \in S PROVE n + 1 \in S
  <2>0. n \in Nat /\ Above(n)
    BY <1>2
  <2>1. SUFFICES ASSUME n + 1 \in i..Len(f) PROVE Sums(f)[i] <= Sums(f)[n + 1]
    BY <2>0
  <2>2. CASE n + 1 = i
    BY <2>2, <1>t
  <2>3. CASE n + 1 # i
    <3>1. n \in i..Len(f) /\ n \in 0..Len(f) /\ n + 1 \in 1..Len(f) /\ (n + 1) - 1 = n
      BY <2>0, <2>1, <2>3, <1>0
    <3>2. Sums(f)[n + 1] = Sums(f)[n] + f[n + 1]
      BY SumsProperties, <3>1
    <3>3. f[n + 1] \in Nat /\ Sums(f)[n] \in Nat /\ Sums(f)[i] \in Nat
      BY <1>0, <1>t, <3>1
    <3>4. Sums(f)[i] <= Sums(f)[n]
      BY <2>0, <3>1
    <3> QED BY <3>2, <3>3, <3>4
  <2> QED BY <2>2, <2>3
<1>3. S = Nat
  <2> HIDE DEF S
  <2>1. S \in SUBSET Nat BY DEF S
  <2> QED BY <1>1, <1>2, <2>1, SetInduction
<1>4. j \in S
  BY <1>3, <1>0
<1> QED BY <1>4

\* Totals of what two sequences have in common are the same.
LEMMA SumsAgree ==
  ASSUME NEW f \in Seq(Nat), NEW g \in Seq(Nat), NEW n \in Nat, n <= Len(f), n <= Len(g),
         \A i \in 1..n : f[i] = g[i]
  PROVE  Sums(f)[n] = Sums(g)[n]
<1> DEFINE Same(k) == k <= n => Sums(f)[k] = Sums(g)[k]
<1> DEFINE S == {k \in Nat : Same(k)}
<1>0. Len(f) \in Nat /\ Len(g) \in Nat
  OBVIOUS
<1>1. 0 \in S
  BY SumsProperties
<1>2. ASSUME NEW k \in S PROVE k + 1 \in S
  <2>0. k \in Nat /\ Same(k)
    BY <1>2
  <2>1. SUFFICES ASSUME k + 1 <= n PROVE Sums(f)[k + 1] = Sums(g)[k + 1]
    BY <2>0
  <2>2. k + 1 \in 1..n /\ k + 1 \in 1..Len(f) /\ k + 1 \in 1..Len(g) /\ (k + 1) - 1 = k /\ k <= n
    BY <2>0, <2>1, <1>0
  <2>3. Sums(f)[k + 1] = Sums(f)[k] + f[k + 1]
    BY SumsProperties, <2>2
  <2>4. Sums(g)[k + 1] = Sums(g)[k] + g[k + 1]
    BY SumsProperties, <2>2
  <2> QED BY <2>0, <2>2, <2>3, <2>4
<1>3. S = Nat
  <2> HIDE DEF S
  <2>1. S \in SUBSET Nat BY DEF S
  <2> QED BY <1>1, <1>2, <2>1, SetInduction
<1> QED BY <1>3

\* One number more.
LEMMA SumsAppend ==
  ASSUME NEW f \in Seq(Nat), NEW g \in Seq(Nat), Len(g) = Len(f) + 1,
         \A i \in 1..Len(f) : g[i] = f[i]
  PROVE  Sums(g)[Len(g)] = Sums(f)[Len(f)] + g[Len(g)]
<1>0. Len(f) \in Nat /\ Len(g) \in 1..Len(g) /\ Len(g) - 1 = Len(f) /\ Len(f) <= Len(g)
  OBVIOUS
<1>1. Sums(g)[Len(g)] = Sums(g)[Len(f)] + g[Len(g)]
  BY SumsProperties, <1>0
<1>2. Sums(g)[Len(f)] = Sums(f)[Len(f)]
  <2>1. Len(f) <= Len(f)
    BY <1>0
  <2>2. \A i \in 1..Len(f) : f[i] = g[i]
    OBVIOUS
  <2> QED BY <2>1, <2>2, <1>0, SumsAgree
<1> QED BY <1>1, <1>2

\* Sums of numbers of which one part grew.
LEMMA Grown ==
  ASSUME NEW a \in Nat, NEW b \in Nat, NEW m \in Nat
  PROVE  (a + m) + b = (a + b) + m /\ a + (b + m) = (a + b) + m
OBVIOUS

\* One number grows: so does the total.
LEMMA SumsGrow ==
  ASSUME NEW f \in Seq(Nat), NEW g \in Seq(Nat), Len(g) = Len(f), NEW c \in 1..Len(f), NEW m \in Nat,
         g[c] = f[c] + m, \A i \in 1..Len(f) : i # c => g[i] = f[i]
  PROVE  Sums(g)[Len(g)] = Sums(f)[Len(f)] + m
<1> DEFINE More(k) == k \in c..Len(f) => Sums(g)[k] = Sums(f)[k] + m
<1> DEFINE S == {k \in Nat : More(k)}
<1>0. Len(f) \in Nat /\ c \in Nat /\ c >= 1 /\ \A i \in 1..Len(f) : f[i] \in Nat /\ g[i] \in Nat
  BY SMTT(60)
<1>t. \A k \in 0..Len(f) : Sums(f)[k] \in Nat /\ Sums(g)[k] \in Nat
  BY SumsProperties
<1>1. 0 \in S
  BY <1>0
<1>2. ASSUME NEW k \in S PROVE k + 1 \in S
  <2>0. k \in Nat /\ More(k)
    BY <1>2
  <2>1. SUFFICES ASSUME k + 1 \in c..Len(f) PROVE Sums(g)[k + 1] = Sums(f)[k + 1] + m
    BY <2>0
  <2>2. k + 1 \in 1..Len(f) /\ (k + 1) - 1 = k /\ k \in 0..Len(f)
    BY <2>0, <2>1, <1>0
  <2>3. Sums(f)[k + 1] = Sums(f)[k] + f[k + 1] /\ Sums(g)[k + 1] = Sums(g)[k] + g[k + 1]
    BY SumsProperties, <2>2
  <2>4. Sums(f)[k] \in Nat /\ Sums(g)[k] \in Nat /\ f[k + 1] \in Nat /\ g[k + 1] \in Nat
    BY <1>t, <1>0, <2>2
  <2>5. CASE k + 1 = c
    <3>1. Sums(g)[k] = Sums(f)[k]
      <4>1. k <= Len(f) /\ k <= Len(g) /\ \A i \in 1..k : f[i] = g[i]
        BY <2>5, <2>0, <2>2, <1>0
      <4>2. Sums(f)[k] = Sums(g)[k]
        BY <4>1, <2>0, SumsAgree
      <4> QED BY <4>2
    <3>2. g[k + 1] = f[k + 1] + m
      BY <2>5
    <3>3. Sums(g)[k + 1] = Sums(f)[k] + (f[k + 1] + m)
      BY <2>3, <3>1, <3>2
    <3>4. Sums(f)[k] + (f[k + 1] + m) = (Sums(f)[k] + f[k + 1]) + m
      BY <2>4, Grown, ZenonT(60)
    <3> QED BY <2>3, <3>3, <3>4, Zenon
  <2>6. CASE k + 1 # c
    <3>1. k \in c..Len(f) /\ g[k + 1] = f[k + 1]
      BY <2>6, <2>0, <2>1, <2>2, <1>0
    <3>2. Sums(g)[k] = Sums(f)[k] + m
      BY <3>1, <2>0
    <3>3. Sums(g)[k + 1] = (Sums(f)[k] + m) + f[k + 1]
      BY <2>3, <3>1, <3>2
    <3>4. (Sums(f)[k] + m) + f[k + 1] = (Sums(f)[k] + f[k + 1]) + m
      BY <2>4, Grown, ZenonT(60)
    <3> QED BY <2>3, <3>3, <3>4, Zenon
  <2> QED BY <2>5, <2>6
<1>3. S = Nat
  <2> HIDE DEF S
  <2>1. S \in SUBSET Nat BY DEF S
  <2> QED BY <1>1, <1>2, <2>1, SetInduction
<1>4. Len(f) \in S
  BY <1>3, <1>0
<1> QED BY <1>4, <1>0

\* The first number is a part of every total but the empty one.
LEMMA SumsTail ==
  ASSUME NEW f \in Seq(Nat), f # <<>>
  PROVE  Sums(f)[Len(f)] = f[1] + Sums(Tail(f))[Len(Tail(f))]
<1> DEFINE g == Tail(f)
<1> DEFINE Rest(k) == k <= Len(g) => Sums(f)[k + 1] = f[1] + Sums(g)[k]
<1> DEFINE S == {k \in Nat : Rest(k)}
<1>0. /\ g \in Seq(Nat) /\ Len(f) \in Nat /\ Len(g) \in Nat /\ Len(f) = Len(g) + 1
      /\ f[1] \in Nat /\ \A i \in 1..Len(g) : g[i] = f[i + 1] /\ g[i] \in Nat
  OBVIOUS
<1> HIDE DEF g
<1>f. /\ Sums(f)[0] = 0 /\ \A i \in 1..Len(f) : Sums(f)[i] = Sums(f)[i - 1] + f[i]
      /\ \A i \in 0..Len(f) : Sums(f)[i] \in Nat
  BY SumsProperties
<1>g. /\ Sums(g)[0] = 0 /\ \A i \in 1..Len(g) : Sums(g)[i] = Sums(g)[i - 1] + g[i]
      /\ \A i \in 0..Len(g) : Sums(g)[i] \in Nat
  BY SumsProperties, <1>0
<1>1. 0 \in S
  <2>1. 0 + 1 \in 1..Len(f) /\ (0 + 1) - 1 = 0 /\ 0 + 1 = 1
    BY <1>0
  <2>2. Sums(f)[1] = 0 + f[1]
    BY <2>1, <1>f
  <2>3. Sums(f)[0 + 1] = f[1] + Sums(g)[0]
    BY <2>1, <2>2, <1>0, <1>g
  <2> QED BY <2>3
<1>2. ASSUME NEW k \in S PROVE k + 1 \in S
  <2>0. k \in Nat /\ Rest(k)
    BY <1>2
  <2>1. SUFFICES ASSUME k + 1 <= Len(g) PROVE Sums(f)[(k + 1) + 1] = f[1] + Sums(g)[k + 1]
    BY <2>0
  <2>2. /\ (k + 1) + 1 \in 1..Len(f) /\ ((k + 1) + 1) - 1 = k + 1 /\ k + 1 \in 1..Len(g)
        /\ (k + 1) - 1 = k /\ k <= Len(g) /\ k \in 0..Len(g)
    BY <2>0, <2>1, <1>0
  <2>3. Sums(f)[(k + 1) + 1] = Sums(f)[k + 1] + g[k + 1]
    BY <2>2, <1>f, <1>0
  <2>4. Sums(f)[k + 1] = f[1] + Sums(g)[k]
    BY <2>0, <2>2
  <2>5. Sums(g)[k + 1] = Sums(g)[k] + g[k + 1]
    BY <2>2, <1>g
  <2>6. f[1] \in Nat /\ Sums(g)[k] \in Nat /\ g[k + 1] \in Nat
    BY <2>2, <1>g, <1>0
  <2>7. (f[1] + Sums(g)[k]) + g[k + 1] = f[1] + (Sums(g)[k] + g[k + 1])
    BY <2>6, Grown
  <2> QED BY <2>3, <2>4, <2>5, <2>7, Zenon
<1>3. S = Nat
  <2> HIDE DEF S
  <2>1. S \in SUBSET Nat BY DEF S
  <2> QED BY <1>1, <1>2, <2>1, SetInduction
<1>4. Rest(Len(g))
  BY <1>3, <1>0
<1>5. Sums(f)[Len(g) + 1] = f[1] + Sums(g)[Len(g)]
  BY <1>4, <1>0
<1> QED BY <1>5, <1>0 DEF g

-----------------------------------------------------------------------------
(***************************************************************************)
(* Sizes of queues.                                                        *)
(***************************************************************************)
LEMMA SizesOf ==
  ASSUME NEW S, \A x \in S : x.size \in Nat, NEW q \in Seq(S), NEW t, t = [j \in 1..Len(q) |-> q[j].size]
  PROVE  t \in Seq(Nat) /\ Len(t) = Len(q) /\ \A j \in 1..Len(q) : t[j] = q[j].size
<1>1. Len(q) \in Nat
  OBVIOUS
<1>2. \A j \in 1..Len(q) : q[j].size \in Nat
  <2> TAKE j \in 1..Len(q)
  <2>1. q[j] \in S
    OBVIOUS
  <2> QED BY <2>1
<1>3. t \in [1..Len(q) -> Nat]
  BY <1>2
<1>4. t \in Seq(Nat)
  BY <1>1, <1>3, SeqDef
<1> QED BY <1>1, <1>3, <1>4, LenProperties

LEMMA TotalEmpty == TotalSize(<<>>) = 0
<1>1. Len(<<>>) = 0 /\ \A S : <<>> \in Seq(S)
  OBVIOUS
<1> DEFINE t == [j \in 1..Len(<<>>) |-> <<>>[j].size]
<1>2. t \in Seq(Nat)
  <2>1. \A x \in {} : x.size \in Nat
    OBVIOUS
  <2> QED BY <1>1, <2>1, SizesOf
<1> HIDE DEF t
<1>3. Sums(t)[0] = 0
  BY <1>2, SumsProperties
<1> QED BY <1>1, <1>3 DEF TotalSize, t

LEMMA TotalAppend ==
  ASSUME NEW S, \A x \in S : x.size \in Nat, NEW q \in Seq(S), NEW e \in S
  PROVE  /\ TotalSize(q) \in Nat
         /\ TotalSize(Append(q, e)) = TotalSize(q) + e.size
<1> DEFINE r == Append(q, e)
<1>1. r \in Seq(S) /\ Len(r) = Len(q) + 1 /\ Len(q) \in Nat
      /\ r[Len(r)] = e /\ \A i \in 1..Len(q) : r[i] = q[i] /\ i \in 1..Len(r)
  OBVIOUS
<1> DEFINE t == [j \in 1..Len(q) |-> q[j].size]
<1> DEFINE u == [j \in 1..Len(r) |-> r[j].size]
<1>2. t \in Seq(Nat) /\ Len(t) = Len(q) /\ \A j \in 1..Len(q) : t[j] = q[j].size
  BY SizesOf
<1> HIDE DEF r
<1>3. u \in Seq(Nat) /\ Len(u) = Len(r) /\ \A j \in 1..Len(r) : u[j] = r[j].size
  BY SizesOf, <1>1
<1>4. TotalSize(q) = Sums(t)[Len(q)] /\ TotalSize(r) = Sums(u)[Len(r)]
  BY DEF TotalSize
<1> HIDE DEF t, u
<1>5. Len(u) = Len(t) + 1 /\ \A i \in 1..Len(t) : u[i] = t[i]
  BY <1>1, <1>2, <1>3
<1>6. Sums(u)[Len(u)] = Sums(t)[Len(t)] + u[Len(u)]
  BY <1>2, <1>3, <1>5, SumsAppend
<1>7. u[Len(u)] = e.size
  BY <1>1, <1>3
<1>8. Sums(t)[Len(t)] \in Nat
  BY <1>2, SumsProperties
<1> QED BY <1>2, <1>3, <1>4, <1>6, <1>7, <1>8 DEF r

LEMMA TotalTail ==
  ASSUME NEW S, \A x \in S : x.size \in Nat, NEW q \in Seq(S), q # <<>>
  PROVE  /\ TotalSize(Tail(q)) = TotalSize(q) - Head(q).size
         /\ TotalSize(q) \in Nat
<1> DEFINE r == Tail(q)
<1>1. r \in Seq(S) /\ Len(q) = Len(r) + 1 /\ Len(r) \in Nat /\ Len(q) \in Nat
      /\ q[1] = Head(q) /\ q[1] \in S /\ \A i \in 1..Len(r) : r[i] = q[i + 1] /\ i + 1 \in 1..Len(q)
  OBVIOUS
<1> DEFINE t == [j \in 1..Len(q) |-> q[j].size]
<1> DEFINE u == [j \in 1..Len(r) |-> r[j].size]
<1>2. t \in Seq(Nat) /\ Len(t) = Len(q) /\ \A j \in 1..Len(q) : t[j] = q[j].size
  BY SizesOf
<1> HIDE DEF r
<1>3. u \in Seq(Nat) /\ Len(u) = Len(r) /\ \A j \in 1..Len(r) : u[j] = r[j].size
  BY SizesOf, <1>1
<1>4. TotalSize(q) = Sums(t)[Len(q)] /\ TotalSize(r) = Sums(u)[Len(r)]
  BY DEF TotalSize
<1> HIDE DEF t, u
<1>5. t # <<>> /\ Tail(t) = u
  <2>1. t # <<>> /\ Len(Tail(t)) = Len(u) /\ Tail(t) \in Seq(Nat)
    BY <1>1, <1>2, <1>3
  <2>2. \A i \in 1..Len(u) : Tail(t)[i] = u[i]
    <3> TAKE i \in 1..Len(u)
    <3>1. Tail(t)[i] = t[i + 1] /\ i \in 1..Len(r) /\ i + 1 \in 1..Len(q)
      BY <1>1, <1>2, <1>3, <2>1
    <3> QED BY <3>1, <1>1, <1>2, <1>3
  <2> QED BY <2>1, <2>2, <1>3, SeqEqual
<1>6. Sums(t)[Len(t)] = t[1] + Sums(u)[Len(u)]
  BY <1>2, <1>5, SumsTail
<1>7. t[1] = Head(q).size /\ t[1] \in Nat /\ Sums(t)[Len(t)] \in Nat /\ Sums(u)[Len(u)] \in Nat
  <2>1. 1 \in 1..Len(q)
    BY <1>1
  <2>2. t[1] = Head(q).size /\ t[1] \in Nat
    BY <1>1, <1>2, <2>1
  <2>3. Len(t) \in 0..Len(t) /\ Len(u) \in 0..Len(u)
    BY <1>1, <1>2, <1>3
  <2>4. Sums(t) \in [0..Len(t) -> Nat] /\ Sums(u) \in [0..Len(u) -> Nat]
    BY <1>2, <1>3, SumsProperties
  <2> QED BY <2>2, <2>3, <2>4
<1> QED BY <1>2, <1>3, <1>4, <1>6, <1>7 DEF r

LEMMA TotalNat ==
  ASSUME NEW S, \A x \in S : x.size \in Nat, NEW q \in Seq(S)
  PROVE  TotalSize(q) \in Nat
<1> DEFINE t == [j \in 1..Len(q) |-> q[j].size]
<1>1. t \in Seq(Nat) /\ Len(t) = Len(q) /\ Len(q) \in 0..Len(q)
  BY SizesOf
<1>2. TotalSize(q) = Sums(t)[Len(q)]
  BY DEF TotalSize
<1> HIDE DEF t
<1> QED BY <1>1, <1>2, SumsProperties

-----------------------------------------------------------------------------
(***************************************************************************)
(* What remains of a sequence.                                             *)
(***************************************************************************)
\* The recursive function in Remaining.
RemainingSteps(s, S, r, k) ==
  r[0] = <<>> /\ \A i \in 1..k : r[i] = IF s[i] \in S THEN r[i - 1] ELSE Append(r[i - 1], s[i])

LEMMA RemainingSolved ==
  ASSUME NEW T, NEW s \in Seq(T), NEW S
  PROVE  \E r \in [0..Len(s) -> Seq(T)] : RemainingSteps(s, S, r, Len(s)) /\ Remaining(s, S) = r[Len(s)]
<1> DEFINE Solvable(k) == k <= Len(s) => \E r \in [0..k -> Seq(T)] : RemainingSteps(s, S, r, k)
<1> DEFINE N == {k \in Nat : Solvable(k)}
<1>0. Len(s) \in Nat /\ \A i \in 1..Len(s) : s[i] \in T
  OBVIOUS
<1>1. 0 \in N
  <2>1. <<>> \in Seq(T)
    OBVIOUS
  <2>2. [i \in 0..0 |-> <<>>] \in [0..0 -> Seq(T)] /\ RemainingSteps(s, S, [i \in 0..0 |-> <<>>], 0)
    BY <2>1 DEF RemainingSteps
  <2> QED BY <2>2
<1>2. ASSUME NEW n \in N PROVE n + 1 \in N
  <2> HIDE DEF Solvable
  <2>0. n \in Nat /\ Solvable(n)
    BY <1>2
  <2>a. SUFFICES Solvable(n + 1)
    BY <2>0
  <2>1. SUFFICES ASSUME n + 1 <= Len(s)
                 PROVE  \E r \in [0..(n + 1) -> Seq(T)] : RemainingSteps(s, S, r, n + 1)
    BY DEF Solvable
  <2>b. n <= Len(s) /\ n + 1 \in 1..Len(s) /\ n \in 0..n /\ s[n + 1] \in T
    BY <2>0, <2>1, <1>0
  <2>2. PICK r \in [0..n -> Seq(T)] : RemainingSteps(s, S, r, n)
    BY <2>0, <2>b DEF Solvable
  <2>3. PICK v \in Seq(T) : v = IF s[n + 1] \in S THEN r[n] ELSE Append(r[n], s[n + 1])
    <3>1. r[n] \in Seq(T)
      BY <2>2, <2>b
    <3>2. Append(r[n], s[n + 1]) \in Seq(T)
      BY <3>1, <2>b
    <3> QED BY <3>1, <3>2
  <2> DEFINE t == [i \in 0..(n + 1) |-> IF i = n + 1 THEN v ELSE r[i]]
  <2>4. t \in [0..(n + 1) -> Seq(T)]
    BY <2>3, <2>2, <2>0
  <2>5. RemainingSteps(s, S, t, n + 1)
    <3>1. t[0] = <<>>
      BY <2>0, <2>2 DEF RemainingSteps
    <3>2. ASSUME NEW i \in 1..(n + 1)
          PROVE  t[i] = IF s[i] \in S THEN t[i - 1] ELSE Append(t[i - 1], s[i])
      <4>1. CASE i = n + 1
        <5>1. t[i] = v /\ t[i - 1] = r[n] /\ s[i] = s[n + 1]
          BY <4>1, <2>0
        <5> HIDE DEF t
        <5> QED BY <5>1, <2>3
      <4>2. CASE i # n + 1
        <5>1. i \in 1..n /\ i - 1 \in 0..n /\ i \in 0..n /\ i - 1 # n + 1
          BY <4>2, <2>0
        <5>2. t[i] = r[i] /\ t[i - 1] = r[i - 1]
          BY <5>1, <4>2, <2>0
        <5>3. r[i] = IF s[i] \in S THEN r[i - 1] ELSE Append(r[i - 1], s[i])
          BY <5>1, <2>2 DEF RemainingSteps
        <5> HIDE DEF t
        <5> QED BY <5>2, <5>3
      <4> QED BY <4>1, <4>2
    <3> HIDE DEF t
    <3> QED BY <3>1, <3>2 DEF RemainingSteps
  <2> QED BY <2>4, <2>5
<1>3. N = Nat
  <2> HIDE DEF N
  <2>1. N \in SUBSET Nat BY DEF N
  <2> QED BY <1>1, <1>2, <2>1, SetInduction
<1>4. PICK r \in [0..Len(s) -> Seq(T)] : RemainingSteps(s, S, r, Len(s))
  <2> HIDE DEF Solvable
  <2>1. Len(s) \in N
    BY <1>3, <1>0
  <2>2. Solvable(Len(s)) /\ Len(s) <= Len(s)
    BY <2>1, <1>0
  <2> QED BY <2>2 DEF Solvable
<1> DEFINE Step(q, n) == IF n = 0 THEN <<>> ELSE IF s[n] \in S THEN q[n - 1] ELSE Append(q[n - 1], s[n])
<1>5. r = [n \in 0..Len(s) |-> Step(r, n)]
  <2>1. ASSUME NEW n \in 0..Len(s) PROVE r[n] = Step(r, n)
    <3>1. n = 0 \/ n \in 1..Len(s)
      BY <1>0
    <3>2. ASSUME n \in 1..Len(s) PROVE r[n] = Step(r, n)
      <4>1. r[n] = IF s[n] \in S THEN r[n - 1] ELSE Append(r[n - 1], s[n])
        BY <3>2, <1>4 DEF RemainingSteps
      <4>2. n # 0
        BY <3>2
      <4> QED BY <4>1, <4>2
    <3> QED BY <3>1, <3>2, <1>4 DEF RemainingSteps
  <2> HIDE DEF Step
  <2> QED BY <2>1, <1>4
<1> DEFINE R == CHOOSE q : q = [n \in 0..Len(s) |-> Step(q, n)]
<1>6. Remaining(s, S) = R[Len(s)]
  BY DEF Remaining
<1>7. R = [n \in 0..Len(s) |-> Step(R, n)]
  <2> HIDE DEF Step
  <2> QED BY <1>5
<1> HIDE DEF R
<1>8. R[0] = <<>> /\ \A n \in 0..Len(s) : R[n] = Step(R, n)
  <2>1. \A n \in 0..Len(s) : R[n] = Step(R, n)
    <3> HIDE DEF Step
    <3> QED BY <1>7
  <2>2. 0 \in 0..Len(s) /\ Step(R, 0) = <<>>
    BY <1>0
  <2> HIDE DEF Step
  <2> QED BY <2>1, <2>2
<1>9. R = r
  <2> DEFINE E == {k \in Nat : k <= Len(s) => R[k] = r[k]}
  <2>1. 0 \in E BY <1>8, <1>4 DEF RemainingSteps
  <2>2. ASSUME NEW n \in E PROVE n + 1 \in E
    <3>1. SUFFICES ASSUME n + 1 <= Len(s) PROVE R[n + 1] = r[n + 1]
      OBVIOUS
    <3>2. n + 1 \in 1..Len(s) /\ n + 1 \in 0..Len(s) /\ n + 1 # 0 /\ (n + 1) - 1 = n /\ R[n] = r[n]
      BY <3>1, <1>0
    <3>3. R[n + 1] = Step(R, n + 1) /\ r[n + 1] = Step(r, n + 1)
      <4>1. R[n + 1] = Step(R, n + 1)
        BY <1>8, <3>2
      <4>2. r[n + 1] = [m \in 0..Len(s) |-> Step(r, m)][n + 1]
        BY <1>5
      <4> QED BY <4>1, <4>2, <3>2
    <3> QED BY <3>2, <3>3
  <2>3. E = Nat
    <3> HIDE DEF E
    <3>1. E \in SUBSET Nat BY DEF E
    <3> QED BY <2>1, <2>2, <3>1, SetInduction
  <2>4. \A k \in 0..Len(s) : R[k] = r[k]
    BY <2>3, <1>0
  <2>5. R = [n \in 0..Len(s) |-> R[n]] /\ r = [n \in 0..Len(s) |-> r[n]]
    <3> HIDE DEF Step
    <3> QED BY <1>7, <1>4
  <2> QED BY <2>4, <2>5
<1>10. Len(s) \in 0..Len(s)
  BY <1>0
<1> QED BY <1>4, <1>6, <1>9

\* g says where the elements of k stand in the first n of s: k has exactly those that
\* are not in S, in their order, each moved down by no more places than there are
\* elements missing.
Traces(s, S, k, n, g) ==
  /\ Len(k) <= n /\ g \in [1..Len(k) -> 1..n]
  /\ \A i \in 1..Len(k) :
       i <= g[i] /\ g[i] <= i + (n - Len(k)) /\ k[i] = s[g[i]] /\ s[g[i]] \notin S
  /\ \A i \in 1..Len(k) : \A j \in 1..Len(k) : i < j => g[i] < g[j]
  /\ \A m \in 1..n : s[m] \notin S => \E i \in 1..Len(k) : g[i] = m

LEMMA RemainingProperties ==
  ASSUME NEW T, NEW s \in Seq(T), NEW S
  PROVE  /\ Remaining(s, S) \in Seq(T)
         /\ \E g : Traces(s, S, Remaining(s, S), Len(s), g)
<1>0. Len(s) \in Nat
  OBVIOUS
<1>1. PICK r \in [0..Len(s) -> Seq(T)] : RemainingSteps(s, S, r, Len(s)) /\ Remaining(s, S) = r[Len(s)]
  BY RemainingSolved
<1> DEFINE Traced(n) == n <= Len(s) => \E g : Traces(s, S, r[n], n, g)
<1> DEFINE N == {n \in Nat : Traced(n)}
<1>2. 0 \in N
  <2>1. r[0] = <<>> /\ Len(<<>>) = 0
    BY <1>1 DEF RemainingSteps
  <2> DEFINE g == [i \in 1..Len(<<>>) |-> 1]
  <2>2. Traces(s, S, <<>>, 0, g)
    BY <2>1 DEF Traces
  <2> QED BY <2>1, <2>2
<1>3. ASSUME NEW n \in N PROVE n + 1 \in N
  <2>1. SUFFICES ASSUME n + 1 <= Len(s) PROVE \E g : Traces(s, S, r[n + 1], n + 1, g)
    OBVIOUS
  <2>2. n \in Nat /\ n <= Len(s) /\ n + 1 \in 1..Len(s) /\ n \in 0..Len(s) /\ (n + 1) - 1 = n
    BY <2>1, <1>0
  <2>3. PICK g : Traces(s, S, r[n], n, g)
    BY <2>2
  <2>4. r[n + 1] = IF s[n + 1] \in S THEN r[n] ELSE Append(r[n], s[n + 1])
    BY <2>2, <1>1 DEF RemainingSteps
  <2>5. PICK k \in Seq(T) : k = r[n]
    BY <2>2
  <2>6. PICK l \in Nat : l = Len(k)
    BY <2>5
  <2>g. /\ l <= n /\ g \in [1..l -> 1..n]
        /\ \A i \in 1..l : i <= g[i] /\ g[i] <= i + (n - l) /\ k[i] = s[g[i]] /\ s[g[i]] \notin S
        /\ \A i \in 1..l : \A j \in 1..l : i < j => g[i] < g[j]
        /\ \A m \in 1..n : s[m] \notin S => \E i \in 1..l : g[i] = m
    BY <2>3, <2>5, <2>6 DEF Traces
  <2>7. CASE s[n + 1] \in S
    <3>1. l <= n + 1 /\ g \in [1..l -> 1..(n + 1)]
      BY <2>g, <2>2
    <3>2. ASSUME NEW i \in 1..l PROVE g[i] <= i + ((n + 1) - l)
      <4>1. g[i] \in 1..n /\ g[i] <= i + (n - l) /\ i \in Nat
        BY <2>g
      <4> QED BY <4>1, <2>2, <2>6
    <3>3. ASSUME NEW m \in 1..(n + 1), s[m] \notin S PROVE \E i \in 1..l : g[i] = m
      <4>1. m # n + 1
        BY <3>3, <2>7
      <4>2. m \in 1..n
        BY <4>1, <2>2
      <4> QED BY <4>2, <3>3, <2>g
    <3>4. Traces(s, S, k, n + 1, g)
      BY <3>1, <3>2, <3>3, <2>g, <2>6 DEF Traces
    <3> QED BY <3>4, <2>4, <2>5, <2>7
  <2>8. CASE s[n + 1] \notin S
    <3>1. PICK a \in T : a = s[n + 1]
      <4>1. s[n + 1] \in T
        BY <2>2
      <4> QED BY <4>1
    <3>2. PICK q \in Seq(T) : q = Append(k, a)
      <4>1. Append(k, a) \in Seq(T)
        BY <3>1, <2>5
      <4> QED BY <4>1
    <3>3. Len(q) = l + 1 /\ q[l + 1] = a /\ \A i \in 1..l : q[i] = k[i]
      BY <3>1, <3>2, <2>5, <2>6
    <3> DEFINE h == [i \in 1..(l + 1) |-> IF i = l + 1 THEN n + 1 ELSE g[i]]
    <3>4. h[l + 1] = n + 1 /\ \A i \in 1..l : h[i] = g[i] /\ g[i] \in 1..n
      <4>1. l + 1 \in 1..(l + 1)
        BY <2>6
      <4>2. ASSUME NEW i \in 1..l PROVE i \in 1..(l + 1) /\ i # l + 1 /\ g[i] \in 1..n
        <5>1. g[i] \in 1..n
          BY <2>g
        <5>2. i \in 1..(l + 1) /\ i # l + 1
          BY <2>6
        <5> QED BY <5>1, <5>2
      <4> QED BY <4>1, <4>2
    <3>5. h \in [1..(l + 1) -> 1..(n + 1)]
      <4>1. ASSUME NEW i \in 1..(l + 1) PROVE (IF i = l + 1 THEN n + 1 ELSE g[i]) \in 1..(n + 1)
        <5>1. CASE i = l + 1
          BY <5>1, <2>2
        <5>2. CASE i # l + 1
          <6>1. i \in 1..l
            BY <5>2, <2>6
          <6>2. g[i] \in 1..n
            BY <6>1, <2>g
          <6> QED BY <6>2, <5>2, <2>2
        <5> QED BY <5>1, <5>2
      <4> QED BY <4>1
    <3> HIDE DEF h
    <3>6. ASSUME NEW i \in 1..(l + 1)
          PROVE  i <= h[i] /\ h[i] <= i + ((n + 1) - (l + 1)) /\ q[i] = s[h[i]] /\ s[h[i]] \notin S
      <4>1. CASE i = l + 1
        <5>1. h[i] = n + 1 /\ q[i] = a
          BY <4>1, <3>3, <3>4
        <5>2. i <= n + 1 /\ n + 1 <= i + ((n + 1) - (l + 1))
          BY <4>1, <2>g, <2>2, <2>6
        <5> QED BY <5>1, <5>2, <3>1, <2>8
      <4>2. CASE i # l + 1
        <5>1. i \in 1..l
          BY <4>2, <2>6
        <5>2. h[i] = g[i] /\ q[i] = k[i] /\ g[i] \in 1..n
          BY <5>1, <3>3, <3>4
        <5>3. i <= g[i] /\ g[i] <= i + (n - l) /\ k[i] = s[g[i]] /\ s[g[i]] \notin S
          BY <5>1, <2>g
        <5>4. n - l = (n + 1) - (l + 1)
          BY <2>2, <2>6
        <5> QED BY <5>2, <5>3, <5>4
      <4> QED BY <4>1, <4>2
    <3>7. ASSUME NEW i \in 1..(l + 1), NEW j \in 1..(l + 1), i < j PROVE h[i] < h[j]
      <4>1. i \in 1..l
        BY <3>7, <2>6
      <4>2. h[i] = g[i] /\ g[i] \in 1..n
        BY <4>1, <3>4
      <4>3. CASE j = l + 1
        <5>1. h[j] = n + 1
          BY <4>3, <3>4
        <5> QED BY <4>2, <5>1, <2>2
      <4>4. CASE j # l + 1
        <5>1. j \in 1..l
          BY <4>4, <2>6
        <5>2. h[j] = g[j] /\ g[i] < g[j]
          BY <5>1, <4>1, <3>4, <3>7, <2>g
        <5> QED BY <4>2, <5>2
      <4> QED BY <4>3, <4>4
    <3>8. ASSUME NEW m \in 1..(n + 1), s[m] \notin S PROVE \E i \in 1..(l + 1) : h[i] = m
      <4>1. CASE m = n + 1
        <5>1. l + 1 \in 1..(l + 1)
          BY <2>6
        <5> QED BY <5>1, <4>1, <3>4
      <4>2. CASE m # n + 1
        <5>1. m \in 1..n
          BY <4>2, <2>2
        <5>2. PICK i \in 1..l : g[i] = m
          BY <5>1, <3>8, <2>g
        <5>3. i \in 1..(l + 1) /\ h[i] = m
          BY <5>2, <3>4, <2>6
        <5> QED BY <5>3
      <4> QED BY <4>1, <4>2
    <3>9. l + 1 <= n + 1
      BY <2>g, <2>2, <2>6
    <3>10. Traces(s, S, q, n + 1, h)
      BY <3>3, <3>5, <3>6, <3>7, <3>8, <3>9 DEF Traces
    <3>11. r[n + 1] = q
      BY <2>4, <2>5, <2>8, <3>1, <3>2
    <3> QED BY <3>10, <3>11
  <2> QED BY <2>7, <2>8
<1>4. N = Nat
  <2> HIDE DEF N
  <2>1. N \in SUBSET Nat BY DEF N
  <2> QED BY <1>2, <1>3, <2>1, SetInduction
<1>5. \E g : Traces(s, S, r[Len(s)], Len(s), g)
  <2>1. Len(s) \in N
    BY <1>4, <1>0
  <2>2. Traced(Len(s)) /\ Len(s) <= Len(s)
    BY <2>1, <1>0
  <2> QED BY <2>2
<1>6. r[Len(s)] \in Seq(T)
  BY <1>0
<1> QED BY <1>1, <1>5, <1>6

\* As sets.
Elements(s) == {s[i] : i \in 1..Len(s)}
LEMMA RemainingElements ==
  ASSUME NEW T, NEW s \in Seq(T), NEW S
  PROVE  /\ Remaining(s, S) \in Seq(T) /\ Elements(Remaining(s, S)) = Elements(s) \ S
         /\ DOMAIN Remaining(s, S) = 1..Len(Remaining(s, S)) /\ DOMAIN s = 1..Len(s)
<1>1. PICK k \in Seq(T) : k = Remaining(s, S)
  BY RemainingProperties
<1>2. PICK g : Traces(s, S, k, Len(s), g)
  BY <1>1, RemainingProperties
<1>3. ASSUME NEW x \in Elements(k) PROVE x \in Elements(s) \ S
  <2>1. PICK i \in 1..Len(k) : x = k[i]
    BY DEF Elements
  <2>2. k[i] = s[g[i]] /\ s[g[i]] \notin S /\ g[i] \in 1..Len(s)
    BY <1>2 DEF Traces
  <2> QED BY <2>1, <2>2 DEF Elements
<1>4. ASSUME NEW x \in Elements(s) \ S PROVE x \in Elements(k)
  <2>1. PICK m \in 1..Len(s) : x = s[m]
    BY DEF Elements
  <2>2. PICK i \in 1..Len(k) : g[i] = m
    BY <1>2, <2>1 DEF Traces
  <2>3. k[i] = s[g[i]]
    BY <1>2 DEF Traces
  <2> QED BY <2>1, <2>2, <2>3 DEF Elements
<1>5. Elements(k) = Elements(s) \ S
  BY <1>3, <1>4
<1>6. DOMAIN k = 1..Len(k) /\ DOMAIN s = 1..Len(s)
  OBVIOUS
<1> QED BY <1>1, <1>5, <1>6
=============================================================================
