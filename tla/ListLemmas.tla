----------------------------- MODULE ListLemmas -----------------------------
(***************************************************************************)
(* Lemmas about numbers, sequences and the operators of SequencesExt and   *)
(* FiniteSetsExt, which the proofs about texts and names share.  What a    *)
(* recursive function computes is proved here by the least element         *)
(* principle, for a set of numbers in place of a predicate.                *)
(***************************************************************************)
EXTENDS SequencesExt, SequenceTheorems, WellFoundedInduction, TLAPS

-----------------------------------------------------------------------------
(* Numbers                                                                 *)

\* A set of numbers has a least element.
LEMMA Least ==
  ASSUME NEW T \in SUBSET Nat, T # {}
  PROVE  \E n \in T : \A m \in T : n <= m
<1>1. PICK n \in T : \A m \in T : <<m, n>> \notin OpToRel(<, Nat)
  BY NatLessThanWellFounded, WFMin, Zenon
<1>2. \A m \in T : ~ (m < n)
  BY <1>1 DEF OpToRel
<1> QED  BY <1>2

\* Induction: a set of numbers that holds 0 and with each number the next.
LEMMA Induction ==
  ASSUME NEW T \in SUBSET Nat, 0 \in T, \A n \in T : n + 1 \in T
  PROVE  T = Nat
<1> DEFINE U == Nat \ T
<1> SUFFICES ASSUME U # {} PROVE FALSE
  OBVIOUS
<1>1. PICK n \in U : \A m \in U : n <= m
  BY Least
<1>2. n - 1 \in T
  BY <1>1
<1> QED  BY <1>2, <1>1

\* Min of a set of numbers is its least element.
LEMMA MinOfSet ==
  ASSUME NEW T \in SUBSET Nat, T # {}
  PROVE  Min(T) \in T /\ \A m \in T : Min(T) <= m
BY Least DEF Min

\* Max of a bounded set of numbers is its greatest element.
LEMMA MaxOfSet ==
  ASSUME NEW T \in SUBSET Nat, T # {}, NEW b \in Nat, \A m \in T : m <= b
  PROVE  Max(T) \in T /\ \A m \in T : m <= Max(T)
<1> DEFINE U == {b - m : m \in T}
<1>0. U \in SUBSET Nat /\ U # {}
  <2>1. \A m \in T : b - m \in Nat
    OBVIOUS
  <2>2. U # {}
    OBVIOUS
  <2> QED  BY <2>1, <2>2
<1>1. \E u \in U : \A v \in U : u <= v
  <2> HIDE DEF U
  <2> QED  BY <1>0, Least
<1>2. PICK n \in T : \A v \in U : b - n <= v
  BY <1>1
<1>3. \A m \in T : m <= n
  BY <1>2
<1>4. \E x \in T : \A y \in T : x >= y
  BY <1>3
<1> QED  BY <1>4 DEF Max

-----------------------------------------------------------------------------
(* Recursion over a list of steps                                          *)

\* The functions that lead from one of N + 1 values in A to the next.
StepsIn(A, N) == [1 .. N -> [A -> A]]

\* g has the values that the functions F lead to.
Follows(g, F, N) == \A i \in 1 .. N : g[i] = F[i][g[i - 1]]

\* A recursive function over 0 .. N has a value everywhere.
LEMMA Recursion ==
  ASSUME NEW A, NEW a \in A, NEW N \in Nat, NEW F \in StepsIn(A, N)
  PROVE  \E g \in [0 .. N -> A] : g[0] = a /\ Follows(g, F, N)
<1> USE DEF StepsIn, Follows
<1> DEFINE Solves(n, g) == g[0] = a /\ Follows(g, F, n)
           T == {n \in Nat : n <= N => \E g \in [0 .. n -> A] : Solves(n, g)}
<1>1. 0 \in T
  <2>1. [i \in 0 .. 0 |-> a] \in [0 .. 0 -> A] /\ Solves(0, [i \in 0 .. 0 |-> a])
    OBVIOUS
  <2> QED  BY <2>1
<1>2. ASSUME NEW n \in T PROVE n + 1 \in T
  <2> SUFFICES ASSUME n + 1 <= N PROVE \E g \in [0 .. n + 1 -> A] : Solves(n + 1, g)
    OBVIOUS
  <2>1. PICK g \in [0 .. n -> A] : Solves(n, g)
    OBVIOUS
  <2> DEFINE h == [i \in 0 .. n + 1 |-> IF i = n + 1 THEN F[n + 1][g[n]] ELSE g[i]]
  <2>2. h \in [0 .. n + 1 -> A]
    <3>1. F[n + 1] \in [A -> A] /\ g[n] \in A
      OBVIOUS
    <3> QED  BY <3>1
  <2>3. h[0] = a
    BY <2>1
  <2>4. ASSUME NEW i \in 1 .. n + 1 PROVE h[i] = F[i][h[i - 1]]
    <3>1. CASE i = n + 1
      <4>1. h[n + 1] = F[n + 1][g[n]] /\ h[n] = g[n] /\ (n + 1) - 1 = n
        OBVIOUS
      <4> HIDE DEF h
      <4> QED  BY <3>1, <4>1
    <3>2. CASE i # n + 1
      <4>1. i \in 1 .. n /\ i - 1 \in 0 .. n /\ i - 1 # n + 1
        BY <3>2
      <4>2. g[i] = F[i][g[i - 1]]
        BY <2>1, <4>1
      <4>3. h[i] = g[i] /\ h[i - 1] = g[i - 1]
        BY <4>1, <3>2
      <4> QED  BY <4>2, <4>3
    <3> QED  BY <3>1, <3>2
  <2> HIDE DEF h
  <2> QED  BY <2>2, <2>3, <2>4
<1>3. T = Nat
  <2> HIDE DEF T
  <2>1. T \subseteq Nat
    BY DEF T
  <2> QED  BY <1>1, <1>2, <2>1, Induction
<1>4. N \in T
  BY <1>3
<1> QED  BY <1>4

\* Two solutions of one recursion agree.
LEMMA OneSolution ==
  ASSUME NEW N \in Nat, NEW F, NEW g, NEW h, g[0] = h[0],
         Follows(g, F, N), Follows(h, F, N)
  PROVE  \A i \in 0 .. N : g[i] = h[i]
<1> USE DEF Follows
<1> DEFINE T == {n \in Nat : n <= N => g[n] = h[n]}
<1>1. 0 \in T
  OBVIOUS
<1>2. ASSUME NEW n \in T PROVE n + 1 \in T
  <2> SUFFICES ASSUME n + 1 <= N PROVE g[n + 1] = h[n + 1]
    OBVIOUS
  <2>1. g[n] = h[n] /\ n + 1 \in 1 .. N /\ (n + 1) - 1 = n
    OBVIOUS
  <2> QED  BY <2>1
<1>3. T = Nat
  <2> HIDE DEF T
  <2>1. T \subseteq Nat
    BY DEF T
  <2> QED  BY <1>1, <1>2, <2>1, Induction
<1> QED  BY <1>3

-----------------------------------------------------------------------------
(* FlattenSeq                                                              *)

\* What has been joined after the first i of the sequences in s.
Joins(s, f) == f[0] = <<>> /\ \A i \in 1 .. Len(s) : f[i] = f[i - 1] \o s[i]

\* There is one way to join them.
LEMMA JoinsOnce ==
  ASSUME NEW s, Len(s) \in Nat, NEW f, NEW h, Joins(s, f), Joins(s, h)
  PROVE  \A i \in 0 .. Len(s) : f[i] = h[i]
<1> DEFINE N == Len(s)
           G == [i \in 1 .. N |-> [t \in {h[i - 1], f[i - 1]} |-> t \o s[i]]]
<1>1. \A i \in 1 .. N : G[i][h[i - 1]] = h[i - 1] \o s[i] /\ G[i][f[i - 1]] = f[i - 1] \o s[i]
  OBVIOUS
<1> HIDE DEF G
<1>2. f[0] = h[0]
  BY DEF Joins
<1>3. Follows(f, G, N) /\ Follows(h, G, N)
  BY <1>1 DEF Joins, Follows
<1> QED  BY <1>2, <1>3, OneSolution

\* FlattenSeq joins the sequences one after the other.
LEMMA FlattenJoins ==
  ASSUME NEW B, NEW s \in Seq(Seq(B))
  PROVE  \E f \in [0 .. Len(s) -> Seq(B)] : Joins(s, f) /\ FlattenSeq(s) = f[Len(s)]
<1> DEFINE N == Len(s)
           F == [i \in 1 .. N |-> [t \in Seq(B) |-> t \o s[i]]]
           J(g) == [i \in 1 .. N |-> IF i = 1 THEN s[i] ELSE g[i - 1] \o s[i]]
<1>1. /\ N \in Nat /\ \A i \in 1 .. N : s[i] \in Seq(B)
      /\ <<>> \in Seq(B)
  BY LenProperties, ElementOfSeq, EmptySeq
<1>2. F \in StepsIn(Seq(B), N)
  <2>1. \A t \in Seq(B), i \in 1 .. N : t \o s[i] \in Seq(B)
    BY <1>1, ConcatProperties
  <2> QED  BY <2>1 DEF StepsIn
<1>3. PICK f \in [0 .. N -> Seq(B)] : f[0] = <<>> /\ Follows(f, F, N)
  <2> HIDE DEF F, N
  <2> QED  BY <1>1, <1>2, Recursion
<1>4. \A i \in 1 .. N : f[i] = f[i - 1] \o s[i]
  <2>1. \A i \in 1 .. N : i - 1 \in 0 .. N
    BY <1>1
  <2> QED  BY <1>3, <2>1 DEF Follows
<1>5. CASE N = 0
  <2>1. s = <<>> /\ FlattenSeq(s) = s
    <3>1. s = <<>>
      BY <1>5, EmptySeq
    <3>2. Len(s) = 0
      BY <1>5
    <3> HIDE DEF N
    <3>3. FlattenSeq(s) = s
      BY <3>2 DEF FlattenSeq
    <3> QED  BY <3>1, <3>3
  <2> QED  BY <1>3, <1>5, <2>1 DEF Joins
<1>6. CASE N # 0
  <2> DEFINE r == [i \in 1 .. N |-> f[i]]
  <2>1. f[1] = s[1]
    <3>1. 1 \in 1 .. N /\ 1 - 1 = 0
      BY <1>1, <1>6
    <3>2. f[1] = f[0] \o s[1]
      BY <1>4, <3>1
    <3> QED  BY <1>1, <1>3, <3>1, <3>2, ConcatEmptySeq
  <2>2. r = J(r)
    <3>1. ASSUME NEW i \in 1 .. N PROVE r[i] = IF i = 1 THEN s[i] ELSE r[i - 1] \o s[i]
      <4>1. i # 1 => i - 1 \in 1 .. N
        BY <1>1
      <4> QED  BY <1>4, <2>1, <4>1
    <3> HIDE DEF r
    <3>2. r = [i \in 1 .. N |-> r[i]]
      BY DEF r
    <3> QED  BY <3>1, <3>2
  <2>3. \E g : g = J(g) /\ FlattenSeq(s) = g[N]
    <3>1. N # 0 /\ \E g : g = J(g)
      <4> HIDE DEF r
      <4> QED  BY <1>6, <2>2
    <3> QED  BY <3>1, Zenon DEF FlattenSeq
  <2>4. PICK g : g = J(g) /\ FlattenSeq(s) = g[N]
    BY <2>3
  <2> DEFINE h == [i \in 0 .. N |-> IF i = 0 THEN <<>> ELSE g[i]]
  <2>5. \A i \in 1 .. N : g[i] = IF i = 1 THEN s[i] ELSE g[i - 1] \o s[i]
    <3> HIDE DEF F
    <3> QED  BY <2>4, Zenon
  <2>6. h[0] = <<>> /\ \A i \in 1 .. N : h[i] = g[i]
    BY <1>1
  <2>7. \A i \in 1 .. N : h[i] = h[i - 1] \o s[i]
    <3> HIDE DEF h
    <3> SUFFICES ASSUME NEW i \in 1 .. N PROVE h[i] = h[i - 1] \o s[i]
      OBVIOUS
    <3>1. CASE i = 1
      <4>1. h[i - 1] = <<>> /\ h[i] = s[i]
        BY <2>5, <2>6, <3>1
      <4> QED  BY <1>1, <4>1, ConcatEmptySeq
    <3>2. CASE i # 1
      <4>1. i - 1 \in 1 .. N
        BY <3>2, <1>1
      <4> QED  BY <2>5, <2>6, <4>1, <3>2
    <3> QED  BY <3>1, <3>2
  <2>8. \A i \in 0 .. N : f[i] = h[i]
    <3> HIDE DEF h, F
    <3>1. Joins(s, f) /\ Joins(s, h)
      BY <1>3, <1>4, <2>6, <2>7 DEF Joins
    <3> QED  BY <1>1, <3>1, JoinsOnce
  <2>9. FlattenSeq(s) = f[N]
    <3>1. h[N] = f[N] /\ h[N] = g[N]
      <4>1. N \in 0 .. N /\ N \in 1 .. N
        BY <1>1, <1>6
      <4> HIDE DEF h, N
      <4> QED  BY <2>6, <2>8, <4>1
    <3> QED  BY <2>4, <3>1
  <2> QED  BY <1>3, <1>4, <2>9 DEF Joins
<1> QED  BY <1>5, <1>6

\* Nothing joined is nothing.
LEMMA FlattenEmpty == FlattenSeq(<<>>) = <<>>
<1>1. Len(<<>>) = 0
  OBVIOUS
<1> QED  BY <1>1 DEF FlattenSeq

\* Of the sequences in s, the first m joined are what was joined after m of them.
LEMMA FlattenFirst ==
  ASSUME NEW B, NEW s \in Seq(Seq(B)), NEW f, Joins(s, f), NEW m \in 0 .. Len(s)
  PROVE  FlattenSeq(SubSeq(s, 1, m)) = f[m]
<1> DEFINE t == SubSeq(s, 1, m)
<1>1. t \in Seq(Seq(B)) /\ Len(t) = m /\ \A i \in 1 .. m : t[i] = s[i]
  OBVIOUS
<1>0. \A i \in 1 .. m : i \in 1 .. Len(s)
  OBVIOUS
<1> HIDE DEF t
<1>2. Joins(t, f)
  BY <1>0, <1>1 DEF Joins
<1>3. PICK g \in [0 .. Len(t) -> Seq(B)] : Joins(t, g) /\ FlattenSeq(t) = g[Len(t)]
  BY <1>1, FlattenJoins
<1>4. \A i \in 0 .. Len(t) : g[i] = f[i]
  <2>1. Len(t) \in Nat /\ Joins(t, g)
    BY <1>1, <1>3
  <2> QED  BY <1>2, <2>1, JoinsOnce
<1> QED  BY <1>1, <1>3, <1>4 DEF t

\* The type of what is joined.
LEMMA FlattenType ==
  ASSUME NEW B, NEW s \in Seq(Seq(B))
  PROVE  FlattenSeq(s) \in Seq(B)
<1>1. PICK f \in [0 .. Len(s) -> Seq(B)] : Joins(s, f) /\ FlattenSeq(s) = f[Len(s)]
  BY FlattenJoins
<1>2. Len(s) \in 0 .. Len(s)
  OBVIOUS
<1> QED  BY <1>1, <1>2

\* One more of the sequences in s.
LEMMA FlattenNext ==
  ASSUME NEW B, NEW s \in Seq(Seq(B)), NEW m \in 0 .. Len(s) - 1
  PROVE  FlattenSeq(SubSeq(s, 1, m + 1)) = FlattenSeq(SubSeq(s, 1, m)) \o s[m + 1]
<1>1. PICK f \in [0 .. Len(s) -> Seq(B)] : Joins(s, f)
  BY FlattenJoins
<1>2. m \in 0 .. Len(s) /\ m + 1 \in 0 .. Len(s) /\ m + 1 \in 1 .. Len(s) /\ (m + 1) - 1 = m
  OBVIOUS
<1>3. FlattenSeq(SubSeq(s, 1, m)) = f[m] /\ FlattenSeq(SubSeq(s, 1, m + 1)) = f[m + 1]
  BY <1>1, <1>2, FlattenFirst
<1>4. f[m + 1] = f[m] \o s[m + 1]
  BY <1>1, <1>2 DEF Joins
<1> QED  BY <1>3, <1>4

\* One more sequence at the end.
LEMMA FlattenAppend ==
  ASSUME NEW B, NEW s \in Seq(Seq(B)), NEW x \in Seq(B)
  PROVE  FlattenSeq(Append(s, x)) = FlattenSeq(s) \o x
<1> DEFINE t == Append(s, x)
<1>1. /\ t \in Seq(Seq(B)) /\ Len(t) = Len(s) + 1 /\ Len(s) \in 0 .. Len(t) - 1
      /\ t[Len(s) + 1] = x
  BY AppendProperties
<1>2. SubSeq(t, 1, Len(s)) = s /\ SubSeq(t, 1, Len(s) + 1) = t
  OBVIOUS
<1> HIDE DEF t
<1>3. FlattenSeq(SubSeq(t, 1, Len(s) + 1)) = FlattenSeq(SubSeq(t, 1, Len(s))) \o t[Len(s) + 1]
  BY <1>1, FlattenNext
<1> QED  BY <1>1, <1>2, <1>3 DEF t

\* The first m of the sequences joined are a beginning of all of them joined.
LEMMA FlattenBeginning ==
  ASSUME NEW B, NEW s \in Seq(Seq(B)), NEW m \in 0 .. Len(s)
  PROVE  \E k \in 0 .. Len(FlattenSeq(s)) :
           FlattenSeq(SubSeq(s, 1, m)) = SubSeq(FlattenSeq(s), 1, k)
<1>1. PICK f \in [0 .. Len(s) -> Seq(B)] : Joins(s, f)
  BY FlattenJoins
<1> DEFINE Begins(u, v) == \E k \in 0 .. Len(v) : u = SubSeq(v, 1, k)
           T == {n \in Nat : m <= n /\ n <= Len(s) => Begins(f[m], f[n])}
<1>0. \A n \in 0 .. Len(s) : f[n] \in Seq(B) /\ Begins(f[n], f[n])
  <2>1. \A u \in Seq(B) : u = SubSeq(u, 1, Len(u)) /\ Len(u) \in 0 .. Len(u)
    OBVIOUS
  <2> QED  BY <2>1
<1>2. 0 \in T
  BY <1>0
<1>3. ASSUME NEW n \in T PROVE n + 1 \in T
  <2> SUFFICES ASSUME m <= n + 1, n + 1 <= Len(s) PROVE Begins(f[m], f[n + 1])
    OBVIOUS
  <2>1. CASE m = n + 1
    <3>1. Begins(f[m], f[m])
      BY <1>0
    <3> QED  BY <2>1, <3>1
  <2>2. CASE m # n + 1
    <3>1. PICK k \in 0 .. Len(f[n]) : f[m] = SubSeq(f[n], 1, k)
      BY <2>2
    <3>2. f[n + 1] = f[n] \o s[n + 1] /\ f[n] \in Seq(B) /\ s[n + 1] \in Seq(B)
      <4>1. n + 1 \in 1 .. Len(s) /\ (n + 1) - 1 = n /\ n \in 0 .. Len(s)
        OBVIOUS
      <4>2. f[n + 1] = f[n] \o s[n + 1]
        BY <1>1, <4>1 DEF Joins
      <4>3. s[n + 1] \in Seq(B)
        BY <4>1
      <4> QED  BY <1>0, <4>1, <4>2, <4>3
    <3>3. k \in 0 .. Len(f[n + 1]) /\ SubSeq(f[n + 1], 1, k) = SubSeq(f[n], 1, k)
      <4> DEFINE u == f[n]  v == s[n + 1]
      <4>1. u \in Seq(B) /\ v \in Seq(B) /\ k \in 0 .. Len(u)
        BY <3>2
      <4> HIDE DEF u, v
      <4>2. k \in 0 .. Len(u \o v) /\ SubSeq(u \o v, 1, k) = SubSeq(u, 1, k)
        BY <4>1
      <4> QED  BY <3>2, <4>2 DEF u, v
    <3> QED  BY <3>1, <3>3
  <2> QED  BY <2>1, <2>2
<1>4. T = Nat
  <2> HIDE DEF T
  <2>1. T \subseteq Nat
    BY DEF T
  <2> QED  BY <1>2, <1>3, <2>1, Induction
<1>5. Begins(f[m], f[Len(s)])
  <2>1. Len(s) \in T
    BY <1>4
  <2> QED  BY <2>1
<1>6. FlattenSeq(SubSeq(s, 1, m)) = f[m] /\ FlattenSeq(SubSeq(s, 1, Len(s))) = f[Len(s)]
  BY <1>1, FlattenFirst
<1>7. SubSeq(s, 1, Len(s)) = s
  OBVIOUS
<1> QED  BY <1>5, <1>6, <1>7

-----------------------------------------------------------------------------
(* Beginnings and ends                                                     *)

\* What was appended last is at the end.
LEMMA SuffixOfConcat ==
  ASSUME NEW B, NEW s \in Seq(B), NEW t \in Seq(B)
  PROVE  IsSuffix(t, s \o t)
<1> DEFINE u == s \o t
<1>1. u \in Seq(B) /\ Len(u) = Len(s) + Len(t) /\ Len(s) \in Nat /\ Len(t) \in Nat
  BY ConcatProperties
<1>2. /\ Reverse(t) \in Seq(B) /\ Len(Reverse(t)) = Len(t)
      /\ \A i \in 1 .. Len(t) : Reverse(t)[i] = t[(Len(t) - i) + 1]
  BY DEF Reverse
<1>3. /\ Reverse(u) \in Seq(B) /\ Len(Reverse(u)) = Len(u)
      /\ \A i \in 1 .. Len(u) : Reverse(u)[i] = u[(Len(u) - i) + 1]
  <2> HIDE DEF u
  <2> QED  BY <1>1 DEF Reverse
<1>4. ASSUME NEW i \in 1 .. Len(t) PROVE Reverse(t)[i] = Reverse(u)[i]
  <2>1. (Len(u) - i) + 1 = Len(s) + ((Len(t) - i) + 1) /\ (Len(t) - i) + 1 \in 1 .. Len(t)
    BY <1>1
  <2>2. u[Len(s) + ((Len(t) - i) + 1)] = t[(Len(t) - i) + 1]
    BY <1>1, <2>1, ConcatProperties
  <2> HIDE DEF u
  <2>3. i \in 1 .. Len(u)
    BY <1>1
  <2> QED  BY <1>2, <1>3, <2>1, <2>2, <2>3
<1> HIDE DEF u
<1>5. SubSeq(Reverse(t), 1, Len(t)) = SubSeq(Reverse(u), 1, Len(t))
  <2> DEFINE p == Reverse(t)  q == Reverse(u)
  <2>1. p \in Seq(B) /\ q \in Seq(B) /\ Len(p) = Len(t) /\ Len(p) <= Len(q)
    BY <1>1, <1>2, <1>3
  <2>2. \A i \in 1 .. Len(p) : p[i] = q[i]
    BY <1>2, <1>4
  <2> HIDE DEF p, q
  <2>3. SubSeq(p, 1, Len(p)) = SubSeq(q, 1, Len(p))
    BY <2>1, <2>2
  <2> QED  BY <2>1, <2>3 DEF p, q
<1> QED  BY <1>1, <1>2, <1>3, <1>5 DEF IsSuffix, IsPrefix, u
=============================================================================
