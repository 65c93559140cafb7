---------------------------- MODULE CommonLemmas ----------------------------
(***************************************************************************)
(* What several proofs rest on: the least of a set of numbers; unsigned    *)
(* counters of width M, for which wrapping at every addition gives the     *)
(* same value as wrapping once at the end; and sequences one element       *)
(* longer.                                                                 *)
(***************************************************************************)
EXTENDS Integers, Sequences, WellFoundedInduction, TLAPS

(* A set of numbers that is not empty has a least element.                 *)
LEMMA Least ==
  ASSUME NEW T, T \subseteq Nat, T # {}
  PROVE  \E x \in T : \A y \in T : x <= y
<1>1. PICK x \in T : \A y \in T : ~(<<y, x>> \in OpToRel(<, Nat))
  BY WFMin, NatLessThanWellFounded
<1>2. \A y \in T : ~(y < x)
  BY <1>1 DEF OpToRel
<1> QED  BY <1>2

(* The decomposition every unsigned value of width M comes from.           *)
LEMMA DivMod ==
  ASSUME NEW M \in Nat, M > 0, NEW s \in Nat
  PROVE  /\ s = M * (s \div M) + (s % M)
         /\ (s % M) \in 0 .. M - 1
         /\ (s \div M) \in Nat
  OBVIOUS

(* The decomposition is unique.                                            *)
LEMMA ModUnique ==
  ASSUME NEW M \in Nat, M > 0, NEW q \in Nat, NEW r \in Nat, r < M,
         NEW s \in Nat, s = M * q + r
  PROVE  s % M = r
<1> DEFINE p == s \div M
           t == s % M
<1>1. s = M * p + t /\ t \in 0 .. M - 1 /\ p \in Nat  BY DivMod
<1> HIDE DEF p, t
<1>2. M * (p - q) = r - t  BY <1>1
<1>3. CASE p - q >= 1
  <2>1. M * (p - q) >= M  BY <1>1, <1>3
  <2> QED  BY <1>2, <2>1, <1>1
<1>4. CASE q - p >= 1
  <2>1. M * (q - p) >= M  BY <1>1, <1>4
  <2>2. M * (q - p) = t - r  BY <1>1
  <2> QED  BY <2>2, <2>1, <1>1
<1>5. CASE p = q  BY <1>5, <1>1 DEF t
<1> QED  BY <1>3, <1>4, <1>5, <1>1

(* A sum that wraps at every step is the sum that wraps once.              *)
LEMMA WrapOnce ==
  ASSUME NEW M \in Nat, M > 0, NEW s \in Nat, NEW z \in Nat
  PROVE  ((s % M) + z) % M = (s + z) % M
<1> DEFINE a == s % M
           b == s \div M
<1>1. s = M * b + a /\ a \in Nat /\ b \in Nat  BY DivMod
<1> HIDE DEF a, b
<1> DEFINE c == (a + z) % M
           d == (a + z) \div M
<1>2. a + z = M * d + c /\ c \in Nat /\ c < M /\ d \in Nat
  <2> a + z \in Nat  BY <1>1
  <2> QED  BY DivMod
<1> HIDE DEF c, d
<1>3. s + z = M * (b + d) + c  BY <1>1, <1>2
<1>4. (s + z) % M = c
  <2> DEFINE e == s + z
             f == b + d
  <2>1. e \in Nat /\ f \in Nat  BY <1>1, <1>2
  <2>2. e = M * f + c  BY <1>3
  <2> HIDE DEF e, f
  <2>3. e % M = c  BY <2>1, <2>2, <1>2, ModUnique
  <2> QED  BY <2>3 DEF e
<1> QED  BY <1>4 DEF a, c

(* Sequences of anything.                                                  *)
IsSeq(q) == q \in Seq({q[k] : k \in DOMAIN q})

LEMMA Appended ==
  ASSUME NEW q, IsSeq(q), NEW x
  PROVE  /\ Len(q) \in Nat /\ Len(Append(q, x)) = Len(q) + 1
         /\ IsSeq(Append(q, x))
         /\ \A k \in 1 .. Len(q) : Append(q, x)[k] = q[k]
         /\ Append(q, x)[Len(q) + 1] = x
<1> DEFINE S == {q[k] : k \in DOMAIN q} \union {x}
           r == Append(q, x)
<1>1. q \in Seq(S) /\ x \in S  BY DEF IsSeq
<1>2. /\ Len(q) \in Nat /\ Len(r) = Len(q) + 1 /\ r \in Seq(S)
      /\ \A k \in 1 .. Len(q) : r[k] = q[k]
      /\ r[Len(q) + 1] = x
  BY <1>1
<1> HIDE DEF r
<1>3. r \in Seq({r[k] : k \in DOMAIN r})
  <2>1. \A k \in 1 .. Len(r) : r[k] \in {r[j] : j \in DOMAIN r}  BY <1>2
  <2> QED  BY <1>2, <2>1
<1> QED  BY <1>2, <1>3 DEF IsSeq, r

-----------------------------------------------------------------------------
(* Recursion on trees.  A definition by recursion is a fixpoint of G, and  *)
(* there is one when the value at x only depends on the values at what is  *)
(* less deep than x.                                                       *)
OnlyBelow(D, V, depth, G) ==
  \A f, g \in [D -> V], x \in D :
    (\A y \in D : depth[y] < depth[x] => f[y] = g[y]) => G[f][x] = G[g][x]

(* f obeys the definition at everything less deep than n.                  *)
ObeysTo(D, depth, G, f, n) == \A x \in D : depth[x] < n => G[f][x] = f[x]

LEMMA ObeysToSome ==
  ASSUME NEW D, NEW V, V # {}, NEW depth \in [D -> Nat],
         NEW G \in [[D -> V] -> [D -> V]], OnlyBelow(D, V, depth, G), NEW n \in Nat
  PROVE  \E f \in [D -> V] : ObeysTo(D, depth, G, f, n)
<1> DEFINE T == {m \in Nat : ~\E f \in [D -> V] : ObeysTo(D, depth, G, f, m)}
<1> SUFFICES ASSUME T # {} PROVE FALSE
  OBVIOUS
<1>1. PICK m \in T : \A y \in T : m <= y  BY Least
<1>2. m # 0
  <2>1. PICK v : v \in V  OBVIOUS
  <2>2. [x \in D |-> v] \in [D -> V]  BY <2>1
  <2>3. ObeysTo(D, depth, G, [x \in D |-> v], 0)  BY DEF ObeysTo
  <2> QED  BY <1>1, <2>2, <2>3
<1>3. m - 1 \in Nat /\ m - 1 \notin T  BY <1>1, <1>2
<1>4. PICK f \in [D -> V] : ObeysTo(D, depth, G, f, m - 1)  BY <1>3
<1> DEFINE g == G[f]
<1>5. g \in [D -> V]  OBVIOUS
<1>6. ASSUME NEW x \in D, depth[x] < m
      PROVE  G[g][x] = g[x]
  <2>1. ASSUME NEW y \in D, depth[y] < depth[x]
        PROVE  g[y] = f[y]
    <3>1. depth[y] < m - 1  BY <1>3, <1>6, <2>1
    <3> QED  BY <1>4, <3>1 DEF ObeysTo
  <2> HIDE DEF g
  <2>2. G[g][x] = G[f][x]  BY <1>5, <2>1 DEF OnlyBelow
  <2> QED  BY <2>2 DEF g
<1> HIDE DEF g
<1>7. ObeysTo(D, depth, G, g, m)  BY <1>6 DEF ObeysTo
<1> QED  BY <1>1, <1>5, <1>7

RecursiveStep(D, V, depth, G) ==
  /\ V # {}
  /\ depth \in [D -> Nat]
  /\ G \in [[D -> V] -> [D -> V]]
  /\ OnlyBelow(D, V, depth, G)

LEMMA RecursionExists ==
  ASSUME NEW D, NEW V, NEW depth, NEW G, RecursiveStep(D, V, depth, G)
  PROVE  \E f \in [D -> V] : f = G[f]
<1> USE DEF RecursiveStep
<1> V # {} /\ depth \in [D -> Nat]
  OBVIOUS
<1> G \in [[D -> V] -> [D -> V]]
  OBVIOUS
<1> OnlyBelow(D, V, depth, G)
  OBVIOUS
<1> DEFINE A == [n \in Nat |-> CHOOSE f \in [D -> V] : ObeysTo(D, depth, G, f, n)]
           F == [x \in D |-> A[depth[x] + 1][x]]
<1>1. ASSUME NEW n \in Nat
      PROVE  A[n] \in [D -> V] /\ ObeysTo(D, depth, G, A[n], n)
  BY ObeysToSome
<1> HIDE DEF A
<1>a. ASSUME NEW n \in Nat, NEW f \in [D -> V], NEW g \in [D -> V],
             ObeysTo(D, depth, G, f, n), ObeysTo(D, depth, G, g, n),
             NEW w \in D, depth[w] < n, f[w] # g[w]
      PROVE  FALSE
  <2> DEFINE T == {depth[x] : x \in {y \in D : depth[y] < n /\ f[y] # g[y]}}
  <2> HIDE DEF F
  <2>0. T \subseteq Nat /\ depth[w] \in T  BY <1>a
  <2>1. PICK d \in T : \A y \in T : d <= y  BY <2>0, Least
  <2>2. PICK x \in D : depth[x] < n /\ f[x] # g[x] /\ d = depth[x]  BY <2>1
  <2>3. ASSUME NEW y \in D, depth[y] < depth[x] PROVE f[y] = g[y]
    <3> SUFFICES ASSUME f[y] # g[y] PROVE FALSE
      OBVIOUS
    <3>1. depth[y] \in Nat /\ depth[x] \in Nat  OBVIOUS
    <3>2. depth[y] \in T  BY <2>2, <2>3, <3>1
    <3> HIDE DEF T
    <3> QED  BY <2>1, <2>2, <2>3, <3>1, <3>2
  <2>4. G[f][x] = G[g][x]  BY <2>3 DEF OnlyBelow
  <2> QED  BY <1>a, <2>2, <2>4 DEF ObeysTo
<1>2. F \in [D -> V]
  <2>1. ASSUME NEW x \in D PROVE A[depth[x] + 1][x] \in V
    <3>1. depth[x] + 1 \in Nat  OBVIOUS
    <3> QED  BY <1>1, <3>1
  <2> QED  BY <2>1
<1>3. ASSUME NEW x \in D PROVE G[F][x] = F[x]
  <2> DEFINE n == depth[x] + 1
  <2>1. n \in Nat /\ A[n] \in [D -> V] /\ ObeysTo(D, depth, G, A[n], n)
    <3>1. depth[x] + 1 \in Nat  OBVIOUS
    <3> QED  BY <1>1, <3>1
  <2>2. ASSUME NEW y \in D, depth[y] < depth[x] PROVE F[y] = A[n][y]
    <3> DEFINE m == depth[y] + 1
    <3>1. m \in Nat /\ m <= n /\ depth[y] < m  BY <2>2
    <3>2. A[m] \in [D -> V] /\ ObeysTo(D, depth, G, A[m], m)  BY <1>1, <3>1
    <3> HIDE DEF m, n
    <3>3. ObeysTo(D, depth, G, A[n], m)
      <4>1. ASSUME NEW z \in D, depth[z] < m PROVE depth[z] < n
        <5>1. depth[z] \in Nat  OBVIOUS
        <5> QED  BY <2>1, <3>1, <4>1, <5>1
      <4> QED  BY <2>1, <4>1 DEF ObeysTo
    <3>4. A[m][y] = A[n][y]
      <4> DEFINE f == A[m]
                 g == A[n]
      <4>1. /\ f \in [D -> V] /\ ObeysTo(D, depth, G, f, m)
            /\ g \in [D -> V] /\ ObeysTo(D, depth, G, g, m)
        BY <2>1, <3>2, <3>3
      <4> HIDE DEF f, g
      <4>2. f[y] = g[y]
        <5> HIDE DEF F
        <5> QED  BY <1>a, <3>1, <4>1
      <4> QED  BY <4>2 DEF f, g
    <3> QED  BY <3>4 DEF m
  <2>3. G[F][x] = G[A[n]][x]
    <3> HIDE DEF F, n
    <3> QED  BY <1>2, <2>1, <2>2 DEF OnlyBelow
  <2>4. G[A[n]][x] = A[n][x]
    <3>1. depth[x] < n  OBVIOUS
    <3> HIDE DEF n
    <3> QED  BY <2>1, <3>1 DEF ObeysTo
  <2>5. F[x] = A[n][x]  OBVIOUS
  <2> QED  BY <2>3, <2>4, <2>5
<1> HIDE DEF F
<1>4. G[F] = F  BY <1>2, <1>3
<1> QED  BY <1>2, <1>4
=============================================================================
