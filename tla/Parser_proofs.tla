----------------------------- MODULE Parser_proofs -----------------------------
(***************************************************************************)
(* Proofs about the parser: its types, who frees the texts, what an        *)
(* accepted program is printed as, which errors are written and where a    *)
(* program ends, for every set of programs, of any length, and whatever    *)
(* the memory holds behind them.                                           *)
(*                                                                         *)
(* The argument is one inductive invariant, ParseInv.  At its heart is     *)
(* Follows: the tokens taken so far fall into pieces, one behind the       *)
(* other, one for each function of the tree and one for each call on the   *)
(* stack, and what a piece was made into means it: it is printed as those  *)
(* tokens, and it frees the texts among them, each of them once, that the  *)
(* parser has not freed on its way.  Pieces of pieces are followed the     *)
(* same way: Meant of a tree, ItemsCover and ChainCovers of what a call    *)
(* has got, Statements of a block.                                         *)
(*                                                                         *)
(* The provers do not agree on how to read the marks , ; { } between       *)
(* quotes, so these have names: Comma, Semicolon, Opening and Closing.     *)
(***************************************************************************)
EXTENDS Parser, CommonLemmas, SequenceTheorems

-----------------------------------------------------------------------------
(* Sequences, one behind the other.                                        *)
UpTo(seqs, n, g) ==
  g = [k \in 0 .. n |-> IF k = 0 THEN <<>> ELSE g[k - 1] \o seqs[k]]

LEMMA UpToExists ==
  ASSUME NEW seqs, NEW n \in Nat
  PROVE  \E g : UpTo(seqs, n, g)
<1> DEFINE T == {m \in Nat : ~\E g : UpTo(seqs, m, g)}
<1> SUFFICES ASSUME T # {} PROVE FALSE
  OBVIOUS
<1>1. PICK m \in T : \A y \in T : m <= y  BY Least
<1>2. m # 0
  <2>1. UpTo(seqs, 0, [k \in 0 .. 0 |-> <<>>])  BY DEF UpTo
  <2> QED  BY <1>1, <2>1
<1>3. m - 1 \in Nat /\ m - 1 \notin T  BY <1>1, <1>2
<1>4. PICK g : UpTo(seqs, m - 1, g)  BY <1>3
<1> DEFINE h == [k \in 0 .. m |-> IF k = m THEN g[m - 1] \o seqs[m] ELSE g[k]]
<1>5. ASSUME NEW k \in 0 .. m
      PROVE  h[k] = IF k = 0 THEN <<>> ELSE h[k - 1] \o seqs[k]
  <2>1. CASE k = m  BY <1>2, <1>3, <2>1
  <2>2. CASE k # m
    <3>1. k \in 0 .. m - 1 /\ (k # 0 => k - 1 \in 0 .. m - 1)  BY <1>3, <2>2
    <3>2. g[k] = IF k = 0 THEN <<>> ELSE g[k - 1] \o seqs[k]
      BY <1>4, <3>1 DEF UpTo
    <3> QED  BY <2>2, <3>1, <3>2
  <2> QED  BY <2>1, <2>2
<1>6. UpTo(seqs, m, h)  BY <1>5 DEF UpTo
<1> QED  BY <1>1, <1>6

LEMMA JoinedIs ==
  ASSUME NEW seqs, Len(seqs) \in Nat
  PROVE  \E g : /\ Joined(seqs) = g[Len(seqs)]
                /\ g[0] = <<>>
                /\ \A k \in 1 .. Len(seqs) : g[k] = g[k - 1] \o seqs[k]
<1> DEFINE upTo == CHOOSE g : UpTo(seqs, Len(seqs), g)
<1>1. UpTo(seqs, Len(seqs), upTo)  BY UpToExists
<1>2. Joined(seqs) = upTo[Len(seqs)]  BY DEF Joined, UpTo
<1> HIDE DEF upTo
<1>3. upTo[0] = <<>> /\ \A k \in 1 .. Len(seqs) : upTo[k] = upTo[k - 1] \o seqs[k]
  BY <1>1 DEF UpTo
<1> QED  BY <1>2, <1>3

(* A list of sequences that is given by a function.                        *)
LEMMA Listed ==
  ASSUME NEW n \in Nat, NEW F
  PROVE  /\ Len([k \in 1 .. n |-> F[k]]) = n
         /\ \A k \in 1 .. n : [j \in 1 .. n |-> F[j]][k] = F[k]
  OBVIOUS

LEMMA JoinedIn ==
  ASSUME NEW seqs, Len(seqs) \in Nat, NEW V, \A k \in 1 .. Len(seqs) : seqs[k] \in Seq(V)
  PROVE  Joined(seqs) \in Seq(V)
<1>1. PICK g : /\ Joined(seqs) = g[Len(seqs)]
               /\ g[0] = <<>>
               /\ \A k \in 1 .. Len(seqs) : g[k] = g[k - 1] \o seqs[k]
  BY JoinedIs
<1> DEFINE n == Len(seqs)
           T == {k \in 0 .. n : g[k] \notin Seq(V)}
<1> SUFFICES ASSUME T # {} PROVE FALSE
  <2>1. n \in 0 .. n  OBVIOUS
  <2> QED  BY <1>1, <2>1
<1>2. PICK k \in T : \A y \in T : k <= y
  <2>1. T \subseteq Nat  OBVIOUS
  <2> QED  BY <2>1, Least
<1>3. k # 0  BY <1>1, <1>2, EmptySeq
<1>4. k \in 1 .. n /\ k - 1 \in 0 .. n /\ k - 1 \notin T  BY <1>2, <1>3
<1>5. g[k - 1] \in Seq(V) /\ seqs[k] \in Seq(V) /\ g[k] = g[k - 1] \o seqs[k]
  BY <1>1, <1>4
<1>6. g[k] \in Seq(V)  BY <1>5, ConcatProperties
<1> QED  BY <1>2, <1>6

LEMMA JoinedNone ==
  ASSUME NEW seqs, Len(seqs) = 0
  PROVE  Joined(seqs) = <<>>
<1>1. Len(seqs) \in Nat  OBVIOUS
<1> QED  BY <1>1, JoinedIs

LEMMA JoinedOne ==
  ASSUME NEW seqs, Len(seqs) = 1
  PROVE  Joined(seqs) = <<>> \o seqs[1]
<1>1. Len(seqs) \in Nat /\ 1 \in 1 .. Len(seqs)  OBVIOUS
<1>2. PICK g : /\ Joined(seqs) = g[Len(seqs)]
               /\ g[0] = <<>>
               /\ \A k \in 1 .. Len(seqs) : g[k] = g[k - 1] \o seqs[k]
  BY <1>1, JoinedIs
<1>3. g[1] = g[1 - 1] \o seqs[1]  BY <1>1, <1>2
<1>4. 1 - 1 = 0  OBVIOUS
<1>5. g[1] = <<>> \o seqs[1]  BY <1>2, <1>3, <1>4
<1> QED  BY <1>2, <1>5

(* Joined looks at the elements only.                                      *)
LEMMA JoinedSame ==
  ASSUME NEW n \in Nat, NEW F, NEW G, \A k \in 1 .. n : F[k] = G[k]
  PROVE  Joined([k \in 1 .. n |-> F[k]]) = Joined([k \in 1 .. n |-> G[k]])
<1>1. [k \in 1 .. n |-> F[k]] = [k \in 1 .. n |-> G[k]]  OBVIOUS
<1> QED  BY <1>1

-----------------------------------------------------------------------------
(* Trees.                                                                  *)
Levels(n, g) ==
  g = [k \in 0 .. n |-> Leaves \union IF k = 0 THEN {} ELSE Nodes(g[k - 1])]

LEMMA LevelsExist ==
  ASSUME NEW n \in Nat
  PROVE  \E g : Levels(n, g)
<1> DEFINE T == {m \in Nat : ~\E g : Levels(m, g)}
<1> SUFFICES ASSUME T # {} PROVE FALSE
  OBVIOUS
<1>1. PICK m \in T : \A y \in T : m <= y  BY Least
<1>2. m # 0
  <2>1. Levels(0, [k \in 0 .. 0 |-> Leaves])  BY DEF Levels
  <2> QED  BY <1>1, <2>1
<1>3. m - 1 \in Nat /\ m - 1 \notin T  BY <1>1, <1>2
<1>4. PICK g : Levels(m - 1, g)  BY <1>3
<1> DEFINE h == [k \in 0 .. m |-> IF k = m THEN Leaves \union Nodes(g[m - 1]) ELSE g[k]]
<1>5. ASSUME NEW k \in 0 .. m
      PROVE  h[k] = Leaves \union IF k = 0 THEN {} ELSE Nodes(h[k - 1])
  <2>1. CASE k = m  BY <1>2, <1>3, <2>1
  <2>2. CASE k # m
    <3>1. k \in 0 .. m - 1 /\ (k # 0 => k - 1 \in 0 .. m - 1)  BY <1>3, <2>2
    <3>2. g[k] = Leaves \union IF k = 0 THEN {} ELSE Nodes(g[k - 1])
      BY <1>4, <3>1 DEF Levels
    <3>3. h[k] = g[k] /\ (k # 0 => h[k - 1] = g[k - 1])  BY <2>2, <3>1
    <3> HIDE DEF h
    <3> QED  BY <3>2, <3>3
  <2> QED  BY <2>1, <2>2
<1>6. Levels(m, h)  BY <1>5 DEF Levels
<1> QED  BY <1>1, <1>6

LEMMA LevelIs ==
  ASSUME NEW n \in Nat, NEW g, Levels(n, g), NEW k \in 0 .. n
  PROVE  g[k] = Leaves \union IF k = 0 THEN {} ELSE Nodes(g[k - 1])
BY DEF Levels

LEMMA LevelsSame ==
  ASSUME NEW n \in Nat, NEW g, Levels(n, g), NEW m \in Nat, NEW h, Levels(m, h),
         NEW k \in Nat, k <= n, k <= m
  PROVE  g[k] = h[k]
<1> DEFINE T == {j \in Nat : j <= n /\ j <= m /\ g[j] # h[j]}
<1> SUFFICES ASSUME T # {} PROVE FALSE
  OBVIOUS
<1>1. PICK j \in T : \A y \in T : j <= y  BY Least
<1>2. /\ g[j] = Leaves \union IF j = 0 THEN {} ELSE Nodes(g[j - 1])
      /\ h[j] = Leaves \union IF j = 0 THEN {} ELSE Nodes(h[j - 1])
  <2>1. j \in 0 .. n /\ j \in 0 .. m  BY <1>1
  <2> QED  BY <2>1, LevelIs
<1>3. j # 0 => j - 1 \in Nat /\ j - 1 \notin T  BY <1>1
<1>4. j # 0 => g[j - 1] = h[j - 1]  BY <1>1, <1>3
<1>5. g[j] = h[j]  BY <1>2, <1>4
<1> QED  BY <1>1, <1>5

LEMMA TreesAre ==
  \A n \in Nat : Trees[n] = Leaves \union IF n = 0 THEN {} ELSE Nodes(Trees[n - 1])
<1> DEFINE A == [n \in Nat |-> CHOOSE g : Levels(n, g)]
           F == [n \in Nat |-> A[n][n]]
<1>1. \A n \in Nat : Levels(n, A[n])  BY LevelsExist
<1> HIDE DEF A
<1>2. ASSUME NEW n \in Nat
      PROVE  F[n] = Leaves \union IF n = 0 THEN {} ELSE Nodes(F[n - 1])
  <2>1. F[n] = Leaves \union IF n = 0 THEN {} ELSE Nodes(A[n][n - 1])
    <3>1. Levels(n, A[n]) /\ n \in 0 .. n  BY <1>1
    <3>2. A[n][n] = Leaves \union IF n = 0 THEN {} ELSE Nodes(A[n][n - 1])
      BY <3>1, LevelIs
    <3> QED  BY <3>2
  <2>2. n # 0 => A[n][n - 1] = F[n - 1]
    <3>1. n # 0 => n - 1 \in Nat /\ n - 1 <= n  OBVIOUS
    <3>2. n # 0 => A[n][n - 1] = A[n - 1][n - 1]
      BY <1>1, <3>1, LevelsSame
    <3> QED  BY <3>1, <3>2
  <2> QED  BY <2>1, <2>2
<1> DEFINE R(g) == g = [n \in Nat |-> Leaves \union IF n = 0 THEN {} ELSE Nodes(g[n - 1])]
<1>3. R(F)
  <2> DEFINE H == [n \in Nat |-> Leaves \union IF n = 0 THEN {} ELSE Nodes(F[n - 1])]
  <2>1. \A n \in Nat : F[n] = H[n]
    <3> HIDE DEF F
    <3> QED  BY <1>2
  <2>2. F = [n \in Nat |-> F[n]] /\ H = [n \in Nat |-> H[n]]  OBVIOUS
  <2> HIDE DEF F, H
  <2>3. F = H  BY <2>1, <2>2
  <2> QED  BY <2>3 DEF H
<1>4. Trees = CHOOSE g : R(g)  BY DEF Trees
<1>5. R(Trees)  BY <1>3, <1>4
<1> QED  BY <1>5
(* What a tree is made of: parts of one level less.                        *)
LEMMA TreeParts ==
  ASSUME NEW n \in Nat, NEW e \in Trees[n], NEW T, n > 0 => T = Trees[n - 1]
  PROVE  /\ e.tag \in {"LET_E", "ASSIGN_E", "DEREF_E", "RETURN_E", "DEREF_ASSIGN_E",
                       "IF_ELSE_E", "SEQUENCE_E", "NUMBER_E", "CHAR_LITERAL_E", "VARIABLE_E",
                       "FUNCTION_CALL_E"} \union ByteOps
         /\ e.tag = "LET_E" => n > 0 /\ e.var \in Places /\ e.type \in ProgramTypes /\ e.e \in T
         /\ e.tag = "ASSIGN_E" => n > 0 /\ e.var \in Places /\ e.e \in T
         /\ e.tag \in {"DEREF_E", "RETURN_E"} => n > 0 /\ e.e \in T
         /\ e.tag = "DEREF_ASSIGN_E" => n > 0 /\ e.e1 \in T /\ e.e2 \in T
         /\ e.tag \in ByteOps => n > 0 /\ e.lhs \in T /\ e.rhs \in T
         /\ e.tag = "IF_ELSE_E" =>
              n > 0 /\ e.cond \in T /\ e.if_body \in T /\ e.else_body \in Seq(T)
         /\ e.tag = "SEQUENCE_E" => n > 0 /\ e.list \in Seq(T)
         /\ e.tag = "NUMBER_E" => e.value \in Texts
         /\ e.tag = "CHAR_LITERAL_E" => e.c \in Texts
         /\ e.tag \in {"VARIABLE_E", "FUNCTION_CALL_E"} => e.name \in Places
<1>1. e \in Leaves \/ (n > 0 /\ e \in Nodes(T))  BY TreesAre
<1>2. CASE e \in Leaves  BY <1>2 DEF Leaves, ByteOps
<1>3. CASE n > 0 /\ e \in Nodes(T)
  <2> USE <1>3
  <2>0. \/ e \in [tag : {"LET_E"}, var : Places, type : ProgramTypes, e : T]
        \/ e \in [tag : {"ASSIGN_E"}, var : Places, e : T]
        \/ e \in [tag : {"DEREF_E", "RETURN_E"}, e : T]
        \/ e \in [tag : {"DEREF_ASSIGN_E"}, e1 : T, e2 : T]
        \/ e \in [tag : ByteOps, lhs : T, rhs : T]
        \/ e \in [tag : {"IF_ELSE_E"}, cond : T, if_body : T, else_body : Seq(T)]
        \/ e \in [tag : {"SEQUENCE_E"}, list : Seq(T)]
    BY DEF Nodes
  <2>1. CASE e \in [tag : {"LET_E"}, var : Places, type : ProgramTypes, e : T]  BY <2>1 DEF ByteOps
  <2>2. CASE e \in [tag : {"ASSIGN_E"}, var : Places, e : T]  BY <2>2 DEF ByteOps
  <2>3. CASE e \in [tag : {"DEREF_E", "RETURN_E"}, e : T]  BY <2>3 DEF ByteOps
  <2>4. CASE e \in [tag : {"DEREF_ASSIGN_E"}, e1 : T, e2 : T]  BY <2>4 DEF ByteOps
  <2>5. CASE e \in [tag : ByteOps, lhs : T, rhs : T]  BY <2>5 DEF ByteOps
  <2>6. CASE e \in [tag : {"IF_ELSE_E"}, cond : T, if_body : T, else_body : Seq(T)]
    BY <2>6 DEF ByteOps
  <2>7. CASE e \in [tag : {"SEQUENCE_E"}, list : Seq(T)]  BY <2>7 DEF ByteOps
  <2> QED  BY <2>0, <2>1, <2>2, <2>3, <2>4, <2>5, <2>6, <2>7
<1> QED  BY <1>1, <1>2, <1>3

LEMMA TreesStep ==
  ASSUME NEW n \in Nat
  PROVE  Trees[n] \subseteq Trees[n + 1]
<1> DEFINE S == {m \in Nat : ~(Trees[m] \subseteq Trees[m + 1])}
<1> SUFFICES ASSUME S # {} PROVE FALSE
  OBVIOUS
<1>1. PICK m \in S : \A y \in S : m <= y  BY Least
<1>2. m + 1 \in Nat /\ m + 1 # 0 /\ (m + 1) - 1 = m  BY <1>1
<1>3. Trees[m + 1] = Leaves \union Nodes(Trees[m])  BY <1>2, TreesAre
<1>4. Trees[m] = Leaves \union IF m = 0 THEN {} ELSE Nodes(Trees[m - 1])
  BY <1>1, TreesAre
<1>5. m # 0
  BY <1>1, <1>3, <1>4
<1>6. m - 1 \in Nat /\ m - 1 \notin S /\ (m - 1) + 1 = m  BY <1>1, <1>5
<1>7. Trees[m - 1] \subseteq Trees[m]  BY <1>6
<1>8. Nodes(Trees[m - 1]) \subseteq Nodes(Trees[m])
  <2> DEFINE A == Trees[m - 1]
             B == Trees[m]
  <2>1. A \subseteq B /\ Seq(A) \subseteq Seq(B)  BY <1>7, SeqMonotonic
  <2> HIDE DEF A, B
  <2>2. Nodes(A) \subseteq Nodes(B)  BY <2>1 DEF Nodes
  <2> QED  BY <2>2 DEF A, B
<1> QED  BY <1>1, <1>3, <1>4, <1>5, <1>8

LEMMA TreesGrow ==
  ASSUME NEW m \in Nat, NEW n \in Nat, m <= n
  PROVE  Trees[m] \subseteq Trees[n]
<1> DEFINE S == {k \in Nat : m <= k /\ ~(Trees[m] \subseteq Trees[k])}
<1> SUFFICES ASSUME S # {} PROVE FALSE
  OBVIOUS
<1>1. PICK k \in S : \A y \in S : k <= y  BY Least
<1>2. k - 1 \in Nat /\ m <= k - 1 /\ k - 1 \notin S /\ (k - 1) + 1 = k  BY <1>1
<1>3. Trees[m] \subseteq Trees[k - 1] /\ Trees[k - 1] \subseteq Trees[k]
  BY <1>2, TreesStep
<1> QED  BY <1>1, <1>3
(* A function on trees that is given by what it is on the parts.           *)
TreeStep(N, V, G) ==
  /\ V # {}
  /\ G \in [[Trees[N] -> V] -> [Trees[N] -> V]]
  /\ \A f, g \in [Trees[N] -> V], n \in 0 .. N : \A e \in Trees[n] :
       (n > 0 => \A x \in Trees[n - 1] : f[x] = g[x]) => G[f][e] = G[g][e]

LEMMA TreeRecursion ==
  ASSUME NEW N \in Nat, NEW V, NEW G, TreeStep(N, V, G)
  PROVE  \E f \in [Trees[N] -> V] : f = G[f]
<1> USE DEF TreeStep
<1> DEFINE D == Trees[N]
           Lowest(e, n) == n \in 0 .. N /\ e \in Trees[n] /\ \A m \in 0 .. N : e \in Trees[m] => n <= m
           depth == [e \in D |-> CHOOSE n \in Nat : Lowest(e, n)]
<1>1. ASSUME NEW e \in D PROVE depth[e] \in Nat /\ Lowest(e, depth[e])
  <2> DEFINE S == {n \in 0 .. N : e \in Trees[n]}
  <2>1. S \subseteq Nat /\ N \in S  OBVIOUS
  <2>2. PICK n \in S : \A y \in S : n <= y  BY <2>1, Least
  <2>3. n \in Nat /\ Lowest(e, n)  BY <2>1, <2>2
  <2> QED  BY <2>3
<1> HIDE DEF depth
<1>2. depth \in [D -> Nat]
  <2>1. depth = [e \in D |-> depth[e]]  BY DEF depth
  <2> QED  BY <1>1, <2>1
<1>3. OnlyBelow(D, V, depth, G)
  <2> SUFFICES ASSUME NEW f \in [D -> V], NEW g \in [D -> V], NEW e \in D,
                      \A y \in D : depth[y] < depth[e] => f[y] = g[y]
               PROVE  G[f][e] = G[g][e]
    BY DEF OnlyBelow
  <2> DEFINE n == depth[e]
  <2>1. n \in 0 .. N /\ e \in Trees[n]  BY <1>1
  <2>2. ASSUME n > 0, NEW x \in Trees[n - 1] PROVE f[x] = g[x]
    <3>1. n - 1 \in 0 .. N  BY <2>1, <2>2
    <3>2. x \in D  BY <3>1, TreesGrow
    <3>3. depth[x] <= n - 1 /\ depth[x] \in Nat  BY <1>1, <3>1, <3>2
    <3>4. depth[x] < depth[e]  BY <2>1, <3>3
    <3> QED  BY <3>2, <3>4
  <2> QED  BY <2>1, <2>2
<1>4. RecursiveStep(D, V, depth, G)  BY <1>2, <1>3 DEF RecursiveStep
<1> QED  BY <1>4, RecursionExists

(* What its values are, a value being given by those of the parts.         *)
LEMMA TreeInduction ==
  ASSUME NEW N \in Nat, NEW V, NEW h,
         \A n \in 0 .. N : \A e \in Trees[n] :
           (n > 0 => \A x \in Trees[n - 1] : h[x] \in V) => h[e] \in V
  PROVE  \A e \in Trees[N] : h[e] \in V
<1> DEFINE S == {n \in 0 .. N : \E e \in Trees[n] : h[e] \notin V}
<1> SUFFICES ASSUME S # {} PROVE FALSE
  OBVIOUS
<1>1. PICK n \in S : \A y \in S : n <= y
  <2>1. S \subseteq Nat  OBVIOUS
  <2> QED  BY <2>1, Least
<1>2. n > 0 => n - 1 \in 0 .. N /\ n - 1 \notin S  BY <1>1
<1>3. n > 0 => \A x \in Trees[n - 1] : h[x] \in V  BY <1>2
<1>4. \A e \in Trees[n] : h[e] \in V  BY <1>1, <1>3
<1> QED  BY <1>1, <1>4

-----------------------------------------------------------------------------
(* The texts of a tree.                                                    *)
LEMMA TextsOfIn ==
  ASSUME NEW n \in Nat, NEW e \in Trees[n], NEW f,
         n > 0 => \A x \in Trees[n - 1] : f[x] \in Seq(Places)
  PROVE  TextsOf(e, f) \in Seq(Places)
<1> DEFINE T == Trees[n - 1]
           S == Seq(Places)
<1>0. ASSUME NEW l \in Seq(T), n > 0 PROVE Joined([k \in 1 .. Len(l) |-> f[l[k]]]) \in S
  <2> DEFINE F == [k \in 1 .. Len(l) |-> f[l[k]]]
             m == Len(l)
             q == [k \in 1 .. m |-> F[k]]
  <2>1. m \in Nat /\ \A k \in 1 .. m : l[k] \in T  BY <1>0, LenProperties, ElementOfSeq
  <2>2. \A k \in 1 .. m : F[k] \in Seq(Places)  BY <1>0, <2>1
  <2>3. F = q  OBVIOUS
  <2> HIDE DEF F, m
  <2>4. Len(q) = m /\ \A k \in 1 .. m : q[k] = F[k]  BY <2>1, Listed
  <2>5. Joined(q) \in Seq(Places)
    <3> HIDE DEF q
    <3> QED  BY <2>1, <2>2, <2>4, JoinedIn
  <2> QED  BY <2>3, <2>5 DEF F, m
<1> DEFINE tags == {"LET_E", "ASSIGN_E", "DEREF_E", "RETURN_E", "DEREF_ASSIGN_E",
                    "IF_ELSE_E", "SEQUENCE_E", "NUMBER_E", "CHAR_LITERAL_E", "VARIABLE_E",
                    "FUNCTION_CALL_E"} \union ByteOps
<1>1. /\ e.tag \in tags
      /\ e.tag = "LET_E" => n > 0 /\ e.var \in Places /\ e.e \in T
      /\ e.tag = "ASSIGN_E" => n > 0 /\ e.var \in Places /\ e.e \in T
      /\ e.tag \in {"DEREF_E", "RETURN_E"} => n > 0 /\ e.e \in T
      /\ e.tag = "DEREF_ASSIGN_E" => n > 0 /\ e.e1 \in T /\ e.e2 \in T
      /\ e.tag \in ByteOps => n > 0 /\ e.lhs \in T /\ e.rhs \in T
      /\ e.tag = "IF_ELSE_E" =>
           n > 0 /\ e.cond \in T /\ e.if_body \in T /\ e.else_body \in Seq(T)
      /\ e.tag = "SEQUENCE_E" => n > 0 /\ e.list \in Seq(T)
      /\ e.tag \in {"VARIABLE_E", "FUNCTION_CALL_E"} => e.name \in Places
  <2>1. n > 0 => T = Trees[n - 1]  OBVIOUS
  <2> HIDE DEF T
  <2> QED  BY <2>1, TreeParts
<1>2. n > 0 => \A x \in T : f[x] \in S  OBVIOUS
<1>3. \A s, t \in S : s \o t \in S  BY ConcatProperties
<1>4. \A x \in Places : <<x>> \in S  OBVIOUS
<1>5. <<>> \in S  BY EmptySeq
<1> DEFINE J(l) == Joined([k \in 1 .. Len(l) |-> f[l[k]]])
<1>6. n > 0 => \A l \in Seq(T) : J(l) \in S  BY <1>0
<1>7. /\ e.tag = "LET_E" => TextsOf(e, f) = <<e.var>> \o f[e.e]
      /\ e.tag = "ASSIGN_E" => TextsOf(e, f) = <<e.var>> \o f[e.e]
      /\ e.tag \in {"DEREF_E", "RETURN_E"} => TextsOf(e, f) = f[e.e]
      /\ e.tag = "DEREF_ASSIGN_E" => TextsOf(e, f) = f[e.e1] \o f[e.e2]
      /\ e.tag \in ByteOps => TextsOf(e, f) = f[e.lhs] \o f[e.rhs]
      /\ e.tag = "IF_ELSE_E" =>
           TextsOf(e, f) = f[e.if_body] \o f[e.cond] \o J(e.else_body)
      /\ e.tag = "SEQUENCE_E" => TextsOf(e, f) = J(e.list)
      /\ e.tag \in {"VARIABLE_E", "FUNCTION_CALL_E"} => TextsOf(e, f) = <<e.name>>
      /\ e.tag \in {"NUMBER_E", "CHAR_LITERAL_E"} => TextsOf(e, f) = <<>>
  BY DEF TextsOf, ByteOps
<1> SUFFICES TextsOf(e, f) \in S
  OBVIOUS
<1> HIDE DEF T, S, J
<1>8. CASE e.tag \in {"LET_E", "ASSIGN_E"}
  <2>1. f[e.e] \in S /\ <<e.var>> \in S  BY <1>8, <1>1, <1>2, <1>4
  <2> QED  BY <1>8, <2>1, <1>3, <1>7
<1>12. CASE e.tag \in {"DEREF_E", "RETURN_E"}
  <2>1. f[e.e] \in S  BY <1>12, <1>1, <1>2
  <2> QED  BY <1>12, <2>1, <1>7
<1>13. CASE e.tag = "DEREF_ASSIGN_E"
  <2>1. f[e.e1] \in S /\ f[e.e2] \in S  BY <1>13, <1>1, <1>2
  <2> QED  BY <1>13, <2>1, <1>3, <1>7
<1>9. CASE e.tag \in ByteOps
  <2>1. f[e.lhs] \in S /\ f[e.rhs] \in S  BY <1>9, <1>1, <1>2
  <2> QED  BY <1>9, <2>1, <1>3, <1>7
<1>10. CASE e.tag = "IF_ELSE_E"
  <2>1. f[e.if_body] \in S /\ f[e.cond] \in S /\ J(e.else_body) \in S
    BY <1>10, <1>1, <1>2, <1>6
  <2>2. f[e.if_body] \o f[e.cond] \in S  BY <2>1, <1>3
  <2>3. f[e.if_body] \o f[e.cond] \o J(e.else_body) \in S  BY <2>1, <2>2, <1>3
  <2> QED  BY <1>10, <2>3, <1>7
<1>11. CASE e.tag \in {"SEQUENCE_E", "VARIABLE_E", "FUNCTION_CALL_E", "NUMBER_E", "CHAR_LITERAL_E"}
  BY <1>11, <1>1, <1>4, <1>5, <1>6, <1>7
<1> QED  BY <1>1, <1>8, <1>9, <1>10, <1>11, <1>12, <1>13
(* They are those of its parts.                                            *)
LEMMA TextsOfSame ==
  ASSUME NEW n \in Nat, NEW e \in Trees[n], NEW f, NEW g,
         n > 0 => \A x \in Trees[n - 1] : f[x] = g[x]
  PROVE  TextsOf(e, f) = TextsOf(e, g)
<1> DEFINE T == Trees[n - 1]
           J(l, h) == Joined([k \in 1 .. Len(l) |-> h[l[k]]])
<1>1. ASSUME NEW l \in Seq(T), n > 0 PROVE J(l, f) = J(l, g)
  <2>1. Len(l) \in Nat /\ \A k \in 1 .. Len(l) : l[k] \in T  BY LenProperties, ElementOfSeq
  <2>2. \A k \in 1 .. Len(l) : f[l[k]] = g[l[k]]  BY <1>1, <2>1
  <2>3. [k \in 1 .. Len(l) |-> f[l[k]]] = [k \in 1 .. Len(l) |-> g[l[k]]]  BY <2>2
  <2> QED  BY <2>3
<1>2. /\ e.tag \in {"LET_E", "ASSIGN_E", "DEREF_E", "RETURN_E"} => f[e.e] = g[e.e]
      /\ e.tag = "DEREF_ASSIGN_E" => f[e.e1] = g[e.e1] /\ f[e.e2] = g[e.e2]
      /\ e.tag \in ByteOps => f[e.lhs] = g[e.lhs] /\ f[e.rhs] = g[e.rhs]
      /\ e.tag = "IF_ELSE_E" =>
           f[e.cond] = g[e.cond] /\ f[e.if_body] = g[e.if_body]
             /\ J(e.else_body, f) = J(e.else_body, g)
      /\ e.tag = "SEQUENCE_E" => J(e.list, f) = J(e.list, g)
  <2>1. n > 0 => T = Trees[n - 1]  OBVIOUS
  <2>2. n > 0 => \A x \in T : f[x] = g[x]  OBVIOUS
  <2> HIDE DEF T, J
  <2> QED  BY <2>1, <2>2, <1>1, TreeParts
<1> QED  BY <1>2 DEF TextsOf

LEMMA SizeIsNat ==
  ASSUME tokens \in Seq(Token), beyond \in Seq(Token)
  PROVE  Size \in Nat /\ Len(tokens) \in Nat /\ Len(beyond) \in Nat
BY LenProperties DEF Size

LEMMA DeleteIs ==
  ASSUME Size \in Nat
  PROVE  /\ expression_delete \in [Trees[Size] -> Seq(Places)]
         /\ \A e \in Trees[Size] : expression_delete[e] = TextsOf(e, expression_delete)
<1> DEFINE D == Trees[Size]
           V == Seq(Places)
           G == [f \in [D -> V] |-> [e \in D |-> TextsOf(e, f)]]
           R(f) == f = [e \in D |-> TextsOf(e, f)]
<1>1. ASSUME NEW f \in [D -> V], NEW n \in 0 .. Size, n > 0, NEW x \in Trees[n - 1]
      PROVE  x \in D /\ f[x] \in V
  <2>1. n - 1 \in Nat /\ n - 1 <= Size  BY <1>1
  <2>2. x \in D  BY <2>1, TreesGrow
  <2> QED  BY <2>2
<1>2. G \in [[D -> V] -> [D -> V]]
  <2>1. ASSUME NEW f \in [D -> V], NEW e \in D PROVE TextsOf(e, f) \in V
    <3>1. Size \in 0 .. Size  OBVIOUS
    <3>2. Size > 0 => \A x \in Trees[Size - 1] : f[x] \in Seq(Places)  BY <1>1, <3>1
    <3> QED  BY <3>2, TextsOfIn
  <2> HIDE DEF D, V
  <2> QED  BY <2>1
<1>3. ASSUME NEW f \in [D -> V], NEW g \in [D -> V], NEW n \in 0 .. Size, NEW e \in Trees[n],
             n > 0 => \A x \in Trees[n - 1] : f[x] = g[x]
      PROVE  G[f][e] = G[g][e]
  <2>1. n \in Nat /\ n <= Size  OBVIOUS
  <2>2. e \in D  BY <2>1, TreesGrow
  <2>3. TextsOf(e, f) = TextsOf(e, g)  BY <1>3, <2>1, TextsOfSame
  <2>4. G[f][e] = TextsOf(e, f) /\ G[g][e] = TextsOf(e, g)
    <3> HIDE DEF D, V
    <3> QED  BY <2>2
  <2> QED  BY <2>3, <2>4
<1>4. V # {}  BY EmptySeq
<1>5. PICK f \in [D -> V] : f = G[f]
  <2> HIDE DEF V, G
  <2>1. TreeStep(Size, V, G)  BY <1>2, <1>3, <1>4 DEF TreeStep
  <2> QED  BY <2>1, TreeRecursion
<1>6. R(f)
  <2> HIDE DEF D, V
  <2> QED  BY <1>5
<1>7. expression_delete = CHOOSE g : R(g)  BY DEF expression_delete
<1>8. R(expression_delete)  BY <1>6, <1>7
<1>9. \A e \in D : expression_delete[e] \in V
  <2> DEFINE h == expression_delete
  <2>1. ASSUME NEW n \in 0 .. Size, NEW e \in Trees[n],
               n > 0 => \A x \in Trees[n - 1] : h[x] \in V
        PROVE  h[e] \in V
    <3>1. n \in Nat /\ n <= Size  OBVIOUS
    <3>2. e \in D  BY <3>1, TreesGrow
    <3>3. h[e] = TextsOf(e, h)  BY <1>8, <3>2
    <3>4. TextsOf(e, h) \in V  BY <2>1, <3>1, TextsOfIn
    <3> QED  BY <3>3, <3>4
  <2> HIDE DEF h, V
  <2> QED  BY <2>1, TreeInduction DEF h
<1>10. expression_delete = [e \in D |-> expression_delete[e]]  BY <1>8
<1>11. \A e \in D : expression_delete[e] = TextsOf(e, expression_delete)  BY <1>8
<1> HIDE DEF D, V
<1> QED  BY <1>9, <1>10, <1>11 DEF D, V

-----------------------------------------------------------------------------
(* The words of the operators.                                             *)
LEMMA BinaryWords ==
  /\ DOMAIN BinaryTag \subseteq TokenType /\ DOMAIN BinaryTag \intersect WithText = {}
  /\ \A w \in DOMAIN BinaryTag : token_type_to_binary_tag(w) \in ByteOps
  /\ \A w \in DOMAIN BinaryTag :
       w # "!=" => binary_tag_to_token_type(token_type_to_binary_tag(w)) = w
  /\ \A tag \in ByteOps : binary_tag_to_token_type(tag) \in TokenType
<1> DEFINE W == {"+", "-", "*", "/", "==", "!=", "<", "<=", ">", ">="}
<1>1. DOMAIN BinaryTag = W  BY DEF BinaryTag
<1>2. /\ BinaryTag["+"] = "ADD_E" /\ BinaryTag["-"] = "SUB_E"
      /\ BinaryTag["*"] = "MULT_E" /\ BinaryTag["/"] = "DIV_E"
      /\ BinaryTag["=="] = "EQUAL_EQUAL_E" /\ BinaryTag["!="] = "NOT_EQUAL_E"
      /\ BinaryTag["<"] = "LESS_THAN_E" /\ BinaryTag["<="] = "LESS_THAN_EQUAL_E"
      /\ BinaryTag[">"] = "GREATER_THAN_E" /\ BinaryTag[">="] = "GREATER_THAN_EQUAL_E"
  BY DEF BinaryTag
<1>3. \A w \in W : token_type_to_binary_tag(w) \in ByteOps
  BY <1>2 DEF token_type_to_binary_tag, ByteOps
<1>4. \A tag \in ByteOps : \E w \in W : BinaryTag[w] = tag
  BY <1>2 DEF ByteOps
<1>5. \A tag \in ByteOps :
        binary_tag_to_token_type(tag) \in W /\ BinaryTag[binary_tag_to_token_type(tag)] = tag
  BY <1>1, <1>4 DEF binary_tag_to_token_type
<1>6. \A v, w \in W : BinaryTag[v] = BinaryTag[w] => v = w
  BY <1>2
<1>7. ASSUME NEW w \in W, w # "!="
      PROVE  binary_tag_to_token_type(token_type_to_binary_tag(w)) = w
  <2>1. token_type_to_binary_tag(w) = BinaryTag[w]  BY <1>7 DEF token_type_to_binary_tag
  <2>2. BinaryTag[w] \in ByteOps  BY <1>3, <2>1
  <2> QED  BY <1>5, <1>6, <2>1, <2>2
<1>8. W \subseteq TokenType /\ W \intersect WithText = {}  BY DEF WithText, TokenType
<1> QED  BY <1>1, <1>3, <1>5, <1>7, <1>8

-----------------------------------------------------------------------------
(* What a tree is printed as.                                              *)
Records == Token \union {Outside}

Input ==
  /\ tokens \in Seq(Token) /\ beyond \in Seq(Token)
  /\ \A k \in DOMAIN tokens : IsLexed(tokens[k])

LEMMA TokenIs ==
  ASSUME Input
  PROVE  /\ Size \in Nat /\ Len(tokens) \in Nat /\ Len(tokens) <= Size
         /\ \A n \in Nat : TokenAt(n) \in Records
         /\ \A n \in Nat : n < Len(tokens) => TokenAt(n) = tokens[n + 1]
<1>1. Len(tokens) \in Nat /\ Len(beyond) \in Nat  BY LenProperties DEF Input
<1>2. Size = Len(tokens) + Len(beyond)  BY DEF Size
<1>3. ASSUME NEW n \in Nat PROVE TokenAt(n) \in Records
  <2>1. CASE n < Len(tokens)
    <3>1. n + 1 \in 1 .. Len(tokens)  BY <1>1, <2>1
    <3> QED  BY <2>1, <3>1, ElementOfSeq DEF TokenAt, Input, Records
  <2>2. CASE ~(n < Len(tokens)) /\ n < Size
    <3>1. n + 1 - Len(tokens) \in 1 .. Len(beyond)  BY <1>1, <1>2, <2>2
    <3> QED  BY <2>2, <3>1, ElementOfSeq DEF TokenAt, Input, Records
  <2>3. CASE ~(n < Len(tokens)) /\ ~(n < Size)
    <3>1. TokenAt(n) = Outside  BY <2>3 DEF TokenAt
    <3> QED  BY <3>1 DEF Records
  <2> QED  BY <2>1, <2>2, <2>3
<1> QED  BY <1>1, <1>2, <1>3 DEF TokenAt

LEMMA WordIs == \A w \in TokenType : Word(w) \in Token /\ Word(w) \in Records
BY TextsAssumption DEF Word, Token, Records

LEMMA PrintOfIn ==
  ASSUME Input, NEW n \in Nat, NEW e \in Trees[n], NEW f,
         n > 0 => \A x \in Trees[n - 1] : f[x] \in Seq(Records)
  PROVE  PrintOf(e, f) \in Seq(Records)
<1> DEFINE T == Trees[n - 1]
           S == Seq(Records)
           Body(l) == Joined([k \in 1 .. Len(l) |-> f[l[k]] \o <<Word(";")>>])
           Else(l) == Joined([k \in 1 .. Len(l) |->
                               <<Word("else"), Word("{")>> \o f[l[k]] \o <<Word("}")>>])
<1>1. \A s, t \in S : s \o t \in S  BY ConcatProperties
<1>2. /\ \A x \in Records : <<x>> \in S
      /\ \A x, y \in Records : <<x, y>> \in S
      /\ \A x, y, z \in Records : <<x, y, z>> \in S
      /\ \A x, y, z, v, w \in Records : <<x, y, z, v, w>> \in S
  OBVIOUS
<1>4. \A p \in Places : TokenAt(p - 1) \in Records
  <2>1. \A p \in Places : p - 1 \in Nat  BY DEF Places
  <2> QED  BY <2>1, TokenIs
<1>5. ASSUME NEW l \in Seq(T), n > 0 PROVE Body(l) \in S /\ Else(l) \in S
  <2> DEFINE m == Len(l)
             F == [k \in 1 .. m |-> f[l[k]] \o <<Word(";")>>]
             G == [k \in 1 .. m |-> <<Word("else"), Word("{")>> \o f[l[k]] \o <<Word("}")>>]
  <2>1. m \in Nat /\ \A k \in 1 .. m : l[k] \in T  BY LenProperties, ElementOfSeq
  <2>2. \A k \in 1 .. m : f[l[k]] \in S  BY <1>5, <2>1
  <2>3. /\ <<Word(";")>> \in S /\ <<Word("}")>> \in S /\ <<Word("else"), Word("{")>> \in S
    <3>1. Word(";") \in Records /\ Word("}") \in Records /\ Word("else") \in Records
          /\ Word("{") \in Records
      BY WordIs DEF TokenType, ProgramTypes
    <3> QED  BY <1>2, <3>1
  <2>4. \A k \in 1 .. m : F[k] \in S /\ G[k] \in S
    <3> SUFFICES ASSUME NEW k \in 1 .. m PROVE F[k] \in S /\ G[k] \in S
      OBVIOUS
    <3>1. f[l[k]] \o <<Word(";")>> \in S  BY <1>1, <2>2, <2>3
    <3>2. <<Word("else"), Word("{")>> \o f[l[k]] \in S  BY <1>1, <2>2, <2>3
    <3>3. <<Word("else"), Word("{")>> \o f[l[k]] \o <<Word("}")>> \in S  BY <1>1, <3>2, <2>3
    <3> QED  BY <3>1, <3>3
  <2>5. Len(F) = m /\ Len(G) = m
    <3>1. m \in Nat  BY <2>1
    <3> HIDE DEF m
    <3> QED  BY <3>1
  <2> HIDE DEF F, G
  <2>6. Joined(F) \in S /\ Joined(G) \in S  BY <2>1, <2>4, <2>5, JoinedIn
  <2> QED  BY <2>6 DEF F, G
<1>6. n > 0 => \A x \in T : f[x] \in S  OBVIOUS
<1>t. n > 0 => T = Trees[n - 1]  OBVIOUS
<1> SUFFICES PrintOf(e, f) \in S
  OBVIOUS
<1> HIDE DEF T, S, Body, Else
<1>7. CASE e.tag = "LET_E"
  <2>1. e.var \in Places /\ e.type \in ProgramTypes /\ f[e.e] \in S  BY <1>7, <1>t, <1>6, TreeParts
  <2> DEFINE s == <<Word("let"), TokenAt(e.var - 1), Word(":"), Word(e.type), Word("=")>>
  <2>2. s \in S
    <3>1. Word("let") \in Records /\ Word(":") \in Records /\ Word("=") \in Records
          /\ Word(e.type) \in Records
      BY <2>1, WordIs DEF TokenType, ProgramTypes
    <3>2. TokenAt(e.var - 1) \in Records  BY <2>1, <1>4
    <3> QED  BY <1>2, <3>1, <3>2
  <2>3. PrintOf(e, f) = s \o f[e.e]  BY <1>7 DEF PrintOf, ByteOps
  <2> HIDE DEF s
  <2> QED  BY <2>1, <2>2, <2>3, <1>1
<1>8. CASE e.tag \in ByteOps
  <2>1. f[e.lhs] \in S /\ f[e.rhs] \in S  BY <1>8, <1>t, <1>6, TreeParts
  <2> DEFINE s == <<Word(binary_tag_to_token_type(e.tag))>>
  <2>2. s \in S
    <3>1. Word(binary_tag_to_token_type(e.tag)) \in Records  BY <1>8, BinaryWords, WordIs
    <3> QED  BY <3>1, <1>2
  <2>3. PrintOf(e, f) = f[e.lhs] \o s \o f[e.rhs]  BY <1>8 DEF PrintOf, ByteOps
  <2> HIDE DEF s
  <2>4. f[e.lhs] \o s \in S  BY <2>1, <2>2, <1>1
  <2> QED  BY <2>1, <2>3, <2>4, <1>1
<1>9. CASE e.tag \in {"VARIABLE_E", "FUNCTION_CALL_E"}
  <2>1. TokenAt(e.name - 1) \in Records  BY <1>9, <1>t, <1>4, TreeParts
  <2>2. Word("(") \in Records /\ Word(")") \in Records  BY WordIs DEF TokenType, ProgramTypes
  <2>3. /\ e.tag = "VARIABLE_E" => PrintOf(e, f) = <<TokenAt(e.name - 1)>>
        /\ e.tag = "FUNCTION_CALL_E" =>
             PrintOf(e, f) = <<TokenAt(e.name - 1), Word("("), Word(")")>>
    BY DEF PrintOf, ByteOps
  <2> QED  BY <1>9, <2>1, <2>2, <2>3, <1>2
<1>10. CASE e.tag \in {"NUMBER_E", "CHAR_LITERAL_E"}
  <2> DEFINE zero == [type |-> "NUMBER", text |-> "0"]
             hex  == [type |-> "IDENTIFIER", text |-> e.value]
             num  == [type |-> "NUMBER", text |-> e.value]
             char == [type |-> "CHAR_LITERAL", text |-> e.c]
  <2>1. /\ e.tag = "NUMBER_E" => zero \in Records /\ hex \in Records /\ num \in Records
        /\ e.tag = "CHAR_LITERAL_E" => char \in Records
    <3>1. /\ e.tag = "NUMBER_E" => e.value \in Texts
          /\ e.tag = "CHAR_LITERAL_E" => e.c \in Texts
      BY <1>t, TreeParts
    <3> QED  BY <3>1, TextsAssumption DEF Records, Token, TokenType, WithText
  <2>2. /\ e.tag = "NUMBER_E" => PrintOf(e, f) = <<zero, hex>> \/ PrintOf(e, f) = <<num>>
        /\ e.tag = "CHAR_LITERAL_E" => PrintOf(e, f) = <<char>>
    BY DEF PrintOf, ByteOps
  <2> HIDE DEF zero, hex, num, char
  <2> QED  BY <1>10, <2>1, <2>2, <1>2
<1>11. CASE e.tag = "SEQUENCE_E"
  <2>1. n > 0 /\ e.list \in Seq(T)  BY <1>11, <1>t, TreeParts
  <2>2. PrintOf(e, f) = Body(e.list)  BY <1>11 DEF PrintOf, ByteOps, Body
  <2> QED  BY <2>1, <2>2, <1>5
<1>12. CASE e.tag \in {"ASSIGN_E", "DEREF_E", "RETURN_E"}
  <2>1. f[e.e] \in S /\ (e.tag = "ASSIGN_E" => e.var \in Places)  BY <1>12, <1>t, <1>6, TreeParts
  <2>2. e.tag = "ASSIGN_E" => TokenAt(e.var - 1) \in Records  BY <2>1, <1>4
  <2>3. Word("=") \in Records /\ Word("*") \in Records /\ Word("return") \in Records  BY WordIs DEF TokenType, ProgramTypes
  <2>4. /\ e.tag = "ASSIGN_E" => PrintOf(e, f) = <<TokenAt(e.var - 1), Word("=")>> \o f[e.e]
        /\ e.tag = "DEREF_E" => PrintOf(e, f) = <<Word("*")>> \o f[e.e]
        /\ e.tag = "RETURN_E" => PrintOf(e, f) = <<Word("return")>> \o f[e.e]
    BY DEF PrintOf, ByteOps
  <2>5. /\ e.tag = "ASSIGN_E" => <<TokenAt(e.var - 1), Word("=")>> \in S
        /\ <<Word("*")>> \in S /\ <<Word("return")>> \in S
    BY <2>2, <2>3, <1>2
  <2> QED  BY <1>12, <2>1, <2>4, <2>5, <1>1
<1>13. CASE e.tag = "DEREF_ASSIGN_E"
  <2>1. f[e.e1] \in S /\ f[e.e2] \in S  BY <1>13, <1>t, <1>6, TreeParts
  <2>2. <<Word("=")>> \in S /\ <<Word("*")>> \in S
    <3>1. Word("=") \in Records /\ Word("*") \in Records  BY WordIs DEF TokenType, ProgramTypes
    <3> QED  BY <3>1, <1>2
  <2>3. PrintOf(e, f) = <<Word("*")>> \o f[e.e1] \o <<Word("=")>> \o f[e.e2]
    BY <1>13 DEF PrintOf, ByteOps
  <2>4. <<Word("*")>> \o f[e.e1] \in S  BY <2>1, <2>2, <1>1
  <2>5. <<Word("*")>> \o f[e.e1] \o <<Word("=")>> \in S  BY <2>4, <2>2, <1>1
  <2> QED  BY <2>1, <2>3, <2>5, <1>1
<1>14. CASE e.tag = "IF_ELSE_E"
  <2> DEFINE a == <<Word("if"), Word("(")>>
             b == <<Word(")"), Word("{")>>
             c == <<Word("}")>>
  <2>1. f[e.cond] \in S /\ f[e.if_body] \in S /\ Else(e.else_body) \in S
    <3>1. n > 0 /\ e.cond \in T /\ e.if_body \in T /\ e.else_body \in Seq(T)
      BY <1>14, <1>t, TreeParts
    <3> QED  BY <3>1, <1>5, <1>6
  <2>2. a \in S /\ b \in S /\ c \in S
    <3>1. Word("if") \in Records /\ Word("(") \in Records /\ Word(")") \in Records
          /\ Word("{") \in Records /\ Word("}") \in Records
      BY WordIs DEF TokenType, ProgramTypes
    <3> QED  BY <3>1, <1>2
  <2>3. PrintOf(e, f) = a \o f[e.cond] \o b \o f[e.if_body] \o c \o Else(e.else_body)
    BY <1>14 DEF PrintOf, ByteOps, Else
  <2> HIDE DEF a, b, c
  <2>4. a \o f[e.cond] \in S  BY <2>1, <2>2, <1>1
  <2>5. a \o f[e.cond] \o b \in S  BY <2>2, <2>4, <1>1
  <2>6. a \o f[e.cond] \o b \o f[e.if_body] \in S  BY <2>1, <2>5, <1>1
  <2>7. a \o f[e.cond] \o b \o f[e.if_body] \o c \in S  BY <2>2, <2>6, <1>1
  <2> QED  BY <2>1, <2>3, <2>7, <1>1
<1> QED
  <2>1. e.tag \in {"LET_E", "ASSIGN_E", "DEREF_E", "RETURN_E", "DEREF_ASSIGN_E", "IF_ELSE_E",
                   "SEQUENCE_E", "NUMBER_E", "CHAR_LITERAL_E", "VARIABLE_E",
                   "FUNCTION_CALL_E"} \union ByteOps
    BY <1>t, TreeParts
  <2> QED  BY <2>1, <1>7, <1>8, <1>9, <1>10, <1>11, <1>12, <1>13, <1>14
LEMMA PrintOfSame ==
  ASSUME NEW n \in Nat, NEW e \in Trees[n], NEW f, NEW g,
         n > 0 => \A x \in Trees[n - 1] : f[x] = g[x]
  PROVE  PrintOf(e, f) = PrintOf(e, g)
<1> DEFINE T == Trees[n - 1]
           Body(l, h) == Joined([k \in 1 .. Len(l) |-> h[l[k]] \o <<Word(";")>>])
           Else(l, h) == Joined([k \in 1 .. Len(l) |->
                               <<Word("else"), Word("{")>> \o h[l[k]] \o <<Word("}")>>])
<1>1. ASSUME NEW l \in Seq(T), n > 0 PROVE Body(l, f) = Body(l, g) /\ Else(l, f) = Else(l, g)
  <2>1. Len(l) \in Nat /\ \A k \in 1 .. Len(l) : l[k] \in T  BY LenProperties, ElementOfSeq
  <2>2. \A k \in 1 .. Len(l) : f[l[k]] = g[l[k]]  BY <1>1, <2>1
  <2>3. [k \in 1 .. Len(l) |-> f[l[k]] \o <<Word(";")>>]
          = [k \in 1 .. Len(l) |-> g[l[k]] \o <<Word(";")>>]
    BY <2>2
  <2>4. [k \in 1 .. Len(l) |-> <<Word("else"), Word("{")>> \o f[l[k]] \o <<Word("}")>>]
          = [k \in 1 .. Len(l) |-> <<Word("else"), Word("{")>> \o g[l[k]] \o <<Word("}")>>]
    BY <2>2
  <2> QED  BY <2>3, <2>4
<1>2. /\ e.tag \in {"LET_E", "ASSIGN_E", "DEREF_E", "RETURN_E"} => f[e.e] = g[e.e]
      /\ e.tag = "DEREF_ASSIGN_E" => f[e.e1] = g[e.e1] /\ f[e.e2] = g[e.e2]
      /\ e.tag \in ByteOps => f[e.lhs] = g[e.lhs] /\ f[e.rhs] = g[e.rhs]
      /\ e.tag = "IF_ELSE_E" =>
           f[e.cond] = g[e.cond] /\ f[e.if_body] = g[e.if_body]
             /\ Else(e.else_body, f) = Else(e.else_body, g)
      /\ e.tag = "SEQUENCE_E" => Body(e.list, f) = Body(e.list, g)
  <2>1. n > 0 => T = Trees[n - 1]  OBVIOUS
  <2>2. n > 0 => \A x \in T : f[x] = g[x]  OBVIOUS
  <2> HIDE DEF T, Body, Else
  <2> QED  BY <2>1, <2>2, <1>1, TreeParts
<1>3. CASE e.tag = "IF_ELSE_E"
  <2>1. ASSUME NEW h PROVE
          PrintOf(e, h) = <<Word("if"), Word("(")>> \o h[e.cond] \o <<Word(")"), Word("{")>>
                            \o h[e.if_body] \o <<Word("}")>> \o Else(e.else_body, h)
    BY <1>3 DEF PrintOf, ByteOps
  <2> HIDE DEF Else
  <2> QED  BY <1>2, <1>3, <2>1
<1>4. CASE e.tag = "SEQUENCE_E"
  <2>1. ASSUME NEW h PROVE PrintOf(e, h) = Body(e.list, h)
    BY <1>4 DEF PrintOf, ByteOps
  <2> HIDE DEF Body
  <2> QED  BY <1>2, <1>4, <2>1
<1>5. CASE e.tag \in {"LET_E", "ASSIGN_E", "DEREF_E", "RETURN_E", "DEREF_ASSIGN_E",
                     "NUMBER_E", "CHAR_LITERAL_E", "VARIABLE_E", "FUNCTION_CALL_E"}
  <2> HIDE DEF Body, Else
  <2> QED  BY <1>2, <1>5 DEF PrintOf, ByteOps
<1>6. CASE e.tag \in ByteOps
  <2> HIDE DEF Body, Else
  <2> QED  BY <1>2, <1>6 DEF PrintOf, ByteOps
<1>7. e.tag \in {"LET_E", "ASSIGN_E", "DEREF_E", "RETURN_E", "DEREF_ASSIGN_E", "IF_ELSE_E",
                "SEQUENCE_E", "NUMBER_E", "CHAR_LITERAL_E", "VARIABLE_E",
                "FUNCTION_CALL_E"} \union ByteOps
  <2>1. n > 0 => T = Trees[n - 1]  OBVIOUS
  <2> HIDE DEF T
  <2> QED  BY <2>1, TreeParts
<1> QED  BY <1>3, <1>4, <1>5, <1>6, <1>7

LEMMA PrintIs ==
  ASSUME Input
  PROVE  /\ fprintf_expression \in [Trees[Size] -> Seq(Records)]
         /\ \A e \in Trees[Size] : fprintf_expression[e] = PrintOf(e, fprintf_expression)
<1> DEFINE D == Trees[Size]
           V == Seq(Records)
           G == [f \in [D -> V] |-> [e \in D |-> PrintOf(e, f)]]
           R(f) == f = [e \in D |-> PrintOf(e, f)]
<1>0. Size \in Nat  BY TokenIs
<1>1. ASSUME NEW f \in [D -> V], NEW n \in 0 .. Size, n > 0, NEW x \in Trees[n - 1]
      PROVE  x \in D /\ f[x] \in V
  <2>1. n - 1 \in Nat /\ n - 1 <= Size  BY <1>0, <1>1
  <2>2. x \in D  BY <1>0, <2>1, TreesGrow
  <2> QED  BY <2>2
<1>2. G \in [[D -> V] -> [D -> V]]
  <2>1. ASSUME NEW f \in [D -> V], NEW e \in D PROVE PrintOf(e, f) \in V
    <3>1. Size \in 0 .. Size  BY <1>0
    <3>2. Size > 0 => \A x \in Trees[Size - 1] : f[x] \in Seq(Records)  BY <1>1, <3>1
    <3> QED  BY <1>0, <3>2, PrintOfIn
  <2> HIDE DEF D, V
  <2> QED  BY <2>1
<1>3. ASSUME NEW f \in [D -> V], NEW g \in [D -> V], NEW n \in 0 .. Size, NEW e \in Trees[n],
             n > 0 => \A x \in Trees[n - 1] : f[x] = g[x]
      PROVE  G[f][e] = G[g][e]
  <2>1. n \in Nat /\ n <= Size  BY <1>0
  <2>2. e \in D  BY <1>0, <2>1, TreesGrow
  <2>3. PrintOf(e, f) = PrintOf(e, g)  BY <1>3, <2>1, PrintOfSame
  <2>4. G[f][e] = PrintOf(e, f) /\ G[g][e] = PrintOf(e, g)
    <3> HIDE DEF D, V
    <3> QED  BY <2>2
  <2> QED  BY <2>3, <2>4
<1>4. V # {}  BY EmptySeq
<1>5. PICK f \in [D -> V] : f = G[f]
  <2> HIDE DEF V, G
  <2>1. TreeStep(Size, V, G)  BY <1>2, <1>3, <1>4 DEF TreeStep
  <2> QED  BY <1>0, <2>1, TreeRecursion
<1>6. R(f)
  <2> HIDE DEF D, V
  <2> QED  BY <1>5
<1>7. fprintf_expression = CHOOSE g : R(g)  BY DEF fprintf_expression
<1>8. R(fprintf_expression)  BY <1>6, <1>7
<1>9. \A e \in D : fprintf_expression[e] \in V
  <2> DEFINE h == fprintf_expression
  <2>1. ASSUME NEW n \in 0 .. Size, NEW e \in Trees[n],
               n > 0 => \A x \in Trees[n - 1] : h[x] \in V
        PROVE  h[e] \in V
    <3>1. n \in Nat /\ n <= Size  BY <1>0
    <3>2. e \in D  BY <1>0, <3>1, TreesGrow
    <3>3. h[e] = PrintOf(e, h)  BY <1>8, <3>2
    <3>4. PrintOf(e, h) \in V  BY <2>1, <3>1, PrintOfIn
    <3> QED  BY <3>3, <3>4
  <2> HIDE DEF h, V
  <2> QED  BY <1>0, <2>1, TreeInduction DEF h
<1>10. fprintf_expression = [e \in D |-> fprintf_expression[e]]  BY <1>8
<1>11. \A e \in D : fprintf_expression[e] = PrintOf(e, fprintf_expression)  BY <1>8
<1> HIDE DEF D, V
<1> QED  BY <1>9, <1>10, <1>11 DEF D, V

(* Names for the words the SMT backend cannot read.                        *)
Comma     == ","
Semicolon == ";"
Opening   == "{"
Closing   == "}"

LEMMA Marks ==
  /\ Comma \notin WithText /\ Semicolon \notin WithText
  /\ Opening \notin WithText /\ Closing \notin WithText
  BY DEF Comma, Semicolon, Opening, Closing, WithText

-----------------------------------------------------------------------------
(* What a piece of the program, the tokens i + 1 to j, is turned into: the *)
(* texts s are those of the piece that are not among the freed ones F, and *)
(* it is printed as p, where printing shows what was read.                 *)
Faithful ==
  /\ ~Misread /\ ~SpareComma
  /\ \A k \in DOMAIN tokens : tokens[k].type # "!="

Owns(s, F, i, j) ==
  /\ s \in Seq(Places)
  /\ \A a, b \in 1 .. Len(s) : a # b => s[a] # s[b]
  /\ \A x : (\E a \in 1 .. Len(s) : s[a] = x) <=> (x \in i + 1 .. j /\ HasText(x) /\ x \notin F)

Reads(p, i, j) ==
  /\ p \in Seq(Token)
  /\ Len(p) = j - i
  /\ \A a \in 1 .. Len(p) : p[a] = tokens[i + a]

Covers(s, p, F, i, j) ==
  /\ i \in Nat /\ j \in Nat /\ i <= j /\ j <= Len(tokens)
  /\ Owns(s, F, i, j)
  /\ Faithful => Reads(p, i, j)

LEMMA OwnsCat ==
  ASSUME NEW F, NEW i \in Nat, NEW j \in Nat, NEW k \in Nat, i <= j, j <= k,
         NEW s, Owns(s, F, i, j), NEW t, Owns(t, F, j, k)
  PROVE  Owns(s \o t, F, i, k) /\ Owns(t \o s, F, i, k)
<1>1. /\ s \in Seq(Places) /\ t \in Seq(Places)
      /\ \A x : (\E a \in 1 .. Len(s) : s[a] = x) <=> (x \in i + 1 .. j /\ HasText(x) /\ x \notin F)
      /\ \A x : (\E a \in 1 .. Len(t) : t[a] = x) <=> (x \in j + 1 .. k /\ HasText(x) /\ x \notin F)
  BY DEF Owns
<1>2. \A a \in 1 .. Len(s), b \in 1 .. Len(t) : s[a] # t[b]
  <2> SUFFICES ASSUME NEW a \in 1 .. Len(s), NEW b \in 1 .. Len(t), s[a] = t[b] PROVE FALSE
    OBVIOUS
  <2>1. s[a] \in i + 1 .. j /\ t[b] \in j + 1 .. k  BY <1>1
  <2> QED  BY <2>1
<1>3. ASSUME NEW u, Owns(u, F, i, j) \/ Owns(u, F, j, k),
             NEW v, Owns(v, F, i, j) \/ Owns(v, F, j, k),
             \A a \in 1 .. Len(u), b \in 1 .. Len(v) : u[a] # v[b],
             \A x : x \in i + 1 .. k /\ HasText(x) /\ x \notin F
                      <=> \/ \E a \in 1 .. Len(u) : u[a] = x
                          \/ \E a \in 1 .. Len(v) : v[a] = x
      PROVE  Owns(u \o v, F, i, k)
  <2> DEFINE m == Len(u)
             n == Len(v)
             w == u \o v
  <2>1. /\ u \in Seq(Places) /\ v \in Seq(Places) /\ m \in Nat /\ n \in Nat
        /\ \A a, b \in 1 .. m : a # b => u[a] # u[b]
        /\ \A a, b \in 1 .. n : a # b => v[a] # v[b]
    BY <1>3, LenProperties DEF Owns
  <2>2. /\ w \in Seq(Places) /\ Len(w) = m + n
        /\ \A a \in 1 .. m + n : w[a] = IF a <= m THEN u[a] ELSE v[a - m]
    BY <2>1, ConcatProperties
  <2> HIDE DEF m, n, w
  <2>3. ASSUME NEW a \in 1 .. m + n, NEW b \in 1 .. m + n, a # b PROVE w[a] # w[b]
    <3>1. /\ a <= m => a \in 1 .. m
          /\ ~(a <= m) => a - m \in 1 .. n
          /\ b <= m => b \in 1 .. m
          /\ ~(b <= m) => b - m \in 1 .. n
          /\ a - m # b - m
      BY <2>1, <2>3
    <3>2. /\ w[a] = IF a <= m THEN u[a] ELSE v[a - m]
          /\ w[b] = IF b <= m THEN u[b] ELSE v[b - m]
      BY <2>2, <2>3
    <3>3. \A c \in 1 .. m, d \in 1 .. n : u[c] # v[d]  BY <1>3 DEF m, n
    <3>4. CASE a <= m /\ b <= m  BY <3>4, <3>1, <3>2, <2>1, <2>3
    <3>5. CASE a <= m /\ ~(b <= m)  BY <3>5, <3>1, <3>2, <3>3
    <3>6. CASE ~(a <= m) /\ b <= m  BY <3>6, <3>1, <3>2, <3>3
    <3>7. CASE ~(a <= m) /\ ~(b <= m)  BY <3>7, <3>1, <3>2, <2>1
    <3> QED  BY <3>4, <3>5, <3>6, <3>7
  <2>4. ASSUME NEW x
        PROVE  (\E a \in 1 .. m + n : w[a] = x)
                 <=> (\E a \in 1 .. m : u[a] = x) \/ (\E a \in 1 .. n : v[a] = x)
    <3>1. ASSUME NEW a \in 1 .. m + n, w[a] = x
          PROVE  (\E b \in 1 .. m : u[b] = x) \/ (\E b \in 1 .. n : v[b] = x)
      <4>1. a <= m => a \in 1 .. m  BY <2>1
      <4>2. ~(a <= m) => a - m \in 1 .. n  BY <2>1
      <4>3. w[a] = IF a <= m THEN u[a] ELSE v[a - m]  BY <2>2
      <4> QED  BY <3>1, <4>1, <4>2, <4>3
    <3>2. ASSUME NEW a \in 1 .. m, u[a] = x PROVE \E b \in 1 .. m + n : w[b] = x
      <4>1. a \in 1 .. m + n /\ a <= m  BY <2>1
      <4> QED  BY <2>2, <3>2, <4>1
    <3>3. ASSUME NEW a \in 1 .. n, v[a] = x PROVE \E b \in 1 .. m + n : w[b] = x
      <4>1. a + m \in 1 .. m + n /\ ~(a + m <= m) /\ (a + m) - m = a  BY <2>1
      <4>2. w[a + m] = v[a]  BY <2>2, <4>1
      <4> QED  BY <3>3, <4>1, <4>2
    <3> QED  BY <3>1, <3>2, <3>3
  <2>5. \A x : (\E a \in 1 .. m + n : w[a] = x) <=> (x \in i + 1 .. k /\ HasText(x) /\ x \notin F)
    <3> SUFFICES ASSUME NEW x
                 PROVE (\E a \in 1 .. m + n : w[a] = x)
                          <=> (x \in i + 1 .. k /\ HasText(x) /\ x \notin F)
      OBVIOUS
    <3>1. (\E a \in 1 .. m + n : w[a] = x)
             <=> (\E a \in 1 .. m : u[a] = x) \/ (\E a \in 1 .. n : v[a] = x)
      BY <2>4
    <3>2. x \in i + 1 .. k /\ HasText(x) /\ x \notin F
             <=> (\E a \in 1 .. m : u[a] = x) \/ (\E a \in 1 .. n : v[a] = x)
      BY <1>3 DEF m, n
    <3> QED  BY <3>1, <3>2
  <2>6. Owns(w, F, i, k)  BY <2>2, <2>3, <2>5 DEF Owns
  <2> QED  BY <2>6 DEF w
<1>4. \A x : x \in i + 1 .. k <=> x \in i + 1 .. j \/ x \in j + 1 .. k
  OBVIOUS
<1>5. \A x : x \in i + 1 .. k /\ HasText(x) /\ x \notin F
                      <=> \/ \E a \in 1 .. Len(s) : s[a] = x
                          \/ \E a \in 1 .. Len(t) : t[a] = x
  BY <1>1, <1>4
<1>6. Owns(s \o t, F, i, k)  BY <1>2, <1>3, <1>5
<1>7. Owns(t \o s, F, i, k)
  <2>1. \A a \in 1 .. Len(t), b \in 1 .. Len(s) : t[a] # s[b]  BY <1>2
  <2>2. \A x : x \in i + 1 .. k /\ HasText(x) /\ x \notin F
                      <=> \/ \E a \in 1 .. Len(t) : t[a] = x
                          \/ \E a \in 1 .. Len(s) : s[a] = x
    BY <1>5
  <2> QED  BY <1>3, <2>1, <2>2
<1> QED  BY <1>6, <1>7

LEMMA ReadsCat ==
  ASSUME NEW i \in Nat, NEW j \in Nat, NEW k \in Nat,
         NEW p, Reads(p, i, j), NEW q, Reads(q, j, k)
  PROVE  Reads(p \o q, i, k)
<1> DEFINE m == Len(p)
           n == Len(q)
           w == p \o q
<1>1. /\ p \in Seq(Token) /\ q \in Seq(Token) /\ m = j - i /\ n = k - j
      /\ m \in Nat /\ n \in Nat
      /\ \A a \in 1 .. m : p[a] = tokens[i + a]
      /\ \A a \in 1 .. n : q[a] = tokens[j + a]
  BY LenProperties DEF Reads
<1>2. /\ w \in Seq(Token) /\ Len(w) = m + n
      /\ \A a \in 1 .. m + n : w[a] = IF a <= m THEN p[a] ELSE q[a - m]
  BY <1>1, ConcatProperties
<1> HIDE DEF m, n, w
<1>3. \A a \in 1 .. m + n : w[a] = tokens[i + a]
  <2> SUFFICES ASSUME NEW a \in 1 .. m + n PROVE w[a] = tokens[i + a]
    OBVIOUS
  <2>1. CASE a <= m
    <3>1. a \in 1 .. m  BY <1>1, <2>1
    <3> QED  BY <1>1, <1>2, <2>1, <3>1
  <2>2. CASE ~(a <= m)
    <3>1. a - m \in 1 .. n /\ j + (a - m) = i + a  BY <1>1, <2>2
    <3>2. w[a] = q[a - m]  BY <1>2, <2>2
    <3>3. q[a - m] = tokens[j + (a - m)]  BY <1>1, <3>1
    <3> QED  BY <3>1, <3>2, <3>3
  <2> QED  BY <2>1, <2>2
<1>4. Reads(w, i, k)  BY <1>1, <1>2, <1>3 DEF Reads
<1> QED  BY <1>4 DEF w

LEMMA CoversCat ==
  ASSUME NEW F, NEW i, NEW j, NEW k,
         NEW s, NEW p, Covers(s, p, F, i, j), NEW t, NEW q, Covers(t, q, F, j, k)
  PROVE  Covers(s \o t, p \o q, F, i, k) /\ Covers(t \o s, p \o q, F, i, k)
<1>1. i \in Nat /\ j \in Nat /\ k \in Nat /\ i <= j /\ j <= k /\ i <= k /\ k <= Len(tokens)
  BY DEF Covers
<1>2. Owns(s \o t, F, i, k) /\ Owns(t \o s, F, i, k)  BY <1>1, OwnsCat DEF Covers
<1>3. Faithful => Reads(p \o q, i, k)  BY <1>1, ReadsCat DEF Covers
<1> QED  BY <1>1, <1>2, <1>3 DEF Covers

(* Nothing, a word, a name, and a text that has been freed.                *)
LEMMA CoversNothing ==
  ASSUME NEW F, NEW i \in Nat, i <= Len(tokens)
  PROVE  Covers(<<>>, <<>>, F, i, i)
<1>1. Owns(<<>>, F, i, i)  BY EmptySeq DEF Owns
<1>2. Reads(<<>>, i, i)  BY EmptySeq DEF Reads
<1> QED  BY <1>1, <1>2 DEF Covers

LEMMA TokenTyped ==
  ASSUME Input, NEW i \in Nat, i + 1 <= Len(tokens)
  PROVE  /\ tokens[i + 1] \in Token /\ tokens[i + 1].type \in TokenType
         /\ TokenAt(i) = tokens[i + 1]
         /\ tokens[i + 1].type \notin WithText => tokens[i + 1] = Word(tokens[i + 1].type)
<1>1. i + 1 \in 1 .. Len(tokens) /\ i < Len(tokens)
  <2>1. Len(tokens) \in Nat  BY TokenIs
  <2> QED  BY <2>1
<1>2. tokens[i + 1] \in Token  BY <1>1, ElementOfSeq DEF Input
<1>3. IsLexed(tokens[i + 1])
  <2>1. DOMAIN tokens = 1 .. Len(tokens)  BY LenProperties DEF Input
  <2> QED  BY <1>1, <2>1 DEF Input
<1>4. TokenAt(i) = tokens[i + 1]  BY <1>1, TokenIs
<1> QED  BY <1>2, <1>3, <1>4 DEF IsLexed, Token, Word

LEMMA ReadsOne ==
  ASSUME NEW i \in Nat, NEW x \in Token, x = tokens[i + 1]
  PROVE  Reads(<<x>>, i, i + 1)
<1>1. <<x>> \in Seq(Token) /\ Len(<<x>>) = 1 /\ <<x>>[1] = x  OBVIOUS
<1> QED  BY <1>1 DEF Reads

LEMMA ReadsTwo ==
  ASSUME NEW i \in Nat, NEW x \in Token, NEW y \in Token, x = tokens[i + 1], y = tokens[i + 2]
  PROVE  Reads(<<x, y>>, i, i + 2)
<1> DEFINE p == <<x, y>>
<1>1. p \in Seq(Token) /\ Len(p) = 2 /\ p[1] = x /\ p[2] = y  OBVIOUS
<1> HIDE DEF p
<1>2. Reads(p, i, i + 2)  BY <1>1 DEF Reads
<1> QED  BY <1>2 DEF p

LEMMA ReadsThree ==
  ASSUME NEW i \in Nat, NEW x \in Token, NEW y \in Token, NEW z \in Token,
         x = tokens[i + 1], y = tokens[i + 2], z = tokens[i + 3]
  PROVE  Reads(<<x, y, z>>, i, i + 3)
<1> DEFINE p == <<x, y, z>>
<1>1. p \in Seq(Token) /\ Len(p) = 3 /\ p[1] = x /\ p[2] = y /\ p[3] = z  OBVIOUS
<1> HIDE DEF p
<1>2. Reads(p, i, i + 3)  BY <1>1 DEF Reads
<1> QED  BY <1>2 DEF p

LEMMA ReadsFour ==
  ASSUME NEW i \in Nat, NEW x \in Token, NEW y \in Token, NEW z \in Token, NEW v \in Token,
         x = tokens[i + 1], y = tokens[i + 2], z = tokens[i + 3], v = tokens[i + 4]
  PROVE  Reads(<<x, y, z, v>>, i, i + 4)
<1> DEFINE p == <<x, y, z, v>>
<1>1. p \in Seq(Token) /\ Len(p) = 4 /\ p[1] = x /\ p[2] = y /\ p[3] = z /\ p[4] = v
  OBVIOUS
<1> HIDE DEF p
<1>2. Reads(p, i, i + 4)  BY <1>1 DEF Reads
<1> QED  BY <1>2 DEF p

LEMMA ReadsFive ==
  ASSUME NEW i \in Nat, NEW x \in Token, NEW y \in Token, NEW z \in Token, NEW v \in Token,
         NEW w \in Token,
         x = tokens[i + 1], y = tokens[i + 2], z = tokens[i + 3], v = tokens[i + 4],
         w = tokens[i + 5]
  PROVE  Reads(<<x, y, z, v, w>>, i, i + 5)
<1> DEFINE p == <<x, y, z, v, w>>
<1>1. /\ p \in Seq(Token) /\ Len(p) = 5
      /\ p[1] = x /\ p[2] = y /\ p[3] = z /\ p[4] = v /\ p[5] = w
  OBVIOUS
<1> HIDE DEF p
<1>2. Reads(p, i, i + 5)  BY <1>1 DEF Reads
<1> QED  BY <1>2 DEF p

(* Pieces with one text and with none.                                     *)
LEMMA OwnsNone ==
  ASSUME NEW F, NEW i \in Nat, NEW j \in Nat,
         \A x \in i + 1 .. j : ~HasText(x) \/ x \in F
  PROVE  Owns(<<>>, F, i, j)
BY EmptySeq DEF Owns

LEMMA OwnsOne ==
  ASSUME NEW F, NEW i \in Nat, NEW j \in Nat, NEW k \in i + 1 .. j,
         HasText(k), k \notin F,
         \A x \in i + 1 .. j : x # k => ~HasText(x) \/ x \in F
  PROVE  Owns(<<k>>, F, i, j)
<1>1. <<k>> \in Seq(Places) /\ Len(<<k>>) = 1 /\ <<k>>[1] = k  BY DEF Places
<1>2. \A x : (\E a \in 1 .. Len(<<k>>) : <<k>>[a] = x) <=> x = k  BY <1>1
<1> QED  BY <1>1, <1>2 DEF Owns

LEMMA CoversWord ==
  ASSUME Input, NEW F, NEW i \in Nat, i + 1 <= Len(tokens), tokens[i + 1].type \notin WithText,
         NEW w, w = tokens[i + 1].type
  PROVE  Covers(<<>>, <<Word(w)>>, F, i, i + 1)
<1>1. tokens[i + 1] \in Token /\ tokens[i + 1] = Word(w)  BY TokenTyped
<1>2. Owns(<<>>, F, i, i + 1)  BY OwnsNone DEF HasText
<1>3. Reads(<<Word(w)>>, i, i + 1)  BY <1>1, ReadsOne
<1> QED  BY <1>2, <1>3 DEF Covers

LEMMA CoversName ==
  ASSUME Input, NEW F, NEW i \in Nat, i + 1 <= Len(tokens), tokens[i + 1].type \in WithText,
         i + 1 \notin F
  PROVE  Covers(<<i + 1>>, <<TokenAt(i)>>, F, i, i + 1)
<1>1. tokens[i + 1] \in Token /\ TokenAt(i) = tokens[i + 1]  BY TokenTyped
<1>2. Owns(<<i + 1>>, F, i, i + 1)  BY OwnsOne DEF HasText
<1>3. Reads(<<TokenAt(i)>>, i, i + 1)  BY <1>1, ReadsOne
<1> QED  BY <1>2, <1>3 DEF Covers

LEMMA CoversFreed ==
  ASSUME Input, NEW F, NEW i \in Nat, i + 1 <= Len(tokens), i + 1 \in F
  PROVE  Covers(<<>>, <<TokenAt(i)>>, F, i, i + 1)
<1>1. tokens[i + 1] \in Token /\ TokenAt(i) = tokens[i + 1]  BY TokenTyped
<1>2. Owns(<<>>, F, i, i + 1)
  <2>1. \A x \in i + 1 .. i + 1 : x \in F  OBVIOUS
  <2> QED  BY <2>1, OwnsNone
<1>3. Reads(<<TokenAt(i)>>, i, i + 1)  BY <1>1, ReadsOne
<1> QED  BY <1>2, <1>3 DEF Covers

(* A piece without texts before one with texts and behind it.              *)
LEMMA CoversBefore ==
  ASSUME NEW F, NEW i, NEW j, NEW k,
         NEW p, Covers(<<>>, p, F, i, j), NEW t, NEW q, Covers(t, q, F, j, k)
  PROVE  Covers(t, p \o q, F, i, k)
<1>1. Covers(<<>> \o t, p \o q, F, i, k)  BY CoversCat
<1>2. <<>> \o t = t  BY ConcatEmptySeq DEF Covers, Owns
<1> QED  BY <1>1, <1>2

LEMMA CoversBehind ==
  ASSUME NEW F, NEW i, NEW j, NEW k,
         NEW t, NEW q, Covers(t, q, F, i, j), NEW p, Covers(<<>>, p, F, j, k)
  PROVE  Covers(t, q \o p, F, i, k)
<1>1. Covers(<<>> \o t, q \o p, F, i, k)  BY CoversCat
<1>2. <<>> \o t = t  BY ConcatEmptySeq DEF Covers, Owns
<1> QED  BY <1>1, <1>2

-----------------------------------------------------------------------------
(* Pieces one behind the other.                                            *)
LEMMA JoinedCovers ==
  ASSUME Input, NEW n \in Nat, NEW s, NEW p, Len(s) = n, Len(p) = n, NEW F, NEW at,
         at[0] \in Nat, at[0] <= Len(tokens),
         \A k \in 1 .. n : Covers(s[k], p[k], F, at[k - 1], at[k])
  PROVE  Covers(Joined(s), Joined(p), F, at[0], at[n])
<1>1. PICK g : /\ Joined(s) = g[n]
               /\ g[0] = <<>>
               /\ \A k \in 1 .. n : g[k] = g[k - 1] \o s[k]
  BY JoinedIs
<1>2. PICK h : /\ Joined(p) = h[n]
               /\ h[0] = <<>>
               /\ \A k \in 1 .. n : h[k] = h[k - 1] \o p[k]
  BY JoinedIs
<1> DEFINE T == {k \in 0 .. n : ~Covers(g[k], h[k], F, at[0], at[k])}
<1> SUFFICES ASSUME T # {} PROVE FALSE
  <2>1. T = {} => Covers(g[n], h[n], F, at[0], at[n])  OBVIOUS
  <2> QED  BY <1>1, <1>2, <2>1
<1>3. PICK k \in T : \A y \in T : k <= y
  <2>1. T \subseteq Nat  OBVIOUS
  <2> HIDE DEF T
  <2> QED  BY <2>1, Least
<1>4. k # 0
  <2>1. Covers(<<>>, <<>>, F, at[0], at[0])  BY CoversNothing
  <2> QED  BY <1>1, <1>2, <2>1
<1>5. k \in 1 .. n /\ k - 1 \in 0 .. n /\ k - 1 < k  BY <1>4
<1>6. Covers(g[k - 1], h[k - 1], F, at[0], at[k - 1])  BY <1>3, <1>5
<1>7. Covers(g[k - 1] \o s[k], h[k - 1] \o p[k], F, at[0], at[k])
  <2> HIDE DEF T
  <2> QED  BY <1>5, <1>6, CoversCat
<1>8. g[k] = g[k - 1] \o s[k] /\ h[k] = h[k - 1] \o p[k]  BY <1>1, <1>2, <1>5
<1> QED  BY <1>7, <1>8

-----------------------------------------------------------------------------
(* The tree e is what the tokens i + 1 to j mean.                          *)
Meant(e, F, i, j) ==
  /\ i \in Nat /\ j \in Nat /\ i < j
  /\ e \in Trees[j - i]
  /\ Covers(expression_delete[e], fprintf_expression[e], F, i, j)

LEMMA MeantIs ==
  ASSUME Input, NEW F, NEW i \in Nat, NEW j \in Nat, i < j, NEW e, e \in Trees[j - i],
         Covers(TextsOf(e, expression_delete), PrintOf(e, fprintf_expression), F, i, j)
  PROVE  Meant(e, F, i, j)
<1>1. j - i \in Nat /\ Size \in Nat /\ j - i <= Size
  BY TokenIs DEF Covers
<1>2. e \in Trees[Size]  BY <1>1, TreesGrow
<1>3. /\ expression_delete[e] = TextsOf(e, expression_delete)
      /\ fprintf_expression[e] = PrintOf(e, fprintf_expression)
  BY <1>1, <1>2, DeleteIs, PrintIs
<1> QED  BY <1>3 DEF Meant

LEMMA NodeIn ==
  ASSUME NEW n \in Nat, NEW m \in Nat, n < m, NEW e \in Nodes(Trees[n])
  PROVE  e \in Trees[m]
<1>1. n + 1 \in Nat /\ n + 1 # 0 /\ (n + 1) - 1 = n /\ n + 1 <= m  OBVIOUS
<1>2. Trees[n + 1] = Leaves \union Nodes(Trees[n])  BY <1>1, TreesAre
<1>3. Trees[n + 1] \subseteq Trees[m]  BY <1>1, TreesGrow
<1> QED  BY <1>2, <1>3

LEMMA LeafIn ==
  ASSUME NEW m \in Nat, NEW e \in Leaves
  PROVE  e \in Trees[m]
BY TreesAre

LEMMA MeantGrows ==
  ASSUME NEW F, NEW i, NEW j, NEW e, Meant(e, F, i, j), NEW n \in Nat, j - i <= n
  PROVE  e \in Trees[n]
<1>1. j - i \in Nat  BY DEF Meant
<1> QED  BY <1>1, TreesGrow DEF Meant

-----------------------------------------------------------------------------
(* What a tree of a kind is printed as.                                    *)
LEMMA PrintOfKind ==
  ASSUME NEW e, NEW f
  PROVE  /\ e.tag = "LET_E" =>
              PrintOf(e, f) =
                <<Word("let"), TokenAt(e.var - 1), Word(":"), Word(e.type), Word("=")>> \o f[e.e]
         /\ e.tag \in ByteOps =>
              PrintOf(e, f) =
                f[e.lhs] \o <<Word(binary_tag_to_token_type(e.tag))>> \o f[e.rhs]
         /\ e.tag = "VARIABLE_E" => PrintOf(e, f) = <<TokenAt(e.name - 1)>>
         /\ e.tag = "NUMBER_E" =>
              PrintOf(e, f) =
                IF e.value \in HexDigits
                THEN <<[type |-> "NUMBER", text |-> "0"],
                       [type |-> "IDENTIFIER", text |-> e.value]>>
                ELSE <<[type |-> "NUMBER", text |-> e.value]>>
         /\ e.tag = "ASSIGN_E" =>
              PrintOf(e, f) = <<TokenAt(e.var - 1), Word("=")>> \o f[e.e]
         /\ e.tag = "DEREF_ASSIGN_E" =>
              PrintOf(e, f) = <<Word("*")>> \o f[e.e1] \o <<Word("=")>> \o f[e.e2]
         /\ e.tag = "DEREF_E" => PrintOf(e, f) = <<Word("*")>> \o f[e.e]
         /\ e.tag = "RETURN_E" => PrintOf(e, f) = <<Word("return")>> \o f[e.e]
         /\ e.tag = "FUNCTION_CALL_E" =>
              PrintOf(e, f) = <<TokenAt(e.name - 1), Word("("), Word(")")>>
         /\ e.tag = "CHAR_LITERAL_E" =>
              PrintOf(e, f) = <<[type |-> "CHAR_LITERAL", text |-> e.c]>>
BY DEF PrintOf, ByteOps

LEMMA PrintOfList ==
  ASSUME NEW e, NEW f
  PROVE  /\ e.tag = "SEQUENCE_E" =>
              PrintOf(e, f) = Joined([k \in 1 .. Len(e.list) |-> f[e.list[k]] \o <<Word(Semicolon)>>])
         /\ e.tag = "IF_ELSE_E" =>
              PrintOf(e, f) =
                <<Word("if"), Word("(")>> \o f[e.cond] \o <<Word(")"), Word(Opening)>>
                  \o f[e.if_body] \o <<Word(Closing)>>
                  \o Joined([k \in 1 .. Len(e.else_body) |->
                               <<Word("else"), Word(Opening)>> \o f[e.else_body[k]]
                                 \o <<Word(Closing)>>])
BY DEF PrintOf, ByteOps, Opening, Closing, Semicolon

LEMMA TextsOfKind ==
  ASSUME NEW e, NEW f
  PROVE  /\ e.tag = "LET_E" => TextsOf(e, f) = <<e.var>> \o f[e.e]
         /\ e.tag \in ByteOps => TextsOf(e, f) = f[e.lhs] \o f[e.rhs]
         /\ e.tag = "VARIABLE_E" => TextsOf(e, f) = <<e.name>>
         /\ e.tag = "ASSIGN_E" => TextsOf(e, f) = <<e.var>> \o f[e.e]
         /\ e.tag = "DEREF_ASSIGN_E" => TextsOf(e, f) = f[e.e1] \o f[e.e2]
         /\ e.tag \in {"DEREF_E", "RETURN_E"} => TextsOf(e, f) = f[e.e]
         /\ e.tag = "FUNCTION_CALL_E" => TextsOf(e, f) = <<e.name>>
         /\ e.tag \in {"NUMBER_E", "CHAR_LITERAL_E"} => TextsOf(e, f) = <<>>
BY DEF TextsOf, ByteOps

LEMMA TextsOfList ==
  ASSUME NEW e, NEW f
  PROVE  /\ e.tag = "SEQUENCE_E" =>
              TextsOf(e, f) = Joined([k \in 1 .. Len(e.list) |-> f[e.list[k]]])
         /\ e.tag = "IF_ELSE_E" =>
              TextsOf(e, f) =
                f[e.if_body] \o f[e.cond]
                  \o Joined([k \in 1 .. Len(e.else_body) |-> f[e.else_body[k]]])
BY DEF TextsOf, ByteOps

-----------------------------------------------------------------------------
(* The trees of parse_unary_expr mean what they were read from.            *)
IsWord(k, w) == k <= Len(tokens) /\ tokens[k].type = w

LEMMA WordOf ==
  ASSUME Input, NEW k \in Places, NEW w, w \notin WithText, IsWord(k, w)
  PROVE  Word(w) \in Token /\ tokens[k] = Word(w) /\ ~HasText(k)
<1>1. k - 1 \in Nat /\ (k - 1) + 1 = k  BY DEF Places
<1>2. tokens[k] \in Token /\ tokens[k] = Word(w)  BY <1>1, TokenTyped DEF IsWord
<1> QED  BY <1>2 DEF HasText, IsWord

LEMMA NameOf ==
  ASSUME Input, NEW k \in Places, NEW w, w \in WithText, IsWord(k, w)
  PROVE  tokens[k] \in Token /\ TokenAt(k - 1) = tokens[k] /\ HasText(k)
         /\ tokens[k] = [type |-> w, text |-> tokens[k].text] /\ tokens[k].text \in Texts
<1>1. k - 1 \in Nat /\ (k - 1) + 1 = k  BY DEF Places
<1>2. tokens[k] \in Token /\ TokenAt(k - 1) = tokens[k]  BY <1>1, TokenTyped DEF IsWord
<1> QED  BY <1>2 DEF HasText, IsWord, Token

LEMMA PartsMeant ==
  ASSUME NEW F, NEW i, NEW j, NEW e, Meant(e, F, i, j)
  PROVE  /\ i \in Nat /\ j \in Nat /\ i < j /\ j <= Len(tokens) /\ j - i \in Nat
         /\ e \in Trees[j - i]
         /\ Covers(expression_delete[e], fprintf_expression[e], F, i, j)
BY DEF Meant, Covers

LEMMA LetMeant ==
  ASSUME Input, NEW F, NEW i \in Nat, NEW j, NEW e, Meant(e, F, i + 5, j), NEW type \in ProgramTypes,
         IsWord(i + 1, "let"), IsWord(i + 2, "IDENTIFIER"), i + 2 \notin F, IsWord(i + 3, ":"),
         IsWord(i + 4, type), IsWord(i + 5, "=")
  PROVE  Meant(LetE(i + 2, type, e), F, i, j)
<1> DEFINE x == LetE(i + 2, type, e)
           T == Trees[j - (i + 5)]
<1>0. /\ i + 1 \in Places /\ i + 2 \in Places /\ i + 3 \in Places /\ i + 4 \in Places
      /\ i + 5 \in Places /\ (i + 2) - 1 = i + 1 /\ i + 5 <= Len(tokens) /\ i <= i + 5
  BY DEF Places, IsWord
<1>1. /\ x.tag = "LET_E" /\ x.var = i + 2 /\ x.type = type /\ x.e = e
      /\ e \in T => x \in Nodes(T)
  BY <1>0 DEF LetE, Nodes
<1> HIDE DEF x
<1>2. /\ "let" \notin WithText /\ ":" \notin WithText /\ type \notin WithText
      /\ "=" \notin WithText /\ "IDENTIFIER" \in WithText
  BY DEF WithText, ProgramTypes
<1>3. /\ Word("let") \in Token /\ tokens[i + 1] = Word("let") /\ ~HasText(i + 1)
      /\ TokenAt(i + 1) \in Token /\ tokens[i + 2] = TokenAt(i + 1) /\ HasText(i + 2)
      /\ Word(":") \in Token /\ tokens[i + 3] = Word(":") /\ ~HasText(i + 3)
      /\ Word(type) \in Token /\ tokens[i + 4] = Word(type) /\ ~HasText(i + 4)
      /\ Word("=") \in Token /\ tokens[i + 5] = Word("=") /\ ~HasText(i + 5)
  <2>1. Word("let") \in Token /\ tokens[i + 1] = Word("let") /\ ~HasText(i + 1)
    BY <1>0, <1>2, WordOf
  <2>2. TokenAt((i + 2) - 1) \in Token /\ tokens[i + 2] = TokenAt((i + 2) - 1) /\ HasText(i + 2)
    BY <1>0, <1>2, NameOf
  <2>3. Word(":") \in Token /\ tokens[i + 3] = Word(":") /\ ~HasText(i + 3)
    BY <1>0, <1>2, WordOf
  <2>4. Word(type) \in Token /\ tokens[i + 4] = Word(type) /\ ~HasText(i + 4)
    BY <1>0, <1>2, WordOf
  <2>5. Word("=") \in Token /\ tokens[i + 5] = Word("=") /\ ~HasText(i + 5)
    BY <1>0, <1>2, WordOf
  <2> QED  BY <1>0, <2>1, <2>2, <2>3, <2>4, <2>5
<1>4. Owns(<<i + 2>>, F, i, i + 5)
  <2>1. \A k \in i + 1 .. i + 5 : k # i + 2 => ~HasText(k)
    <3>1. \A k \in i + 1 .. i + 5 : k \in {i + 1, i + 2, i + 3, i + 4, i + 5}  OBVIOUS
    <3> QED  BY <1>3, <3>1
  <2> QED  BY <2>1, <1>0, <1>3, OwnsOne
<1> DEFINE p == <<Word("let"), TokenAt(i + 1), Word(":"), Word(type), Word("=")>>
<1>5. Reads(p, i, i + 5)  BY <1>3, ReadsFive
<1> HIDE DEF p
<1>6. Covers(<<i + 2>>, p, F, i, i + 5)  BY <1>0, <1>4, <1>5 DEF Covers
<1>7. Covers(<<i + 2>> \o expression_delete[e], p \o fprintf_expression[e], F, i, j)
  BY <1>6, CoversCat, PartsMeant
<1>8. /\ TextsOf(x, expression_delete) = <<i + 2>> \o expression_delete[e]
      /\ PrintOf(x, fprintf_expression) = p \o fprintf_expression[e]
  <2>1. TextsOf(x, expression_delete) = <<x.var>> \o expression_delete[x.e]
    BY <1>1, TextsOfKind
  <2>2. PrintOf(x, fprintf_expression) = p \o fprintf_expression[x.e]
    BY <1>0, <1>1, PrintOfKind DEF p
  <2> QED  BY <1>1, <2>1, <2>2
<1>9. x \in Trees[j - i]
  <2>1. /\ j - (i + 5) \in Nat /\ j - i \in Nat /\ j - (i + 5) < j - i /\ e \in T
    BY PartsMeant
  <2> QED  BY <2>1, <1>1, NodeIn
<1>10. Meant(x, F, i, j)
  <2>1. j \in Nat /\ i < j  BY PartsMeant
  <2> QED  BY <2>1, <1>7, <1>8, <1>9, MeantIs
<1> QED  BY <1>10 DEF x

LEMMA SetMeant ==
  ASSUME Input, NEW F, NEW i \in Nat, NEW j, NEW e, Meant(e, F, i + 2, j),
         IsWord(i + 1, "IDENTIFIER"), i + 1 \notin F, IsWord(i + 2, "=")
  PROVE  Meant(Set(i + 1, e), F, i, j)
<1> DEFINE x == Set(i + 1, e)
           T == Trees[j - (i + 2)]
<1>0. /\ i + 1 \in Places /\ i + 2 \in Places
      /\ (i + 1) - 1 = i /\ i + 2 <= Len(tokens) /\ i <= i + 2
  BY DEF Places, IsWord
<1>1. /\ x.tag = "ASSIGN_E" /\ x.var = i + 1 /\ x.e = e
      /\ e \in T => x \in Nodes(T)
  BY <1>0 DEF Set, Nodes
<1> HIDE DEF x
<1>2. "=" \notin WithText /\ "IDENTIFIER" \in WithText
  BY DEF WithText
<1>3. /\ TokenAt(i) \in Token /\ tokens[i + 1] = TokenAt(i) /\ HasText(i + 1)
      /\ Word("=") \in Token /\ tokens[i + 2] = Word("=") /\ ~HasText(i + 2)
  BY <1>0, <1>2, WordOf, NameOf
<1>4. Owns(<<i + 1>>, F, i, i + 2)
  <2>1. \A k \in i + 1 .. i + 2 : k # i + 1 => k = i + 2  OBVIOUS
  <2> QED  BY <2>1, <1>0, <1>3, OwnsOne
<1> DEFINE p == <<TokenAt(i), Word("=")>>
<1>5. Reads(p, i, i + 2)  BY <1>3, ReadsTwo
<1> HIDE DEF p
<1>6. Covers(<<i + 1>>, p, F, i, i + 2)  BY <1>0, <1>4, <1>5 DEF Covers
<1>7. Covers(<<i + 1>> \o expression_delete[e], p \o fprintf_expression[e], F, i, j)
  BY <1>6, CoversCat, PartsMeant
<1>8. /\ TextsOf(x, expression_delete) = <<i + 1>> \o expression_delete[e]
      /\ PrintOf(x, fprintf_expression) = p \o fprintf_expression[e]
  <2>1. TextsOf(x, expression_delete) = <<x.var>> \o expression_delete[x.e]
    BY <1>1, TextsOfKind
  <2>2. PrintOf(x, fprintf_expression) = p \o fprintf_expression[x.e]
    BY <1>0, <1>1, PrintOfKind DEF p
  <2> QED  BY <1>1, <2>1, <2>2
<1>9. x \in Trees[j - i]
  <2>1. /\ j - (i + 2) \in Nat /\ j - i \in Nat /\ j - (i + 2) < j - i /\ e \in T
    BY PartsMeant
  <2> QED  BY <2>1, <1>1, NodeIn
<1>10. Meant(x, F, i, j)
  <2>1. j \in Nat /\ i < j  BY PartsMeant
  <2> QED  BY <2>1, <1>7, <1>8, <1>9, MeantIs
<1> QED  BY <1>10 DEF x

(* A word and a tree.                                                      *)
LEMMA WordAndTree ==
  ASSUME Input, NEW F, NEW i \in Nat, NEW j, NEW e, Meant(e, F, i + 1, j),
         NEW w, IsWord(i + 1, w), w \notin WithText
  PROVE  /\ Covers(expression_delete[e], <<Word(w)>> \o fprintf_expression[e], F, i, j)
         /\ j \in Nat /\ i < j /\ j - (i + 1) \in Nat /\ j - i \in Nat
         /\ j - (i + 1) < j - i
         /\ e \in Trees[j - (i + 1)]
<1>1. Covers(<<>>, <<Word(w)>>, F, i, i + 1)  BY CoversWord DEF IsWord
<1> QED  BY <1>1, PartsMeant, CoversBefore

LEMMA RefMeant ==
  ASSUME Input, NEW F, NEW i \in Nat, NEW j, NEW e, Meant(e, F, i + 1, j), IsWord(i + 1, "*")
  PROVE  Meant(Ref(e), F, i, j)
<1> DEFINE x == Ref(e)
           T == Trees[j - (i + 1)]
<1>1. x.tag = "DEREF_E" /\ x.e = e /\ (e \in T => x \in Nodes(T))  BY DEF Ref, Nodes
<1> HIDE DEF x
<1>2. "*" \notin WithText  BY DEF WithText
<1>3. /\ Covers(expression_delete[e], <<Word("*")>> \o fprintf_expression[e], F, i, j)
      /\ j \in Nat /\ i < j /\ x \in Trees[j - i]
  BY <1>1, <1>2, WordAndTree, NodeIn
<1>4. Meant(x, F, i, j)  BY <1>1, <1>3, TextsOfKind, PrintOfKind, MeantIs
<1> QED  BY <1>4 DEF x

LEMMA RetMeant ==
  ASSUME Input, NEW F, NEW i \in Nat, NEW j, NEW e, Meant(e, F, i + 1, j), IsWord(i + 1, "return")
  PROVE  Meant(Ret(e), F, i, j)
<1> DEFINE x == Ret(e)
           T == Trees[j - (i + 1)]
<1>1. x.tag = "RETURN_E" /\ x.e = e /\ (e \in T => x \in Nodes(T))  BY DEF Ret, Nodes
<1> HIDE DEF x
<1>2. "return" \notin WithText  BY DEF WithText
<1>3. /\ Covers(expression_delete[e], <<Word("return")>> \o fprintf_expression[e], F, i, j)
      /\ j \in Nat /\ i < j /\ x \in Trees[j - i]
  BY <1>1, <1>2, WordAndTree, NodeIn
<1>4. Meant(x, F, i, j)  BY <1>1, <1>3, TextsOfKind, PrintOfKind, MeantIs
<1> QED  BY <1>4 DEF x

LEMMA OutMeant ==
  ASSUME Input, NEW F, NEW i \in Nat, NEW k, NEW j, NEW d, Meant(d, F, i + 1, k),
         NEW e, Meant(e, F, k + 1, j), IsWord(i + 1, "*"), IsWord(k + 1, "=")
  PROVE  Meant(Out(d, e), F, i, j)
<1> DEFINE x == Out(d, e)
           T == Trees[j - (i + 1)]
<1>1. /\ x.tag = "DEREF_ASSIGN_E" /\ x.e1 = d /\ x.e2 = e
      /\ d \in T /\ e \in T => x \in Nodes(T)
  BY DEF Out, Nodes
<1> HIDE DEF x
<1>2. "*" \notin WithText /\ "=" \notin WithText  BY DEF WithText
<1>3. /\ Covers(expression_delete[d], <<Word("*")>> \o fprintf_expression[d], F, i, k)
      /\ k \in Nat /\ i + 1 < k
  BY <1>2, WordAndTree, PartsMeant
<1>4. k + 1 <= Len(tokens)  BY DEF IsWord
<1>5. Covers(<<>>, <<Word("=")>>, F, k, k + 1)  BY <1>2, <1>3, <1>4, CoversWord DEF IsWord
<1>6. Covers(expression_delete[d], <<Word("*")>> \o fprintf_expression[d] \o <<Word("=")>>, F, i, k + 1)
  BY <1>3, <1>5, CoversBehind
<1>7. Covers(expression_delete[d] \o expression_delete[e],
             <<Word("*")>> \o fprintf_expression[d] \o <<Word("=")>> \o fprintf_expression[e], F, i, j)
  BY <1>6, PartsMeant, CoversCat
<1>8. /\ j \in Nat /\ i < j /\ j - (i + 1) \in Nat /\ j - i \in Nat
      /\ j - (i + 1) < j - i /\ k - (i + 1) <= j - (i + 1) /\ j - (k + 1) <= j - (i + 1)
  <2>1. j \in Nat /\ k + 1 < j  BY <1>3, PartsMeant
  <2> QED  BY <1>3, <2>1
<1>9. d \in T /\ e \in T  BY <1>8, MeantGrows
<1>10. x \in Trees[j - i]  BY <1>1, <1>8, <1>9, NodeIn
<1>11. Meant(x, F, i, j)
  <2>1. TextsOf(x, expression_delete) = expression_delete[d] \o expression_delete[e]
    BY <1>1, TextsOfKind
  <2>2. PrintOf(x, fprintf_expression)
          = <<Word("*")>> \o fprintf_expression[d] \o <<Word("=")>> \o fprintf_expression[e]
    BY <1>1, PrintOfKind
  <2> QED  BY <1>7, <1>8, <1>10, <2>1, <2>2, MeantIs
<1> QED  BY <1>11 DEF x

LEMMA VarMeant ==
  ASSUME Input, NEW F, NEW i \in Nat, IsWord(i + 1, "IDENTIFIER"), i + 1 \notin F
  PROVE  Meant(Var(i + 1), F, i, i + 1)
<1> DEFINE x == Var(i + 1)
<1>1. /\ x.tag = "VARIABLE_E" /\ x.name = i + 1 /\ x \in Leaves /\ (i + 1) - 1 = i
  BY DEF Var, Leaves, Places
<1> HIDE DEF x
<1>2. "IDENTIFIER" \in WithText  BY DEF WithText
<1>3. Covers(<<i + 1>>, <<TokenAt(i)>>, F, i, i + 1)  BY <1>2, CoversName DEF IsWord
<1>4. x \in Trees[(i + 1) - i]
  <2>1. (i + 1) - i \in Nat  OBVIOUS
  <2> QED  BY <1>1, <2>1, LeafIn
<1>5. TextsOf(x, expression_delete) = <<x.name>>  BY <1>1, TextsOfKind
<1>6. PrintOf(x, fprintf_expression) = <<TokenAt(x.name - 1)>>  BY <1>1, PrintOfKind
<1>7. Covers(TextsOf(x, expression_delete), PrintOf(x, fprintf_expression), F, i, i + 1)
  BY <1>1, <1>3, <1>5, <1>6
<1>8. i + 1 \in Nat /\ i < i + 1  OBVIOUS
<1>9. Meant(x, F, i, i + 1)  BY <1>4, <1>7, <1>8, MeantIs
<1> QED  BY <1>9 DEF x

LEMMA CallMeant ==
  ASSUME Input, NEW F, NEW i \in Nat, IsWord(i + 1, "IDENTIFIER"), i + 1 \notin F,
         IsWord(i + 2, "("), IsWord(i + 3, ")")
  PROVE  Meant(Call(i + 1), F, i, i + 3)
<1> DEFINE x == Call(i + 1)
<1>0. /\ i + 1 \in Places /\ i + 2 \in Places /\ i + 3 \in Places
      /\ (i + 1) - 1 = i /\ i + 3 <= Len(tokens) /\ i <= i + 3
  BY DEF Places, IsWord
<1>1. /\ x.tag = "FUNCTION_CALL_E" /\ x.name = i + 1 /\ x \in Leaves
  BY DEF Call, Leaves, Places
<1> HIDE DEF x
<1>2. "(" \notin WithText /\ ")" \notin WithText /\ "IDENTIFIER" \in WithText
  BY DEF WithText
<1>3. /\ TokenAt(i) \in Token /\ tokens[i + 1] = TokenAt(i) /\ HasText(i + 1)
      /\ Word("(") \in Token /\ tokens[i + 2] = Word("(") /\ ~HasText(i + 2)
      /\ Word(")") \in Token /\ tokens[i + 3] = Word(")") /\ ~HasText(i + 3)
  <2>1. TokenAt((i + 1) - 1) \in Token /\ tokens[i + 1] = TokenAt((i + 1) - 1) /\ HasText(i + 1)
    BY <1>0, <1>2, NameOf
  <2>2. Word("(") \in Token /\ tokens[i + 2] = Word("(") /\ ~HasText(i + 2)
    BY <1>0, <1>2, WordOf
  <2>3. Word(")") \in Token /\ tokens[i + 3] = Word(")") /\ ~HasText(i + 3)
    BY <1>0, <1>2, WordOf
  <2> QED  BY <1>0, <2>1, <2>2, <2>3
<1>4. Owns(<<i + 1>>, F, i, i + 3)
  <2>1. \A k \in i + 1 .. i + 3 : k # i + 1 => k \in {i + 2, i + 3}  OBVIOUS
  <2> QED  BY <2>1, <1>0, <1>3, OwnsOne
<1> DEFINE p == <<TokenAt(i), Word("("), Word(")")>>
<1>5. Reads(p, i, i + 3)  BY <1>3, ReadsThree
<1> HIDE DEF p
<1>6. Covers(<<i + 1>>, p, F, i, i + 3)  BY <1>0, <1>4, <1>5 DEF Covers
<1>8. /\ TextsOf(x, expression_delete) = <<i + 1>>
      /\ PrintOf(x, fprintf_expression) = p
  <2>1. TextsOf(x, expression_delete) = <<i + 1>>  BY <1>0, <1>1, TextsOfKind
  <2>2. PrintOf(x, fprintf_expression) = p  BY <1>0, <1>1, PrintOfKind DEF p
  <2> QED  BY <2>1, <2>2
<1>9. x \in Trees[(i + 3) - i]
  <2>1. (i + 3) - i \in Nat  OBVIOUS
  <2> QED  BY <2>1, <1>1, LeafIn
<1>10. Meant(x, F, i, i + 3)
  BY <1>6, <1>8, <1>9, MeantIs
<1> QED  BY <1>10 DEF x

LEMMA LiteralMeant ==
  ASSUME Input, NEW F, NEW i \in Nat, i + 1 \in F
  PROVE  /\ IsWord(i + 1, "NUMBER") => Meant(Num(Spelling[tokens[i + 1].text]), F, i, i + 1)
         /\ IsWord(i + 1, "CHAR_LITERAL") => Meant(Char(tokens[i + 1].text), F, i, i + 1)
<1> DEFINE text == tokens[i + 1].text
<1>1. i + 1 \in Places /\ (i + 1) - 1 = i /\ i < i + 1 /\ i + 1 \in Nat  BY DEF Places
<1>2. "NUMBER" \in WithText /\ "CHAR_LITERAL" \in WithText  BY DEF WithText
<1>3. ASSUME i + 1 <= Len(tokens) PROVE Covers(<<>>, <<tokens[i + 1]>>, F, i, i + 1)
  <2>1. TokenAt(i) = tokens[i + 1]  BY <1>3, TokenTyped
  <2> QED  BY <1>3, <2>1, CoversFreed
<1>4. \A e \in Leaves : e \in Trees[(i + 1) - i]
  <2>1. (i + 1) - i \in Nat  OBVIOUS
  <2> QED  BY <2>1, LeafIn
<1>5. ASSUME IsWord(i + 1, "NUMBER") PROVE Meant(Num(Spelling[text]), F, i, i + 1)
  <2> DEFINE v == Spelling[text]
             x == Num(v)
  <2>1. /\ tokens[i + 1] = [type |-> "NUMBER", text |-> text] /\ text \in Texts
        /\ TokenAt(i) = tokens[i + 1]
    BY <1>1, <1>2, <1>5, NameOf
  <2>2. text \notin HexDigits
    <3>1. i + 1 \in DOMAIN tokens
      <4>1. DOMAIN tokens = 1 .. Len(tokens) /\ Len(tokens) \in Nat  BY LenProperties DEF Input
      <4> QED  BY <1>5, <4>1 DEF IsWord
    <3>2. IsLexed(tokens[i + 1])  BY <3>1 DEF Input
    <3> QED  BY <1>5, <3>2 DEF IsWord, IsLexed
  <2>8. v \in Texts /\ v \notin HexDigits  BY <2>1, <2>2, SpellingAssumption
  <2>9. ASSUME Faithful PROVE v = text
    <3>1. i + 1 \in DOMAIN tokens
      <4>1. DOMAIN tokens = 1 .. Len(tokens) /\ Len(tokens) \in Nat  BY LenProperties DEF Input
      <4> QED  BY <1>5, <4>1 DEF IsWord
    <3> QED  BY <1>5, <2>9, <3>1 DEF Faithful, Misread, Respelt, IsWord
  <2> HIDE DEF v
  <2>3. x.tag = "NUMBER_E" /\ x.value = v /\ x \in Leaves  BY <2>8 DEF Num, Leaves
  <2> HIDE DEF x, text
  <2>4. TextsOf(x, expression_delete) = <<>>  BY <2>3, TextsOfKind
  <2>5. PrintOf(x, fprintf_expression) = <<[type |-> "NUMBER", text |-> x.value]>>
    BY <2>3, <2>8, PrintOfKind
  <2>10. Covers(<<>>, <<tokens[i + 1]>>, F, i, i + 1)  BY <1>3, <1>5 DEF IsWord
  <2>11. ASSUME Faithful PROVE PrintOf(x, fprintf_expression) = <<tokens[i + 1]>>
    BY <2>1, <2>3, <2>5, <2>9, <2>11
  <2>6. Covers(TextsOf(x, expression_delete), PrintOf(x, fprintf_expression), F, i, i + 1)
    BY <2>4, <2>10, <2>11 DEF Covers
  <2>7. Meant(x, F, i, i + 1)  BY <1>1, <1>4, <2>3, <2>6, MeantIs
  <2> QED  BY <2>7 DEF x, v
<1>6. ASSUME IsWord(i + 1, "CHAR_LITERAL") PROVE Meant(Char(text), F, i, i + 1)
  <2> DEFINE x == Char(text)
  <2>1. /\ tokens[i + 1] = [type |-> "CHAR_LITERAL", text |-> text] /\ text \in Texts
        /\ TokenAt(i) = tokens[i + 1]
    BY <1>1, <1>2, <1>6, NameOf
  <2>3. x.tag = "CHAR_LITERAL_E" /\ x.c = text /\ x \in Leaves  BY <2>1 DEF Char, Leaves
  <2> HIDE DEF x, text
  <2>4. TextsOf(x, expression_delete) = <<>>  BY <2>3, TextsOfKind
  <2>5. PrintOf(x, fprintf_expression) = <<[type |-> "CHAR_LITERAL", text |-> x.c]>>
    BY <2>3, PrintOfKind
  <2>6. Covers(TextsOf(x, expression_delete), PrintOf(x, fprintf_expression), F, i, i + 1)
    BY <1>3, <1>6, <2>1, <2>3, <2>4, <2>5 DEF IsWord
  <2>7. Meant(x, F, i, i + 1)  BY <1>1, <1>4, <2>3, <2>6, MeantIs
  <2> QED  BY <2>7 DEF x
<1> QED  BY <1>5, <1>6

(* The value of a hexadecimal number is that of its digits; what else      *)
(* stands behind the x is misread.                                         *)
LEMMA HexMeant ==
  ASSUME Input, NEW F, NEW i \in Nat, i + 1 \in F, i + 2 \in F,
         IsWord(i + 1, "NUMBER"), tokens[i + 1].text = "0", IsWord(i + 2, "IDENTIFIER"),
         NEW digits, digits = tokens[i + 2].text, digits \in HexDigits \union HexWrong
  PROVE  Meant(Num(IF digits \in HexDigits THEN Spelling[digits] ELSE "unset"), F, i, i + 2)
<1> DEFINE v == IF digits \in HexDigits THEN Spelling[digits] ELSE "unset"
           x == Num(v)
<1>1. /\ i + 1 \in Places /\ i + 2 \in Places /\ i < i + 2 /\ i + 2 \in Nat /\ i + 2 <= Len(tokens)
  BY DEF Places, IsWord
<1>2. "NUMBER" \in WithText /\ "IDENTIFIER" \in WithText  BY DEF WithText
<1>3. tokens[i + 1] = [type |-> "NUMBER", text |-> "0"] /\ tokens[i + 1] \in Token
  BY <1>1, <1>2, NameOf
<1>4. tokens[i + 2] = [type |-> "IDENTIFIER", text |-> digits] /\ tokens[i + 2] \in Token
  BY <1>1, <1>2, NameOf
<1>5. v \in Texts  BY TextsAssumption, SpellingAssumption
<1>6. Owns(<<>>, F, i, i + 2)
  <2>1. \A k \in i + 1 .. i + 2 : k \in {i + 1, i + 2}  OBVIOUS
  <2> QED  BY <1>1, <2>1, OwnsNone
<1>7. ASSUME Faithful PROVE digits \in HexDigits /\ Spelling[digits] = digits
  <2>1. i + 1 \in 1 .. Len(tokens) - 1 /\ (i + 1) + 1 = i + 2
    <3>1. Len(tokens) \in Nat  BY TokenIs
    <3> QED  BY <1>1, <3>1
  <2>2. digits \notin HexWrong /\ (digits \in HexDigits => Spelling[digits] = digits)
    BY <1>7, <2>1 DEF Faithful, Misread, Respelt, IsWord
  <2> QED  BY <2>2
<1>8. x.tag = "NUMBER_E" /\ x.value = v /\ x \in Leaves  BY <1>5 DEF Num, Leaves
<1> HIDE DEF x
<1>9. TextsOf(x, expression_delete) = <<>>  BY <1>8, TextsOfKind
<1>10. ASSUME Faithful PROVE Reads(PrintOf(x, fprintf_expression), i, i + 2)
  <2>1. x.value = digits /\ digits \in HexDigits  BY <1>7, <1>8, <1>10
  <2>2. PrintOf(x, fprintf_expression) = <<[type |-> "NUMBER", text |-> "0"],
                                           [type |-> "IDENTIFIER", text |-> x.value]>>
    BY <1>8, <2>1, PrintOfKind
  <2>3. PrintOf(x, fprintf_expression) = <<tokens[i + 1], tokens[i + 2]>>
    BY <1>3, <1>4, <2>1, <2>2
  <2> QED  BY <1>3, <1>4, <2>3, ReadsTwo
<1>11. Covers(TextsOf(x, expression_delete), PrintOf(x, fprintf_expression), F, i, i + 2)
  BY <1>1, <1>6, <1>9, <1>10 DEF Covers
<1>12. x \in Trees[(i + 2) - i]
  <2>1. (i + 2) - i \in Nat  OBVIOUS
  <2> QED  BY <1>8, <2>1, LeafIn
<1>13. Meant(x, F, i, i + 2)  BY <1>1, <1>11, <1>12, MeantIs
<1> QED  BY <1>13 DEF x

-----------------------------------------------------------------------------
(* A branch and its alternative.                                           *)
LEMMA CoversTwo ==
  ASSUME Input, NEW F, NEW i \in Nat, NEW v, NEW w, v \notin WithText, w \notin WithText,
         IsWord(i + 1, v), IsWord(i + 2, w)
  PROVE  Covers(<<>>, <<Word(v), Word(w)>>, F, i, i + 2)
<1>1. /\ i + 1 \in Places /\ i + 2 \in Places /\ i <= i + 2 /\ i + 2 \in Nat /\ i + 2 <= Len(tokens)
  BY DEF Places, IsWord
<1>2. Word(v) \in Token /\ tokens[i + 1] = Word(v) /\ ~HasText(i + 1)  BY <1>1, WordOf
<1>3. Word(w) \in Token /\ tokens[i + 2] = Word(w) /\ ~HasText(i + 2)  BY <1>1, WordOf
<1>4. Owns(<<>>, F, i, i + 2)
  <2>1. \A k \in i + 1 .. i + 2 : k \in {i + 1, i + 2}  OBVIOUS
  <2> QED  BY <1>1, <1>2, <1>3, <2>1, OwnsNone
<1>5. Reads(<<Word(v), Word(w)>>, i, i + 2)  BY <1>2, <1>3, ReadsTwo
<1> QED  BY <1>1, <1>4, <1>5 DEF Covers

(* A block.                                                                *)
LEMMA BranchCovers ==
  ASSUME Input, NEW F, NEW i \in Nat, NEW k, NEW c, Meant(c, F, i + 2, k),
         NEW m, NEW b, Meant(b, F, k + 2, m),
         IsWord(i + 1, "if"), IsWord(i + 2, "("), IsWord(k + 1, ")"), IsWord(k + 2, Opening),
         IsWord(m + 1, Closing)
  PROVE  Covers(expression_delete[b] \o expression_delete[c],
                <<Word("if"), Word("(")>> \o fprintf_expression[c] \o <<Word(")"), Word(Opening)>>
                  \o fprintf_expression[b] \o <<Word(Closing)>>, F, i, m + 1)
<1>1. /\ "if" \notin WithText /\ "(" \notin WithText /\ ")" \notin WithText
      /\ Opening \notin WithText /\ Closing \notin WithText
  BY Marks DEF WithText
<1>2. k \in Nat /\ m \in Nat /\ m + 1 <= Len(tokens)  BY PartsMeant DEF IsWord
<1>3. Covers(<<>>, <<Word("if"), Word("(")>>, F, i, i + 2)  BY <1>1, CoversTwo
<1>4. Covers(<<>>, <<Word(")"), Word(Opening)>>, F, k, k + 2)  BY <1>1, <1>2, CoversTwo
<1>5. Covers(<<>>, <<Word(Closing)>>, F, m, m + 1)  BY <1>1, <1>2, CoversWord DEF IsWord
<1>6. Covers(expression_delete[c], <<Word("if"), Word("(")>> \o fprintf_expression[c], F, i, k)
  BY <1>3, PartsMeant, CoversBefore
<1>7. Covers(expression_delete[c],
             <<Word("if"), Word("(")>> \o fprintf_expression[c] \o <<Word(")"), Word(Opening)>>,
             F, i, k + 2)
  BY <1>4, <1>6, CoversBehind
<1>8. Covers(expression_delete[b] \o expression_delete[c],
             <<Word("if"), Word("(")>> \o fprintf_expression[c] \o <<Word(")"), Word(Opening)>>
               \o fprintf_expression[b],
             F, i, m)
  BY <1>7, PartsMeant, CoversCat
<1> QED  BY <1>5, <1>8, CoversBehind

LEMMA IfMeant ==
  ASSUME Input, NEW F, NEW i \in Nat, NEW k, NEW c, Meant(c, F, i + 2, k),
         NEW m, NEW b, Meant(b, F, k + 2, m),
         IsWord(i + 1, "if"), IsWord(i + 2, "("), IsWord(k + 1, ")"), IsWord(k + 2, Opening),
         IsWord(m + 1, Closing)
  PROVE  Meant(If(c, b), F, i, m + 1)
<1> DEFINE x == If(c, b)
           n == m - i
           T == Trees[n]
           t == expression_delete[b] \o expression_delete[c]
           p == <<Word("if"), Word("(")>> \o fprintf_expression[c] \o <<Word(")"), Word(Opening)>>
                  \o fprintf_expression[b] \o <<Word(Closing)>>
<1>1. /\ k \in Nat /\ m \in Nat /\ i + 2 < k /\ k + 2 < m
      /\ c \in Trees[k - (i + 2)] /\ b \in Trees[m - (k + 2)]
  BY PartsMeant
<1>2. n \in Nat /\ (m + 1) - i \in Nat /\ n < (m + 1) - i
      /\ k - (i + 2) \in Nat /\ m - (k + 2) \in Nat /\ k - (i + 2) <= n /\ m - (k + 2) <= n
      /\ i < m + 1 /\ m + 1 \in Nat
  <2>1. k \in Nat /\ m \in Nat /\ i + 2 < k /\ k + 2 < m  BY <1>1
  <2> QED  BY <2>1
<1>3. c \in T /\ b \in T
  <2> HIDE DEF n
  <2> QED  BY <1>2, MeantGrows
<1>4. Covers(t, p, F, i, m + 1)  BY BranchCovers
<1>5. /\ x.tag = "IF_ELSE_E" /\ x.cond = c /\ x.if_body = b /\ x.else_body = <<>>
      /\ c \in T /\ b \in T => x \in Nodes(T)
  <2> HIDE DEF n
  <2>1. <<>> \in Seq(T)  BY EmptySeq
  <2> QED  BY <2>1 DEF If, Nodes
<1> HIDE DEF x
<1>6. Len(x.else_body) = 0
  <2>1. Len(<<>>) = 0  OBVIOUS
  <2> QED  BY <1>5, <2>1, ZenonT(30)
<1>7. TextsOf(x, expression_delete) = t \o <<>>
  <2> DEFINE l == [a \in 1 .. Len(x.else_body) |-> expression_delete[x.else_body[a]]]
  <2>1. Len(l) = 0  BY <1>6
  <2> HIDE DEF l
  <2>2. Joined(l) = <<>>  BY <2>1, JoinedNone
  <2>3. TextsOf(x, expression_delete) = t \o Joined(l)  BY <1>5, TextsOfList DEF l
  <2> QED  BY <2>2, <2>3
<1>8. PrintOf(x, fprintf_expression) = p \o <<>>
  <2> DEFINE l == [a \in 1 .. Len(x.else_body) |->
                    <<Word("else"), Word(Opening)>> \o fprintf_expression[x.else_body[a]]
                      \o <<Word(Closing)>>]
  <2>1. Len(l) = 0  BY <1>6
  <2> HIDE DEF l
  <2>2. Joined(l) = <<>>  BY <2>1, JoinedNone
  <2>3. PrintOf(x, fprintf_expression) = p \o Joined(l)  BY <1>5, PrintOfList DEF l
  <2> QED  BY <2>2, <2>3
<1> HIDE DEF t, p
<1>9. Covers(t, p \o <<>>, F, i, m + 1)
  <2>1. Covers(<<>>, <<>>, F, m + 1, m + 1)
    BY <1>2, <1>4, CoversNothing DEF Covers
  <2> QED  BY <1>4, <2>1, CoversBehind
<1>10. t \o <<>> = t  BY <1>4, ConcatEmptySeq DEF Covers, Owns
<1>11. Covers(TextsOf(x, expression_delete), PrintOf(x, fprintf_expression), F, i, m + 1)
  BY <1>7, <1>8, <1>9, <1>10
<1>12. x \in Trees[(m + 1) - i]
  <2> HIDE DEF n
  <2> QED  BY <1>2, <1>3, <1>5, NodeIn
<1>13. Meant(x, F, i, m + 1)  BY <1>2, <1>11, <1>12, MeantIs
<1> QED  BY <1>13 DEF x

LEMMA IfElseMeant ==
  ASSUME Input, NEW F, NEW i \in Nat, NEW k, NEW c, Meant(c, F, i + 2, k),
         NEW m, NEW b, Meant(b, F, k + 2, m),
         NEW q, NEW d, Meant(d, F, m + 3, q),
         IsWord(i + 1, "if"), IsWord(i + 2, "("), IsWord(k + 1, ")"), IsWord(k + 2, Opening),
         IsWord(m + 1, Closing), IsWord(m + 2, "else"), IsWord(m + 3, Opening), IsWord(q + 1, Closing)
  PROVE  Meant(IfElseE(c, b, d), F, i, q + 1)
<1> DEFINE x == IfElseE(c, b, d)
           n == q - i
           T == Trees[n]
           t == expression_delete[b] \o expression_delete[c]
           p == <<Word("if"), Word("(")>> \o fprintf_expression[c] \o <<Word(")"), Word(Opening)>>
                  \o fprintf_expression[b] \o <<Word(Closing)>>
           s == expression_delete[d]
           r == <<Word("else"), Word(Opening)>> \o fprintf_expression[d] \o <<Word(Closing)>>
<1>1. /\ k \in Nat /\ m \in Nat /\ q \in Nat /\ i + 2 < k /\ k + 2 < m /\ m + 3 < q
      /\ c \in Trees[k - (i + 2)] /\ b \in Trees[m - (k + 2)] /\ d \in Trees[q - (m + 3)]
  BY PartsMeant
<1>2. /\ n \in Nat /\ (q + 1) - i \in Nat /\ n < (q + 1) - i
      /\ k - (i + 2) \in Nat /\ m - (k + 2) \in Nat /\ k - (i + 2) <= n /\ m - (k + 2) <= n
      /\ q - (m + 3) \in Nat /\ q - (m + 3) <= n
      /\ i < q + 1 /\ q + 1 \in Nat /\ m + 1 \in Nat
      /\ (m + 1) + 1 = m + 2 /\ (m + 1) + 2 = m + 3
  <2>1. k \in Nat /\ m \in Nat /\ q \in Nat /\ i + 2 < k /\ k + 2 < m /\ m + 3 < q  BY <1>1
  <2> QED  BY <2>1
<1>3. c \in T /\ b \in T /\ d \in T
  <2> HIDE DEF n
  <2> QED  BY <1>2, MeantGrows
<1>4. Covers(t, p, F, i, m + 1)  BY BranchCovers
<1>5. Covers(s, r, F, m + 1, q + 1)
  <2>1. "else" \notin WithText  BY DEF WithText
  <2>2. Covers(<<>>, <<Word("else"), Word(Opening)>>, F, m + 1, (m + 1) + 2)
    BY <1>2, <2>1, Marks, CoversTwo
  <2>3. Covers(<<>>, <<Word(Closing)>>, F, q, q + 1)  BY <1>1, <2>1, Marks, CoversWord DEF IsWord
  <2>4. Covers(s, fprintf_expression[d], F, (m + 1) + 2, q)  BY <1>2, PartsMeant
  <2>5. Covers(s, <<Word("else"), Word(Opening)>> \o fprintf_expression[d], F, m + 1, q)
    <3> HIDE DEF s
    <3> QED  BY <2>2, <2>4, CoversBefore
  <2> HIDE DEF s
  <2> QED  BY <2>3, <2>5, CoversBehind
<1>6. /\ x.tag = "IF_ELSE_E" /\ x.cond = c /\ x.if_body = b /\ x.else_body = <<d>>
      /\ c \in T /\ b \in T /\ d \in T => x \in Nodes(T)
  <2> HIDE DEF n
  <2> HIDE DEF T
  <2>1. d \in T => <<d>> \in Seq(T)  OBVIOUS
  <2> QED  BY <2>1 DEF IfElseE, Nodes
<1> HIDE DEF x
<1>7. Len(x.else_body) = 1 /\ x.else_body[1] = d
  <2>1. Len(<<d>>) = 1 /\ <<d>>[1] = d  OBVIOUS
  <2> QED  BY <1>6, <2>1, ZenonT(30)
<1>8. TextsOf(x, expression_delete) = t \o (<<>> \o s)
  <2> DEFINE l == [a \in 1 .. Len(x.else_body) |-> expression_delete[x.else_body[a]]]
  <2>1. Len(l) = 1 /\ l[1] = s
    <3> HIDE DEF n, T, t, p
    <3>1. Len(x.else_body) = 1 /\ x.else_body[1] = d  BY <1>7
    <3> QED  BY <3>1
  <2> HIDE DEF l
  <2>2. Joined(l) = <<>> \o s  BY <2>1, JoinedOne
  <2> HIDE DEF s
  <2>3. TextsOf(x, expression_delete) = t \o Joined(l)  BY <1>6, TextsOfList DEF l
  <2> QED  BY <2>2, <2>3
<1>9. PrintOf(x, fprintf_expression) = p \o (<<>> \o r)
  <2> DEFINE l == [a \in 1 .. Len(x.else_body) |->
                    <<Word("else"), Word(Opening)>> \o fprintf_expression[x.else_body[a]]
                      \o <<Word(Closing)>>]
  <2>1. Len(l) = 1 /\ l[1] = r
    <3> HIDE DEF n, T, t, p
    <3> DEFINE h(y) == <<Word("else"), Word(Opening)>> \o fprintf_expression[y] \o <<Word(Closing)>>
    <3>1. Len(x.else_body) = 1 /\ x.else_body[1] = d  BY <1>7
    <3>2. l = [a \in 1 .. Len(x.else_body) |-> h(x.else_body[a])] /\ r = h(d)  OBVIOUS
    <3> HIDE DEF l, r, h
    <3>3. Len(l) = 1 /\ l[1] = h(x.else_body[1])  BY <3>1, <3>2
    <3> QED  BY <3>1, <3>2, <3>3
  <2> HIDE DEF l
  <2>2. Joined(l) = <<>> \o r  BY <2>1, JoinedOne
  <2> HIDE DEF r
  <2>3. PrintOf(x, fprintf_expression) = p \o Joined(l)  BY <1>6, PrintOfList DEF l
  <2> QED  BY <2>2, <2>3
<1> HIDE DEF t, p, s, r
<1>10. Covers(<<>> \o s, <<>> \o r, F, m + 1, q + 1)
  <2>1. Covers(<<>>, <<>>, F, m + 1, m + 1)
    BY <1>2, <1>4, CoversNothing DEF Covers
  <2> QED  BY <1>5, <2>1, CoversCat
<1>11. Covers(TextsOf(x, expression_delete), PrintOf(x, fprintf_expression), F, i, q + 1)
  BY <1>4, <1>8, <1>9, <1>10, CoversCat
<1>12. x \in Trees[(q + 1) - i]
  <2> HIDE DEF n
  <2> QED  BY <1>2, <1>3, <1>6, NodeIn
<1>13. Meant(x, F, i, q + 1)  BY <1>2, <1>11, <1>12, MeantIs
<1> QED  BY <1>13 DEF x

-----------------------------------------------------------------------------
(* An operator between two trees, in either shape.                         *)
LEMMA Shapes ==
  ASSUME NEW x, NEW t \in ByteOps, NEW e, NEW S, NEW n \in Nat, x \in Trees[n]
  PROVE  \/ Join(x, t, e) = Bin(t, x, e)
         \/ x.tag \in ByteOps /\ Join(x, t, e) = Bin(x.tag, x.lhs, Bin(t, x.rhs, e))
<1>1. CASE precedence(x.tag) <= precedence(t)  BY <1>1 DEF Join
<1>2. CASE ~(precedence(x.tag) <= precedence(t))
  <2>1. Join(x, t, e) = [x EXCEPT !.rhs = Bin(t, @, e)]  BY <1>2 DEF Join
  <2>2. x.tag \in ByteOps
    <3>1. x.tag \notin ByteOps /\ x.tag # "NOT_EQUAL_E" => precedence(x.tag) = 0
      BY DEF ByteOps, precedence
    <3>2. precedence(t) \in 1 .. 3  BY DEF ByteOps, precedence
    <3>3. x.tag # "NOT_EQUAL_E"
      <4>1. x.tag \in {"LET_E", "ASSIGN_E", "DEREF_E", "RETURN_E", "DEREF_ASSIGN_E",
                       "IF_ELSE_E", "SEQUENCE_E", "NUMBER_E", "CHAR_LITERAL_E", "VARIABLE_E",
                       "FUNCTION_CALL_E"} \union ByteOps
        BY TreeParts
      <4> QED  BY <4>1 DEF ByteOps
    <3> QED  BY <1>2, <3>1, <3>2, <3>3
  <2>3. x = [tag |-> x.tag, lhs |-> x.lhs, rhs |-> x.rhs]
    <3>1. x \in Leaves \/ (n > 0 /\ x \in Nodes(Trees[n - 1]))  BY TreesAre
    <3>2. x \notin Leaves  BY <2>2 DEF Leaves, ByteOps
    <3>3. x \in [tag : ByteOps, lhs : Trees[n - 1], rhs : Trees[n - 1]]
      BY <2>2, <3>1, <3>2 DEF Nodes, ByteOps
    <3> QED  BY <3>3
  <2>4. [x EXCEPT !.rhs = Bin(t, @, e)] = Bin(x.tag, x.lhs, Bin(t, x.rhs, e))
    BY <2>3 DEF Bin
  <2> QED  BY <2>1, <2>2, <2>4
<1> QED  BY <1>1, <1>2

LEMMA BinIs ==
  ASSUME Input, NEW n \in Nat, n < Size, NEW l \in Trees[n], NEW r \in Trees[n],
         NEW t \in ByteOps
  PROVE  /\ Bin(t, l, r) \in Trees[n + 1] /\ Bin(t, l, r) \in Trees[Size]
         /\ Bin(t, l, r).tag = t
         /\ expression_delete[Bin(t, l, r)] = expression_delete[l] \o expression_delete[r]
         /\ fprintf_expression[Bin(t, l, r)] =
              fprintf_expression[l] \o <<Word(binary_tag_to_token_type(t))>> \o fprintf_expression[r]
<1> DEFINE x == Bin(t, l, r)
<1>1. x.tag = t /\ x.lhs = l /\ x.rhs = r /\ x \in Nodes(Trees[n])  BY DEF Bin, Nodes
<1> HIDE DEF x
<1>2. Size \in Nat /\ n + 1 \in Nat /\ n < n + 1  BY TokenIs
<1>3. x \in Trees[n + 1] /\ x \in Trees[Size]  BY <1>1, <1>2, NodeIn
<1>4. expression_delete[x] = TextsOf(x, expression_delete)  BY <1>2, <1>3, DeleteIs
<1>5. fprintf_expression[x] = PrintOf(x, fprintf_expression)  BY <1>3, PrintIs
<1>6. expression_delete[x] = expression_delete[l] \o expression_delete[r]
  BY <1>1, <1>4, TextsOfKind
<1>7. fprintf_expression[x] =
        fprintf_expression[l] \o <<Word(binary_tag_to_token_type(t))>> \o fprintf_expression[r]
  BY <1>1, <1>5, PrintOfKind
<1> QED  BY <1>1, <1>3, <1>6, <1>7 DEF x

LEMMA JoinMeant ==
  ASSUME Input, NEW F, NEW i, NEW k, NEW x, Meant(x, F, i, k),
         NEW w \in DOMAIN BinaryTag, IsWord(k + 1, w),
         NEW j, NEW e, Meant(e, F, k + 1, j)
  PROVE  Meant(Join(x, token_type_to_binary_tag(w), e), F, i, j)
<1> DEFINE t == token_type_to_binary_tag(w)
           o == <<Word(binary_tag_to_token_type(t))>>
           D == expression_delete
           P == fprintf_expression
<1>1. /\ t \in ByteOps /\ w \notin WithText /\ (w # "!=" => binary_tag_to_token_type(t) = w)
      /\ binary_tag_to_token_type(t) \in TokenType
  BY BinaryWords
<1>2. /\ i \in Nat /\ k \in Nat /\ j \in Nat /\ i < k /\ k + 1 < j /\ k + 1 <= Len(tokens)
      /\ j <= Len(tokens) /\ k + 1 \in Nat
  BY PartsMeant
<1> HIDE DEF t
<1>3. Covers(<<>>, o, F, k, k + 1)
  <2>1. Covers(<<>>, <<Word(w)>>, F, k, k + 1)  BY <1>1, <1>2, CoversWord DEF IsWord
  <2>2. ASSUME Faithful PROVE w # "!="
    <3>1. k + 1 \in DOMAIN tokens
      <4>1. DOMAIN tokens = 1 .. Len(tokens) /\ Len(tokens) \in Nat  BY LenProperties DEF Input
      <4> QED  BY <1>2, <4>1
    <3> QED  BY <2>2, <3>1 DEF Faithful, IsWord
  <2>3. Faithful => o = <<Word(w)>>  BY <1>1, <2>2
  <2> HIDE DEF o
  <2> QED  BY <2>1, <2>3 DEF Covers
<1>4. /\ Covers(D[x], P[x], F, i, k) /\ Covers(D[e], P[e], F, k + 1, j)
      /\ x \in Trees[k - i] /\ e \in Trees[j - (k + 1)]
  BY PartsMeant
<1> HIDE DEF o, D, P
<1>5. Covers(D[x], P[x] \o o, F, i, k + 1)  BY <1>3, <1>4, CoversBehind
<1>6. Covers(D[x] \o D[e], P[x] \o o \o P[e], F, i, j)  BY <1>4, <1>5, CoversCat
<1> DEFINE n == j - i - 1
           y == Join(x, t, e)
<1>7. /\ Size \in Nat /\ n \in Nat /\ n + 1 = j - i /\ n + 1 <= Size /\ n < Size
      /\ k - i \in Nat /\ k - i <= n /\ j - (k + 1) \in Nat /\ j - (k + 1) <= n
  <2>1. Size \in Nat /\ Len(tokens) \in Nat /\ Len(tokens) <= Size  BY TokenIs
  <2> QED  BY <1>2, <2>1
<1>8. x \in Trees[n] /\ e \in Trees[n]
  <2> HIDE DEF n
  <2> QED  BY <1>4, <1>7, TreesGrow
<1>b. ASSUME NEW q \in Nat, q < Size, NEW l \in Trees[q], NEW r \in Trees[q], NEW u \in ByteOps
      PROVE  /\ Bin(u, l, r) \in Trees[q + 1]
             /\ D[Bin(u, l, r)] = D[l] \o D[r]
             /\ P[Bin(u, l, r)] = P[l] \o <<Word(binary_tag_to_token_type(u))>> \o P[r]
  <2> HIDE DEF n, y
  <2> QED  BY <1>b, BinIs DEF D, P
<1>c. P[Bin(t, x, e)] = P[x] \o <<Word(binary_tag_to_token_type(t))>> \o P[e]
        => P[Bin(t, x, e)] = P[x] \o o \o P[e]
  BY DEF o
<1>9. CASE y = Bin(t, x, e)
  <2>1. y \in Trees[n + 1] /\ D[y] = D[x] \o D[e] /\ P[y] = P[x] \o o \o P[e]
    <3> HIDE DEF n, y
    <3>1. /\ Bin(t, x, e) \in Trees[n + 1]
          /\ D[Bin(t, x, e)] = D[x] \o D[e]
          /\ P[Bin(t, x, e)] = P[x] \o <<Word(binary_tag_to_token_type(t))>> \o P[e]
      BY <1>1, <1>7, <1>8, <1>b
    <3> QED  BY <1>9, <1>c, <3>1
  <2>2. y \in Trees[j - i]  BY <1>7, <2>1
  <2> HIDE DEF n, y
  <2>3. Meant(y, F, i, j)  BY <1>2, <1>6, <2>1, <2>2 DEF Meant, D, P
  <2> QED  BY <2>3 DEF y, t
<1>10. CASE x.tag \in ByteOps /\ y = Bin(x.tag, x.lhs, Bin(t, x.rhs, e))
  <2> DEFINE m == k - i - 1
             z == Bin(t, x.rhs, e)
             v == <<Word(binary_tag_to_token_type(x.tag))>>
  <2>1. /\ k - i > 0 /\ m = (k - i) - 1 /\ m \in Nat /\ n - 1 \in Nat /\ m <= n - 1
        /\ j - (k + 1) <= n - 1 /\ n - 1 < Size /\ (n - 1) + 1 = n /\ m < Size /\ m <= n
    BY <1>2, <1>7
  <2>2. x.lhs \in Trees[m] /\ x.rhs \in Trees[m]
    <3> DEFINE T == Trees[m]
    <3>1. k - i > 0 => T = Trees[(k - i) - 1]  BY <2>1
    <3> HIDE DEF T, m, n, y
    <3>2. x.lhs \in T /\ x.rhs \in T  BY <1>4, <1>7, <1>10, <3>1, TreeParts
    <3> QED  BY <3>2 DEF T
  <2> HIDE DEF m
  <2>3. /\ x.lhs \in Trees[n] /\ x.rhs \in Trees[n - 1] /\ e \in Trees[n - 1]
        /\ x.lhs \in Trees[Size] /\ x.rhs \in Trees[Size] /\ e \in Trees[Size]
    <3> HIDE DEF n
    <3>1. x.lhs \in Trees[n] /\ x.rhs \in Trees[n - 1]  BY <1>7, <2>1, <2>2, TreesGrow
    <3>2. e \in Trees[n - 1]  BY <1>4, <1>7, <2>1, TreesGrow
    <3>3. x.lhs \in Trees[Size] /\ x.rhs \in Trees[Size] /\ e \in Trees[Size]
      BY <1>7, <2>1, <3>1, <3>2, TreesGrow
    <3> QED  BY <3>1, <3>2, <3>3
  <2>4. z \in Trees[n] /\ D[z] = D[x.rhs] \o D[e] /\ P[z] = P[x.rhs] \o o \o P[e]
    <3>1. n - 1 \in Nat /\ n - 1 < Size /\ x.rhs \in Trees[n - 1] /\ e \in Trees[n - 1]
          /\ (n - 1) + 1 = n
      BY <2>1, <2>3
    <3> HIDE DEF n, z, y
    <3>2. /\ Bin(t, x.rhs, e) \in Trees[(n - 1) + 1]
          /\ D[Bin(t, x.rhs, e)] = D[x.rhs] \o D[e]
          /\ P[Bin(t, x.rhs, e)] = P[x.rhs] \o <<Word(binary_tag_to_token_type(t))>> \o P[e]
      BY <1>1, <3>1, <1>b
    <3> QED  BY <3>1, <3>2 DEF z, o
  <2>5. /\ y \in Trees[n + 1] /\ D[y] = D[x.lhs] \o D[z] /\ P[y] = P[x.lhs] \o v \o P[z]
    <3> HIDE DEF n, y
    <3>1. y = Bin(x.tag, x.lhs, z)  BY <1>10
    <3> HIDE DEF z
    <3>2. /\ Bin(x.tag, x.lhs, z) \in Trees[n + 1]
          /\ D[Bin(x.tag, x.lhs, z)] = D[x.lhs] \o D[z]
          /\ P[Bin(x.tag, x.lhs, z)] = P[x.lhs] \o v \o P[z]
      BY <1>7, <1>10, <2>3, <2>4, <1>b
    <3> QED  BY <3>1, <3>2
  <2>6. D[x] = D[x.lhs] \o D[x.rhs] /\ P[x] = P[x.lhs] \o v \o P[x.rhs]
    <3> HIDE DEF n, y, z
    <3>1. x \in Trees[Size]  BY <1>7, <1>8, TreesGrow
    <3>2. D[x] = TextsOf(x, D)  BY <1>7, <3>1, DeleteIs DEF D
    <3>3. P[x] = PrintOf(x, P)  BY <3>1, PrintIs DEF P
    <3>4. D[x] = D[x.lhs] \o D[x.rhs]  BY <1>10, <3>2, TextsOfKind
    <3>5. P[x] = P[x.lhs] \o v \o P[x.rhs]  BY <1>10, <3>3, PrintOfKind
    <3> QED  BY <3>4, <3>5
  <2>7. /\ D[x.lhs] \in Seq(Places) /\ D[x.rhs] \in Seq(Places) /\ D[e] \in Seq(Places)
    <3> HIDE DEF n, y, z
    <3>1. D \in [Trees[Size] -> Seq(Places)]  BY <1>7, DeleteIs DEF D
    <3> QED  BY <2>3, <3>1
  <2>8. /\ P[x.lhs] \in Seq(Records) /\ P[x.rhs] \in Seq(Records) /\ P[e] \in Seq(Records)
    <3> HIDE DEF n, y, z
    <3>1. P \in [Trees[Size] -> Seq(Records)]  BY PrintIs DEF P
    <3> QED  BY <2>3, <3>1
  <2>9. v \in Seq(Records) /\ o \in Seq(Records)
    <3> HIDE DEF n, y, z
    <3>1. binary_tag_to_token_type(x.tag) \in TokenType  BY <1>10, BinaryWords
    <3>2. /\ Word(binary_tag_to_token_type(x.tag)) \in Records
          /\ Word(binary_tag_to_token_type(t)) \in Records
      BY <1>1, <3>1, WordIs
    <3> QED  BY <3>2 DEF o
  <2> HIDE DEF n, y, z, v
  <2>a. \A f, g, h \in Seq(Places) : f \o (g \o h) = (f \o g) \o h
    BY ConcatAssociative
  <2>b. \A f, g, h \in Seq(Records) : f \o (g \o h) = (f \o g) \o h
    BY ConcatAssociative
  <2>10. D[y] = D[x] \o D[e]
    <3>1. D[x.lhs] \o (D[x.rhs] \o D[e]) = (D[x.lhs] \o D[x.rhs]) \o D[e]
      BY <2>7, <2>a, ZenonT(30)
    <3> QED  BY <2>4, <2>5, <2>6, <3>1
  <2>11. P[y] = P[x] \o o \o P[e]
    <3> DEFINE a == P[x.lhs] \o v
               b == P[x.rhs] \o o
    <3>1. a \in Seq(Records) /\ b \in Seq(Records)  BY <2>8, <2>9, ConcatProperties
    <3>2. P[y] = a \o (b \o P[e])  BY <2>4, <2>5
    <3>3. P[x] \o o = (a \o P[x.rhs]) \o o  BY <2>6
    <3> HIDE DEF a, b
    <3>4. a \o (b \o P[e]) = (a \o b) \o P[e]  BY <2>8, <3>1, <2>b, ZenonT(30)
    <3>5. a \o (P[x.rhs] \o o) = (a \o P[x.rhs]) \o o
      <4>1. a \in Seq(Records) /\ P[x.rhs] \in Seq(Records) /\ o \in Seq(Records)
        BY <2>8, <2>9, <3>1
      <4> QED  BY <4>1, <2>b, ZenonT(30)
    <3>6. (a \o P[x.rhs]) \o o = a \o b  BY <3>5 DEF b
    <3> QED  BY <3>2, <3>3, <3>4, <3>6
  <2>12. Covers(D[y], P[y], F, i, j)  BY <1>6, <2>10, <2>11
  <2>13. i < j /\ y \in Trees[j - i]  BY <1>2, <1>7, <2>5
  <2>14. Meant(y, F, i, j)  BY <1>2, <2>12, <2>13 DEF Meant, D, P
  <2> QED  BY <2>14 DEF y, t
<1>11. \/ y = Bin(t, x, e)
       \/ x.tag \in ByteOps /\ y = Bin(x.tag, x.lhs, Bin(t, x.rhs, e))
  <2> HIDE DEF n
  <2> QED  BY <1>1, <1>7, <1>8, Shapes
<1> QED  BY <1>9, <1>10, <1>11

-----------------------------------------------------------------------------
(* Trees one behind the other, a semicolon behind each.                    *)
Behind(n, at, i, j) == at \in [0 .. n -> Nat] /\ at[0] = i /\ at[n] = j

Statements(list, F, at) ==
  \A k \in 1 .. Len(list) :
    /\ Meant(list[k], F, at[k - 1], at[k] - 1)
    /\ at[k] \in Nat /\ IsWord(at[k], Semicolon)

LEMMA PlacesGrow ==
  ASSUME NEW n \in Nat, NEW at, NEW i, NEW j, Behind(n, at, i, j),
         \A k \in 1 .. n : at[k - 1] <= at[k]
  PROVE  \A k \in 0 .. n : i <= at[k] /\ at[k] <= j
<1>1. at \in [0 .. n -> Nat] /\ at[0] = i /\ at[n] = j  BY DEF Behind
<1>2. \A k \in 0 .. n : at[k] \in Nat  BY <1>1
<1>3. \A k \in 0 .. n : i <= at[k]
  <2> DEFINE T == {k \in 0 .. n : ~(i <= at[k])}
  <2> SUFFICES ASSUME T # {} PROVE FALSE
    OBVIOUS
  <2>1. PICK k \in T : \A y \in T : k <= y
    <3>1. T \subseteq Nat  OBVIOUS
    <3> HIDE DEF T
    <3> QED  BY <3>1, Least
  <2>2. k # 0  BY <1>1, <1>2
  <2>3. k \in 1 .. n /\ k - 1 \in 0 .. n /\ k - 1 < k  BY <2>2
  <2>4. i <= at[k - 1]  BY <2>1, <2>3
  <2>5. at[k - 1] <= at[k] /\ at[k] \in Nat /\ at[k - 1] \in Nat /\ i \in Nat
    BY <1>1, <1>2, <2>3
  <2> QED  BY <2>4, <2>5
<1>4. \A k \in 0 .. n : at[k] <= j
  <2> DEFINE T == {k \in 0 .. n : ~(at[n - k] <= j)}
  <2>a. ASSUME NEW k \in 0 .. n, ~(at[k] <= j) PROVE n - k \in T
    <3>1. n - (n - k) = k /\ n - k \in 0 .. n  OBVIOUS
    <3> QED  BY <2>a, <3>1
  <2> SUFFICES ASSUME T # {} PROVE FALSE
    BY <2>a
  <2>1. PICK k \in T : \A y \in T : k <= y
    <3>1. T \subseteq Nat  OBVIOUS
    <3> HIDE DEF T
    <3> QED  BY <3>1, Least
  <2>2. k # 0
    <3>1. n - 0 = n  OBVIOUS
    <3> QED  BY <1>1, <1>2, <3>1
  <2>3. k \in 1 .. n /\ k - 1 \in 0 .. n /\ k - 1 < k /\ n - (k - 1) \in 1 .. n
        /\ (n - (k - 1)) - 1 = n - k /\ n - k \in 0 .. n
    BY <2>2
  <2>4. at[n - (k - 1)] <= j  BY <2>1, <2>3
  <2>5. at[n - k] <= at[n - (k - 1)] /\ at[n - k] \in Nat /\ at[n - (k - 1)] \in Nat /\ j \in Nat
    BY <1>1, <1>2, <2>3
  <2> QED  BY <2>4, <2>5
<1> QED  BY <1>3, <1>4

LEMMA StatementsGrow ==
  ASSUME NEW F, NEW list, NEW n \in Nat, n = Len(list), NEW at, NEW i, NEW j,
         Behind(n, at, i, j), Statements(list, F, at)
  PROVE  /\ \A k \in 0 .. n : at[k] \in Nat /\ i <= at[k] /\ at[k] <= j
         /\ \A k \in 1 .. n : /\ at[k - 1] \in Nat /\ at[k] \in Nat /\ at[k - 1] < at[k] - 1
                              /\ i <= at[k - 1] /\ at[k] <= j /\ at[k] <= Len(tokens)
         /\ i \in Nat /\ j \in Nat
<1>1. at \in [0 .. n -> Nat] /\ at[0] = i /\ at[n] = j  BY DEF Behind
<1>2. ASSUME NEW k \in 1 .. n
      PROVE  /\ at[k - 1] \in Nat /\ at[k] \in Nat /\ at[k - 1] < at[k] - 1
             /\ at[k] <= Len(tokens)
  <2>1. k - 1 \in 0 .. n /\ k \in 0 .. n  OBVIOUS
  <2>2. at[k - 1] \in Nat /\ at[k] \in Nat  BY <1>1, <2>1
  <2>3. Meant(list[k], F, at[k - 1], at[k] - 1) /\ IsWord(at[k], Semicolon)  BY DEF Statements
  <2>4. at[k - 1] < at[k] - 1  BY <2>3 DEF Meant
  <2> QED  BY <2>2, <2>3, <2>4 DEF IsWord
<1>3. \A k \in 1 .. n : at[k - 1] <= at[k]
  <2> SUFFICES ASSUME NEW k \in 1 .. n PROVE at[k - 1] <= at[k]
    OBVIOUS
  <2>1. at[k - 1] \in Nat /\ at[k] \in Nat /\ at[k - 1] < at[k] - 1  BY <1>2
  <2> QED  BY <2>1
<1>4. \A k \in 0 .. n : i <= at[k] /\ at[k] <= j  BY <1>3, PlacesGrow
<1>5. \A k \in 0 .. n : at[k] \in Nat  BY <1>1
<1>6. \A k \in 1 .. n : i <= at[k - 1] /\ at[k] <= j
  <2> SUFFICES ASSUME NEW k \in 1 .. n PROVE i <= at[k - 1] /\ at[k] <= j
    OBVIOUS
  <2>1. k - 1 \in 0 .. n /\ k \in 0 .. n  OBVIOUS
  <2> QED  BY <1>4, <2>1
<1>7. i \in Nat /\ j \in Nat  BY <1>1
<1> QED  BY <1>2, <1>4, <1>5, <1>6, <1>7

LEMMA SeqMeant ==
  ASSUME Input, NEW F, NEW list, IsSeq(list), list # <<>>, NEW at, NEW i, NEW j,
         Behind(Len(list), at, i, j), Statements(list, F, at)
  PROVE  Meant(Seq2(list), F, i, j)
<1> DEFINE n == Len(list)
           x == Seq2(list)
           m == j - i - 1
           T == Trees[m]
           D == expression_delete
           P == fprintf_expression
<1>0. n \in Nat /\ n # 0 /\ DOMAIN list = 1 .. n
  BY LenProperties, EmptySeq DEF IsSeq
<1> HIDE DEF n
<1>a. /\ \A k \in 0 .. n : at[k] \in Nat /\ i <= at[k] /\ at[k] <= j
      /\ \A k \in 1 .. n : /\ at[k - 1] \in Nat /\ at[k] \in Nat /\ at[k - 1] < at[k] - 1
                           /\ i <= at[k - 1] /\ at[k] <= j /\ at[k] <= Len(tokens)
      /\ i \in Nat /\ j \in Nat
  <2>1. Behind(n, at, i, j)  BY DEF n
  <2> QED  BY <1>0, <2>1, StatementsGrow DEF n
<1>b. at[0] = i /\ at[n] = j  BY DEF Behind, n
<1>1. /\ m \in Nat /\ j - i \in Nat /\ m < j - i /\ i < j /\ j <= Len(tokens) /\ i <= Len(tokens)
  <2>1. 1 \in 1 .. n /\ 1 - 1 = 0 /\ n \in 1 .. n  BY <1>0
  <2>2. /\ at[1 - 1] \in Nat /\ at[1] \in Nat /\ at[1 - 1] < at[1] - 1 /\ at[1] <= j
        /\ at[n] <= Len(tokens)
    BY <1>a, <2>1
  <2>3. Len(tokens) \in Nat  BY TokenIs
  <2> QED  BY <1>a, <1>b, <2>1, <2>2, <2>3
<1> HIDE DEF m
<1>2. ASSUME NEW k \in 1 .. n PROVE list[k] \in T
  <2>1. Meant(list[k], F, at[k - 1], at[k] - 1)  BY DEF Statements, n
  <2>2. /\ at[k - 1] \in Nat /\ at[k] \in Nat /\ at[k - 1] < at[k] - 1
        /\ i <= at[k - 1] /\ at[k] <= j /\ i \in Nat /\ j \in Nat
    BY <1>a
  <2>3. (at[k] - 1) - at[k - 1] <= m  BY <2>2 DEF m
  <2> QED  BY <1>1, <2>1, <2>3, MeantGrows
<1> HIDE DEF T
<1>3. list \in Seq(T)
  <2> DEFINE S == {list[k] : k \in DOMAIN list}
  <2>1. list \in Seq(S) /\ S \subseteq T  BY <1>0, <1>2 DEF IsSeq
  <2> HIDE DEF S
  <2> QED  BY <2>1, SeqMonotonic
<1>4. x.tag = "SEQUENCE_E" /\ x.list = list /\ x \in Nodes(T)  BY <1>3 DEF Seq2, Nodes
<1> HIDE DEF x
<1>5. x \in Trees[j - i]  BY <1>1, <1>4, NodeIn DEF T
<1> DEFINE s == [k \in 1 .. n |-> D[list[k]]]
           p == [k \in 1 .. n |-> P[list[k]] \o <<Word(Semicolon)>>]
<1> HIDE DEF D, P
<1>6. Len(s) = n /\ Len(p) = n  BY <1>0
<1>7. ASSUME NEW k \in 1 .. n PROVE Covers(s[k], p[k], F, at[k - 1], at[k])
  <2>1. Meant(list[k], F, at[k - 1], at[k] - 1) /\ IsWord(at[k], Semicolon)  BY DEF Statements, n
  <2>2. Covers(D[list[k]], P[list[k]], F, at[k - 1], at[k] - 1)  BY <2>1, PartsMeant DEF D, P
  <2>3. at[k - 1] \in Nat /\ at[k] \in Nat /\ at[k - 1] < at[k] - 1  BY <1>a
  <2>4. at[k] - 1 \in Nat /\ (at[k] - 1) + 1 = at[k]  BY <2>3
  <2>5. Covers(<<>>, <<Word(Semicolon)>>, F, at[k] - 1, at[k])
    BY <2>1, <2>4, Marks, CoversWord DEF IsWord
  <2>6. Covers(D[list[k]], P[list[k]] \o <<Word(Semicolon)>>, F, at[k - 1], at[k])
    BY <2>2, <2>5, CoversBehind
  <2>7. s[k] = D[list[k]] /\ p[k] = P[list[k]] \o <<Word(Semicolon)>>  OBVIOUS
  <2> QED  BY <2>6, <2>7
<1> HIDE DEF s, p
<1>8. Covers(Joined(s), Joined(p), F, i, j)
  BY <1>0, <1>1, <1>a, <1>b, <1>6, <1>7, JoinedCovers
<1>9. TextsOf(x, D) = Joined(s)
  <2>1. TextsOf(x, D) = Joined([k \in 1 .. Len(x.list) |-> D[x.list[k]]])  BY <1>4, TextsOfList
  <2> QED  BY <1>4, <2>1 DEF s, n
<1>10. PrintOf(x, P) = Joined(p)
  <2>1. PrintOf(x, P) = Joined([k \in 1 .. Len(x.list) |-> P[x.list[k]] \o <<Word(Semicolon)>>])
    BY <1>4, PrintOfList
  <2> QED  BY <1>4, <2>1 DEF p, n
<1>11. Meant(x, F, i, j)
  <2>1. Covers(TextsOf(x, expression_delete), PrintOf(x, fprintf_expression), F, i, j)
    BY <1>8, <1>9, <1>10 DEF D, P
  <2> QED  BY <1>1, <1>5, <1>a, <2>1, MeantIs
<1> QED  BY <1>11 DEF x

-----------------------------------------------------------------------------
(* What is freed later, of what stands behind or before, does not matter.  *)
LEMMA CoversOther ==
  ASSUME NEW F, NEW G, NEW i, NEW j, NEW s, NEW p, Covers(s, p, F, i, j),
         \A x \in i + 1 .. j : x \in F <=> x \in G
  PROVE  Covers(s, p, G, i, j)
BY DEF Covers, Owns

LEMMA MeantOther ==
  ASSUME NEW F, NEW G, NEW i, NEW j, NEW e, Meant(e, F, i, j),
         \A x \in i + 1 .. j : x \in F <=> x \in G
  PROVE  Meant(e, G, i, j)
BY CoversOther DEF Meant

-----------------------------------------------------------------------------
(* What a call has got, from the tokens i + 1 to j.                        *)
ArgAt(a, F, p) ==
  /\ a.name = p + 1 /\ IsWord(p + 1, "IDENTIFIER") /\ p + 1 \notin F
  /\ IsWord(p + 2, ":")
  /\ a.type \in ProgramTypes /\ IsWord(p + 3, a.type)

ArgsRead(args, F, i) ==
  IsSeq(args) /\ \A k \in 1 .. Len(args) : ArgAt(args[k], F, i + 4 * (k - 1))

Commas(n, i) == \A k \in 1 .. n : IsWord(i + 4 * k, Comma)

(* A comma stands behind every parameter, or behind every one but the last. *)
ArgsCover(args, F, i, j) ==
  /\ ArgsRead(args, F, i)
  /\ \/ Commas(Len(args), i) /\ j = i + 4 * Len(args)
     \/ Len(args) > 0 /\ Commas(Len(args) - 1, i) /\ j = i + 4 * Len(args) - 1

ItemCovers(need, x, F, i, j) ==
  /\ i \in Nat /\ j \in Nat /\ i <= j /\ j <= Len(tokens)
  /\ need = "binary_expr" => Meant(x, F, i, j)
  /\ need = "expr" => Meant(x, F, i + 1, j - 1) /\ IsWord(i + 1, Opening) /\ IsWord(j, Closing)
  /\ need = "args" => ArgsCover(x, F, i, j)
  /\ need = "program_type" => j = i + 1 /\ x \in ProgramTypes /\ IsWord(j, x)
  /\ need \notin Callees \union {"program_type"} => j = i + 1 /\ x = j /\ IsWord(j, need)
  /\ need = "IDENTIFIER" => j \notin F

ItemsCover(needs, got, F, i, j) ==
  \E at : /\ Behind(Len(got), at, i, j)
          /\ \A k \in 1 .. Len(got) : ItemCovers(needs[k], got[k], F, at[k - 1], at[k])

BlockCovers(got, F, i, j) ==
  \E at : Behind(Len(got), at, i, j) /\ Statements(got, F, at)

(* An operand or none, and an operator.                                    *)
ChainCovers(got, F, i, j) ==
  \/ got = <<>> /\ j = i
  \/ Len(got) = 1 /\ Meant(got[1], F, i, j)
  \/ /\ Len(got) = 2 /\ Meant(got[1], F, i, j - 1)
     /\ got[2] \in DOMAIN BinaryTag /\ IsWord(j, got[2])

FrameCovers(f, F, j) ==
  /\ f.from \in Nat /\ j \in Nat /\ f.from <= j /\ j <= Len(tokens)
  /\ f.fn \in DOMAIN Needs => ItemsCover(Needs[f.fn], f.got, F, f.from, j)
  /\ f.fn = "binary_expr" => ChainCovers(f.got, F, f.from, j)
  /\ f.fn = "expr" => IsWord(f.from + 1, Opening) /\ BlockCovers(f.got, F, f.from + 1, j)
  /\ f.fn = "args" =>
       ArgsRead(f.got, F, f.from) /\ Commas(Len(f.got), f.from) /\ j = f.from + 4 * Len(f.got)

-----------------------------------------------------------------------------
(* Pieces, and one piece more.                                             *)
LEMMA PlacesMore ==
  ASSUME NEW n \in Nat, NEW at, NEW i, NEW j, Behind(n, at, i, j), NEW m \in Nat
  PROVE  \E to : /\ Behind(n + 1, to, i, m)
                 /\ to[n] = j /\ to[n + 1] = m
                 /\ \A k \in 0 .. n : to[k] = at[k]
<1> DEFINE to == [k \in 0 .. n + 1 |-> IF k = n + 1 THEN m ELSE at[k]]
<1>1. at \in [0 .. n -> Nat] /\ at[0] = i /\ at[n] = j  BY DEF Behind
<1>2. \A k \in 0 .. n : k # n + 1 /\ k \in 0 .. n + 1  OBVIOUS
<1>3. \A k \in 0 .. n + 1 : k # n + 1 => k \in 0 .. n  OBVIOUS
<1>4. 0 \in 0 .. n /\ n \in 0 .. n /\ n + 1 \in 0 .. n + 1  OBVIOUS
<1>5. \A k \in 0 .. n + 1 : to[k] \in Nat
  <2> SUFFICES ASSUME NEW k \in 0 .. n + 1 PROVE to[k] \in Nat
    OBVIOUS
  <2>1. CASE k = n + 1  BY <2>1
  <2>2. CASE k # n + 1  BY <1>1, <1>3, <2>2
  <2> QED  BY <2>1, <2>2
<1>6. to \in [0 .. n + 1 -> Nat]  BY <1>5
<1>7. \A k \in 0 .. n : to[k] = at[k]  BY <1>2
<1>8. to[n + 1] = m  BY <1>4
<1> HIDE DEF to
<1>9. to[0] = i /\ to[n] = j  BY <1>1, <1>4, <1>7
<1>10. Behind(n + 1, to, i, m)  BY <1>6, <1>8, <1>9 DEF Behind
<1> QED  BY <1>7, <1>8, <1>9, <1>10

LEMMA ItemsMore ==
  ASSUME NEW needs, NEW got, IsSeq(got), NEW F, NEW i, NEW j, ItemsCover(needs, got, F, i, j),
         NEW x, NEW m, ItemCovers(needs[Len(got) + 1], x, F, j, m)
  PROVE  ItemsCover(needs, Append(got, x), F, i, m)
<1> DEFINE n == Len(got)
           more == Append(got, x)
<1>1. PICK at : /\ Behind(n, at, i, j)
                /\ \A k \in 1 .. n : ItemCovers(needs[k], got[k], F, at[k - 1], at[k])
  BY DEF ItemsCover
<1>2. /\ n \in Nat /\ Len(more) = n + 1 /\ more[n + 1] = x
      /\ \A k \in 1 .. n : more[k] = got[k]
  BY Appended
<1> HIDE DEF n, more
<1>3. m \in Nat  BY DEF ItemCovers
<1>4. PICK to : /\ Behind(n + 1, to, i, m)
                /\ to[n] = j /\ to[n + 1] = m
                /\ \A k \in 0 .. n : to[k] = at[k]
  <2>1. n \in Nat /\ Behind(n, at, i, j)  BY <1>1, <1>2
  <2> QED  BY <1>3, <2>1, PlacesMore
<1>5. ASSUME NEW k \in 1 .. n + 1 PROVE ItemCovers(needs[k], more[k], F, to[k - 1], to[k])
  <2>1. CASE k = n + 1
    <3>1. k - 1 = n  BY <1>2, <2>1
    <3>2. needs[k] = needs[n + 1] /\ more[k] = x /\ to[k - 1] = j /\ to[k] = m
      BY <1>2, <1>4, <2>1, <3>1
    <3>3. ItemCovers(needs[n + 1], x, F, j, m)  BY DEF n
    <3> QED  BY <3>2, <3>3
  <2>2. CASE k # n + 1
    <3>1. k \in 1 .. n /\ k - 1 \in 0 .. n /\ k \in 0 .. n  BY <1>2, <2>2
    <3>2. more[k] = got[k] /\ to[k - 1] = at[k - 1] /\ to[k] = at[k]  BY <1>2, <1>4, <3>1
    <3> QED  BY <1>1, <3>1, <3>2
  <2> QED  BY <2>1, <2>2
<1>6. ItemsCover(needs, more, F, i, m)  BY <1>2, <1>4, <1>5 DEF ItemsCover
<1> QED  BY <1>6 DEF more

LEMMA ItemsNeeded ==
  ASSUME NEW needs, NEW more, NEW got, NEW F, NEW i, NEW j, ItemsCover(needs, got, F, i, j),
         \A k \in 1 .. Len(got) : more[k] = needs[k]
  PROVE  ItemsCover(more, got, F, i, j)
BY DEF ItemsCover

LEMMA BlockMore ==
  ASSUME NEW got, IsSeq(got), NEW F, NEW i, NEW j, BlockCovers(got, F, i, j),
         NEW x, NEW m, m \in Nat, Meant(x, F, j, m - 1), IsWord(m, Semicolon)
  PROVE  BlockCovers(Append(got, x), F, i, m)
<1> DEFINE n == Len(got)
           more == Append(got, x)
<1>1. PICK at : Behind(n, at, i, j) /\ Statements(got, F, at)
  BY DEF BlockCovers
<1>2. /\ n \in Nat /\ Len(more) = n + 1 /\ more[n + 1] = x
      /\ \A k \in 1 .. n : more[k] = got[k]
  BY Appended
<1>a. \A k \in 1 .. n : /\ Meant(got[k], F, at[k - 1], at[k] - 1)
                        /\ at[k] \in Nat /\ IsWord(at[k], Semicolon)
  BY <1>1 DEF Statements
<1> HIDE DEF n, more
<1>4. PICK to : /\ Behind(n + 1, to, i, m)
                /\ to[n] = j /\ to[n + 1] = m
                /\ \A k \in 0 .. n : to[k] = at[k]
  BY <1>1, <1>2, PlacesMore
<1>5. ASSUME NEW k \in 1 .. n + 1
      PROVE  /\ Meant(more[k], F, to[k - 1], to[k] - 1)
             /\ to[k] \in Nat /\ IsWord(to[k], Semicolon)
  <2>1. CASE k = n + 1
    <3>1. k - 1 = n  BY <1>2, <2>1
    <3>2. more[k] = x /\ to[k - 1] = j /\ to[k] = m
      BY <1>2, <1>4, <2>1, <3>1
    <3> QED  BY <3>2
  <2>2. CASE k # n + 1
    <3>1. k \in 1 .. n /\ k - 1 \in 0 .. n /\ k \in 0 .. n  BY <1>2, <2>2
    <3>2. more[k] = got[k] /\ to[k - 1] = at[k - 1] /\ to[k] = at[k]  BY <1>2, <1>4, <3>1
    <3> QED  BY <1>a, <3>1, <3>2
  <2> QED  BY <2>1, <2>2
<1>6. BlockCovers(more, F, i, m)  BY <1>2, <1>4, <1>5 DEF BlockCovers, Statements
<1> QED  BY <1>6 DEF more

-----------------------------------------------------------------------------
(* What the functions need, entry by entry.                                *)
LEMMA NeedsAre ==
  /\ DOMAIN Needs = {"fn", "let", "if", "if_else", "deref", "deref_assign", "return", "var",
                     "func_call", "var_assign", "arg"}
  /\ Needs["fn"] = <<"fn", "IDENTIFIER", "(", "args", ")", "program_type", "=", "expr">>
  /\ Needs["let"] = <<"let", "IDENTIFIER", ":", "program_type", "=", "binary_expr">>
  /\ Needs["if"] = <<"if", "(", "binary_expr", ")", "expr">>
  /\ Needs["if_else"] = <<"if", "(", "binary_expr", ")", "expr", "else", "expr">>
  /\ Needs["deref"] = <<"*", "binary_expr">>
  /\ Needs["deref_assign"] = <<"*", "binary_expr", "=", "binary_expr">>
  /\ Needs["return"] = <<"return", "binary_expr">>
  /\ Needs["var"] = <<"IDENTIFIER">>
  /\ Needs["func_call"] = <<"IDENTIFIER", "(", ")">>
  /\ Needs["var_assign"] = <<"IDENTIFIER", "=", "binary_expr">>
  /\ Needs["arg"] = <<"IDENTIFIER", ":", "program_type">>
<1>1. DOMAIN Needs = {"fn", "let", "if", "if_else", "deref", "deref_assign", "return", "var",
                      "func_call", "var_assign", "arg"}
  BY DEF Needs
<1>2. /\ Needs["fn"] = <<"fn", "IDENTIFIER", "(", "args", ")", "program_type", "=", "expr">>
      /\ Needs["let"] = <<"let", "IDENTIFIER", ":", "program_type", "=", "binary_expr">>
      /\ Needs["if"] = <<"if", "(", "binary_expr", ")", "expr">>
      /\ Needs["if_else"] = <<"if", "(", "binary_expr", ")", "expr", "else", "expr">>
      /\ Needs["deref"] = <<"*", "binary_expr">>
  BY DEF Needs
<1>3. /\ Needs["deref_assign"] = <<"*", "binary_expr", "=", "binary_expr">>
      /\ Needs["return"] = <<"return", "binary_expr">>
      /\ Needs["var"] = <<"IDENTIFIER">>
      /\ Needs["func_call"] = <<"IDENTIFIER", "(", ")">>
      /\ Needs["var_assign"] = <<"IDENTIFIER", "=", "binary_expr">>
      /\ Needs["arg"] = <<"IDENTIFIER", ":", "program_type">>
  BY DEF Needs
<1> QED  BY <1>1, <1>2, <1>3

LEMMA NeedsLen ==
  /\ Len(Needs["fn"]) = 8 /\ Len(Needs["let"]) = 6 /\ Len(Needs["if"]) = 5
  /\ Len(Needs["if_else"]) = 7 /\ Len(Needs["deref"]) = 2 /\ Len(Needs["deref_assign"]) = 4
  /\ Len(Needs["return"]) = 2 /\ Len(Needs["var"]) = 1 /\ Len(Needs["func_call"]) = 3
  /\ Len(Needs["var_assign"]) = 3 /\ Len(Needs["arg"]) = 3
<1>1. Len(Needs["fn"]) = 8 /\ Len(Needs["let"]) = 6 /\ Len(Needs["if"]) = 5
  BY NeedsAre
<1>2. Len(Needs["if_else"]) = 7 /\ Len(Needs["deref"]) = 2 /\ Len(Needs["deref_assign"]) = 4
  BY NeedsAre
<1>3. /\ Len(Needs["return"]) = 2 /\ Len(Needs["var"]) = 1 /\ Len(Needs["func_call"]) = 3
      /\ Len(Needs["var_assign"]) = 3 /\ Len(Needs["arg"]) = 3
  BY NeedsAre
<1> QED  BY <1>1, <1>2, <1>3

(* A token that is needed, a type, an expression and a block.              *)
NeededWords == {"fn", "let", "if", "else", "return", "(", ")", ":", "=", "*", "IDENTIFIER"}

LEMMA WordItem ==
  ASSUME NEW need, need \in NeededWords, NEW x, NEW F, NEW i, NEW j,
         ItemCovers(need, x, F, i, j)
  PROVE  i \in Nat /\ j = i + 1 /\ x = j /\ IsWord(j, need) /\ (need = "IDENTIFIER" => j \notin F)
<1>1. need \notin Callees \union {"program_type"}  BY DEF NeededWords, Callees
<1> QED  BY <1>1 DEF ItemCovers

LEMMA TypeItem ==
  ASSUME NEW x, NEW F, NEW i, NEW j, ItemCovers("program_type", x, F, i, j)
  PROVE  i \in Nat /\ j = i + 1 /\ x \in ProgramTypes /\ IsWord(j, x)
BY DEF ItemCovers

LEMMA TreeItem ==
  ASSUME NEW x, NEW F, NEW i, NEW j, ItemCovers("binary_expr", x, F, i, j)
  PROVE  i \in Nat /\ j \in Nat /\ Meant(x, F, i, j)
BY DEF ItemCovers

LEMMA BlockItem ==
  ASSUME NEW x, NEW F, NEW i, NEW j, ItemCovers("expr", x, F, i, j)
  PROVE  /\ i \in Nat /\ j \in Nat /\ i <= j /\ Meant(x, F, i + 1, j - 1)
         /\ IsWord(i + 1, Opening) /\ IsWord(j, Closing)
BY DEF ItemCovers

-----------------------------------------------------------------------------
(* *x = e, read as * and x = e, is put right.                              *)
LEMMA Paired ==
  ASSUME NEW x, NEW y
  PROVE  <<x>> \o <<y>> = <<x, y>>
<1> DEFINE S == {x, y}
           a == <<x>>
           b == <<y>>
           c == <<x, y>>
<1>1. /\ a \in Seq(S) /\ b \in Seq(S) /\ c \in Seq(S)
      /\ Len(a) = 1 /\ Len(b) = 1 /\ Len(c) = 2
      /\ a[1] = x /\ b[1] = y /\ c[1] = x /\ c[2] = y
  OBVIOUS
<1> HIDE DEF S, a, b, c
<1>2. /\ a \o b \in Seq(S) /\ Len(a \o b) = Len(a) + Len(b)
      /\ \A k \in 1 .. Len(a) + Len(b) : (a \o b)[k] = IF k <= Len(a) THEN a[k] ELSE b[k - Len(a)]
  BY <1>1, ConcatProperties
<1>3. (a \o b)[1] = x /\ (a \o b)[2] = y
  <2>1. 1 \in 1 .. Len(a) + Len(b) /\ 2 \in 1 .. Len(a) + Len(b) /\ 1 <= Len(a) /\ ~(2 <= Len(a))
        /\ 2 - Len(a) = 1
    BY <1>1
  <2> QED  BY <1>1, <1>2, <2>1
<1>4. \A k \in 1 .. Len(a \o b) : (a \o b)[k] = c[k]
  <2>1. \A k \in 1 .. Len(a \o b) : k = 1 \/ k = 2  BY <1>1, <1>2
  <2> QED  BY <1>1, <1>3, <2>1
<1>5. Len(a \o b) = Len(c)  BY <1>1, <1>2
<1>6. a \o b = c  BY <1>1, <1>2, <1>4, <1>5, SeqEqual
<1> QED  BY <1>6 DEF a, b, c

LEMMA StarMeant ==
  ASSUME Input, NEW F, NEW i \in Nat, NEW j, NEW e, Meant(e, F, i + 1, j), IsWord(i + 1, "*"),
         e.tag = "ASSIGN_E"
  PROVE  Meant(Out(Var(e.var), e.e), F, i, j)
<1> DEFINE D == expression_delete
           P == fprintf_expression
           n == j - (i + 1)
           T == Trees[n - 1]
           d == Var(e.var)
           x == Out(d, e.e)
<1>1. /\ j \in Nat /\ i < j /\ n \in Nat /\ e \in Trees[n] /\ j - i \in Nat
      /\ Size \in Nat /\ n <= Size /\ j <= Len(tokens)
  <2>1. Size \in Nat /\ Len(tokens) \in Nat /\ Len(tokens) <= Size  BY TokenIs
  <2>2. /\ j \in Nat /\ i + 1 < j /\ j <= Len(tokens) /\ n \in Nat /\ e \in Trees[n]
    BY PartsMeant
  <2>3. i < j /\ j - i \in Nat /\ n <= Size
    <3> HIDE DEF T
    <3> QED  BY <2>1, <2>2
  <2> QED  BY <2>1, <2>2, <2>3
<1>2. n > 0 /\ e.var \in Places /\ e.e \in T
  <2>1. n > 0 => T = Trees[n - 1]  OBVIOUS
  <2> HIDE DEF n, T
  <2> QED  BY <1>1, <2>1, TreeParts
<1>3. n - 1 \in Nat /\ n - 1 < j - i /\ n - 1 <= Size  BY <1>1, <1>2
<1>4. d.tag = "VARIABLE_E" /\ d.name = e.var /\ d \in Leaves
  BY <1>2 DEF Var, Leaves
<1> HIDE DEF d
<1>5. d \in T /\ d \in Trees[Size] /\ e.e \in Trees[Size] /\ e \in Trees[Size]
  <2> HIDE DEF n
  <2>1. d \in T /\ d \in Trees[Size]  BY <1>1, <1>3, <1>4, LeafIn
  <2>2. e.e \in Trees[Size] /\ e \in Trees[Size]  BY <1>1, <1>2, <1>3, TreesGrow
  <2> QED  BY <2>1, <2>2
<1>6. x.tag = "DEREF_ASSIGN_E" /\ x.e1 = d /\ x.e2 = e.e /\ x \in Nodes(T)
  <2> HIDE DEF T, n
  <2> QED  BY <1>2, <1>5 DEF Out, Nodes
<1> HIDE DEF x
<1>7. x \in Trees[j - i]
  <2> HIDE DEF n
  <2> QED  BY <1>1, <1>3, <1>6, NodeIn
<1> HIDE DEF T, n
<1>8. /\ D[d] = TextsOf(d, D) /\ D[e] = TextsOf(e, D)
  BY <1>1, <1>5, DeleteIs
<1>9. /\ P[d] = PrintOf(d, P) /\ P[e] = PrintOf(e, P)
  BY <1>5, PrintIs
<1>p. P[e.e] \in Seq(Records)
  <2>1. P \in [Trees[Size] -> Seq(Records)]  BY PrintIs
  <2> HIDE DEF P
  <2> QED  BY <1>5, <2>1
<1> HIDE DEF D, P
<1> DEFINE w == <<Word("*")>>
           v == <<TokenAt(e.var - 1)>>
           q == <<Word("=")>>
           b == <<TokenAt(e.var - 1), Word("=")>>
<1>10. D[d] = <<e.var>> /\ D[e] = <<e.var>> \o D[e.e]
  <2>1. TextsOf(d, D) = <<d.name>>  BY <1>4, TextsOfKind
  <2>2. TextsOf(e, D) = <<e.var>> \o D[e.e]  BY TextsOfKind
  <2> QED  BY <1>4, <1>8, <2>1, <2>2
<1>11. P[d] = v /\ P[e] = b \o P[e.e]
  <2>1. PrintOf(d, P) = <<TokenAt(d.name - 1)>>  BY <1>4, PrintOfKind
  <2>2. PrintOf(e, P) = b \o P[e.e]  BY PrintOfKind
  <2> QED  BY <1>4, <1>9, <2>1, <2>2
<1>12. TextsOf(x, D) = D[e]
  <2>1. TextsOf(x, D) = D[x.e1] \o D[x.e2]  BY <1>6, TextsOfKind
  <2> QED  BY <1>6, <1>10, <2>1
<1>13. PrintOf(x, P) = ((w \o P[d]) \o q) \o P[e.e]
  <2>1. PrintOf(x, P) = ((w \o P[x.e1]) \o q) \o P[x.e2]  BY <1>6, PrintOfKind
  <2> QED  BY <1>6, <2>1
<1>14. v \o q = b  BY Paired
<1>15. w \in Seq(Records) /\ v \in Seq(Records) /\ q \in Seq(Records) /\ b \in Seq(Records)
  <2>1. Word("*") \in Records /\ Word("=") \in Records  BY WordIs DEF TokenType
  <2>2. TokenAt(e.var - 1) \in Records
    <3>1. e.var - 1 \in Nat  BY <1>2 DEF Places
    <3> QED  BY <3>1, TokenIs
  <2> QED  BY <2>1, <2>2
<1> HIDE DEF w, v, q, b
<1>16. PrintOf(x, P) = w \o P[e]
  <2>1. \A f, g, h \in Seq(Records) : f \o (g \o h) = (f \o g) \o h
    BY ConcatAssociative
  <2>2. w \o (v \o q) = (w \o v) \o q  BY <1>15, <2>1, ZenonT(30)
  <2>3. w \o (b \o P[e.e]) = (w \o b) \o P[e.e]  BY <1>15, <1>p, <2>1, ZenonT(30)
  <2> QED  BY <1>11, <1>13, <1>14, <2>2, <2>3
<1>17. Covers(D[e], w \o P[e], F, i, j)
  <2>1. "*" \notin WithText  BY DEF WithText
  <2> QED  BY <2>1, WordAndTree DEF D, P, w
<1>18. Covers(TextsOf(x, expression_delete), PrintOf(x, fprintf_expression), F, i, j)
  BY <1>12, <1>16, <1>17 DEF D, P
<1>19. Meant(x, F, i, j)  BY <1>1, <1>7, <1>18, MeantIs
<1> QED  BY <1>19 DEF x, d

-----------------------------------------------------------------------------
(* The tree an alternative makes is what its tokens mean.                  *)
Alternatives == {"let", "if", "if_else", "deref", "deref_assign", "return", "var", "func_call",
                 "var_assign"}

LEMMA ExpressionIs ==
  ASSUME NEW got
  PROVE  /\ Expression("let", got) = LetE(got[2], got[4], got[6])
         /\ Expression("if", got) = If(got[3], got[5])
         /\ Expression("if_else", got) = IfElseE(got[3], got[5], got[7])
         /\ Expression("deref", got) = IF got[2].tag = "ASSIGN_E" THEN Out(Var(got[2].var), got[2].e)
                                       ELSE Ref(got[2])
         /\ Expression("deref_assign", got) = Out(got[2], got[4])
         /\ Expression("return", got) = Ret(got[2])
         /\ Expression("var", got) = Var(got[1])
         /\ Expression("func_call", got) = Call(got[1])
         /\ Expression("var_assign", got) = Set(got[1], got[3])
  BY DEF Expression

LEMMA LetItems ==
  ASSUME NEW got, Len(got) = 6, NEW F, NEW i, NEW j, ItemsCover(Needs["let"], got, F, i, j)
  PROVE  \E at : /\ at[0] = i /\ at[6] = j
                /\ ItemCovers("let", got[1], F, at[0], at[1])
                /\ ItemCovers("IDENTIFIER", got[2], F, at[1], at[2])
                /\ ItemCovers(":", got[3], F, at[2], at[3])
                /\ ItemCovers("program_type", got[4], F, at[3], at[4])
                /\ ItemCovers("=", got[5], F, at[4], at[5])
                /\ ItemCovers("binary_expr", got[6], F, at[5], at[6])
<1>1. PICK at : /\ Behind(6, at, i, j)
                /\ \A k \in 1 .. 6 : ItemCovers(Needs["let"][k], got[k], F, at[k - 1], at[k])
  BY DEF ItemsCover
<1>2. at[0] = i /\ at[6] = j  BY <1>1 DEF Behind
<1>3. ItemCovers("let", got[1], F, at[0], at[1])
  <2>1. 1 \in 1 .. 6 /\ 1 - 1 = 0 /\ Needs["let"][1] = "let"  BY NeedsAre
  <2> QED  BY <1>1, <2>1
<1>4. ItemCovers("IDENTIFIER", got[2], F, at[1], at[2])
  <2>1. 2 \in 1 .. 6 /\ 2 - 1 = 1 /\ Needs["let"][2] = "IDENTIFIER"  BY NeedsAre
  <2> QED  BY <1>1, <2>1
<1>5. ItemCovers(":", got[3], F, at[2], at[3])
  <2>1. 3 \in 1 .. 6 /\ 3 - 1 = 2 /\ Needs["let"][3] = ":"  BY NeedsAre
  <2> QED  BY <1>1, <2>1
<1>6. ItemCovers("program_type", got[4], F, at[3], at[4])
  <2>1. 4 \in 1 .. 6 /\ 4 - 1 = 3 /\ Needs["let"][4] = "program_type"  BY NeedsAre
  <2> QED  BY <1>1, <2>1
<1>7. ItemCovers("=", got[5], F, at[4], at[5])
  <2>1. 5 \in 1 .. 6 /\ 5 - 1 = 4 /\ Needs["let"][5] = "="  BY NeedsAre
  <2> QED  BY <1>1, <2>1
<1>8. ItemCovers("binary_expr", got[6], F, at[5], at[6])
  <2>1. 6 \in 1 .. 6 /\ 6 - 1 = 5 /\ Needs["let"][6] = "binary_expr"  BY NeedsAre
  <2> QED  BY <1>1, <2>1
<1> QED  BY <1>2, <1>3, <1>4, <1>5, <1>6, <1>7, <1>8

LEMMA IfItems ==
  ASSUME NEW got, Len(got) = 5, NEW F, NEW i, NEW j, ItemsCover(Needs["if"], got, F, i, j)
  PROVE  \E at : /\ at[0] = i /\ at[5] = j
                /\ ItemCovers("if", got[1], F, at[0], at[1])
                /\ ItemCovers("(", got[2], F, at[1], at[2])
                /\ ItemCovers("binary_expr", got[3], F, at[2], at[3])
                /\ ItemCovers(")", got[4], F, at[3], at[4])
                /\ ItemCovers("expr", got[5], F, at[4], at[5])
<1>1. PICK at : /\ Behind(5, at, i, j)
                /\ \A k \in 1 .. 5 : ItemCovers(Needs["if"][k], got[k], F, at[k - 1], at[k])
  BY DEF ItemsCover
<1>2. at[0] = i /\ at[5] = j  BY <1>1 DEF Behind
<1>3. ItemCovers("if", got[1], F, at[0], at[1])
  <2>1. 1 \in 1 .. 5 /\ 1 - 1 = 0 /\ Needs["if"][1] = "if"  BY NeedsAre
  <2> QED  BY <1>1, <2>1
<1>4. ItemCovers("(", got[2], F, at[1], at[2])
  <2>1. 2 \in 1 .. 5 /\ 2 - 1 = 1 /\ Needs["if"][2] = "("  BY NeedsAre
  <2> QED  BY <1>1, <2>1
<1>5. ItemCovers("binary_expr", got[3], F, at[2], at[3])
  <2>1. 3 \in 1 .. 5 /\ 3 - 1 = 2 /\ Needs["if"][3] = "binary_expr"  BY NeedsAre
  <2> QED  BY <1>1, <2>1
<1>6. ItemCovers(")", got[4], F, at[3], at[4])
  <2>1. 4 \in 1 .. 5 /\ 4 - 1 = 3 /\ Needs["if"][4] = ")"  BY NeedsAre
  <2> QED  BY <1>1, <2>1
<1>7. ItemCovers("expr", got[5], F, at[4], at[5])
  <2>1. 5 \in 1 .. 5 /\ 5 - 1 = 4 /\ Needs["if"][5] = "expr"  BY NeedsAre
  <2> QED  BY <1>1, <2>1
<1> QED  BY <1>2, <1>3, <1>4, <1>5, <1>6, <1>7

LEMMA IfElseItems ==
  ASSUME NEW got, Len(got) = 7, NEW F, NEW i, NEW j, ItemsCover(Needs["if_else"], got, F, i, j)
  PROVE  \E at : /\ at[0] = i /\ at[7] = j
                /\ ItemCovers("if", got[1], F, at[0], at[1])
                /\ ItemCovers("(", got[2], F, at[1], at[2])
                /\ ItemCovers("binary_expr", got[3], F, at[2], at[3])
                /\ ItemCovers(")", got[4], F, at[3], at[4])
                /\ ItemCovers("expr", got[5], F, at[4], at[5])
                /\ ItemCovers("else", got[6], F, at[5], at[6])
                /\ ItemCovers("expr", got[7], F, at[6], at[7])
<1>1. PICK at : /\ Behind(7, at, i, j)
                /\ \A k \in 1 .. 7 : ItemCovers(Needs["if_else"][k], got[k], F, at[k - 1], at[k])
  BY DEF ItemsCover
<1>2. at[0] = i /\ at[7] = j  BY <1>1 DEF Behind
<1>3. ItemCovers("if", got[1], F, at[0], at[1])
  <2>1. 1 \in 1 .. 7 /\ 1 - 1 = 0 /\ Needs["if_else"][1] = "if"  BY NeedsAre
  <2> QED  BY <1>1, <2>1
<1>4. ItemCovers("(", got[2], F, at[1], at[2])
  <2>1. 2 \in 1 .. 7 /\ 2 - 1 = 1 /\ Needs["if_else"][2] = "("  BY NeedsAre
  <2> QED  BY <1>1, <2>1
<1>5. ItemCovers("binary_expr", got[3], F, at[2], at[3])
  <2>1. 3 \in 1 .. 7 /\ 3 - 1 = 2 /\ Needs["if_else"][3] = "binary_expr"  BY NeedsAre
  <2> QED  BY <1>1, <2>1
<1>6. ItemCovers(")", got[4], F, at[3], at[4])
  <2>1. 4 \in 1 .. 7 /\ 4 - 1 = 3 /\ Needs["if_else"][4] = ")"  BY NeedsAre
  <2> QED  BY <1>1, <2>1
<1>7. ItemCovers("expr", got[5], F, at[4], at[5])
  <2>1. 5 \in 1 .. 7 /\ 5 - 1 = 4 /\ Needs["if_else"][5] = "expr"  BY NeedsAre
  <2> QED  BY <1>1, <2>1
<1>8. ItemCovers("else", got[6], F, at[5], at[6])
  <2>1. 6 \in 1 .. 7 /\ 6 - 1 = 5 /\ Needs["if_else"][6] = "else"  BY NeedsAre
  <2> QED  BY <1>1, <2>1
<1>9. ItemCovers("expr", got[7], F, at[6], at[7])
  <2>1. 7 \in 1 .. 7 /\ 7 - 1 = 6 /\ Needs["if_else"][7] = "expr"  BY NeedsAre
  <2> QED  BY <1>1, <2>1
<1> QED  BY <1>2, <1>3, <1>4, <1>5, <1>6, <1>7, <1>8, <1>9

LEMMA DerefItems ==
  ASSUME NEW got, Len(got) = 2, NEW F, NEW i, NEW j, ItemsCover(Needs["deref"], got, F, i, j)
  PROVE  \E at : /\ at[0] = i /\ at[2] = j
                /\ ItemCovers("*", got[1], F, at[0], at[1])
                /\ ItemCovers("binary_expr", got[2], F, at[1], at[2])
<1>1. PICK at : /\ Behind(2, at, i, j)
                /\ \A k \in 1 .. 2 : ItemCovers(Needs["deref"][k], got[k], F, at[k - 1], at[k])
  BY DEF ItemsCover
<1>2. at[0] = i /\ at[2] = j  BY <1>1 DEF Behind
<1>3. ItemCovers("*", got[1], F, at[0], at[1])
  <2>1. 1 \in 1 .. 2 /\ 1 - 1 = 0 /\ Needs["deref"][1] = "*"  BY NeedsAre
  <2> QED  BY <1>1, <2>1
<1>4. ItemCovers("binary_expr", got[2], F, at[1], at[2])
  <2>1. 2 \in 1 .. 2 /\ 2 - 1 = 1 /\ Needs["deref"][2] = "binary_expr"  BY NeedsAre
  <2> QED  BY <1>1, <2>1
<1> QED  BY <1>2, <1>3, <1>4

LEMMA DerefAssignItems ==
  ASSUME NEW got, Len(got) = 4, NEW F, NEW i, NEW j, ItemsCover(Needs["deref_assign"], got, F, i, j)
  PROVE  \E at : /\ at[0] = i /\ at[4] = j
                /\ ItemCovers("*", got[1], F, at[0], at[1])
                /\ ItemCovers("binary_expr", got[2], F, at[1], at[2])
                /\ ItemCovers("=", got[3], F, at[2], at[3])
                /\ ItemCovers("binary_expr", got[4], F, at[3], at[4])
<1>1. PICK at : /\ Behind(4, at, i, j)
                /\ \A k \in 1 .. 4 : ItemCovers(Needs["deref_assign"][k], got[k], F, at[k - 1], at[k])
  BY DEF ItemsCover
<1>2. at[0] = i /\ at[4] = j  BY <1>1 DEF Behind
<1>3. ItemCovers("*", got[1], F, at[0], at[1])
  <2>1. 1 \in 1 .. 4 /\ 1 - 1 = 0 /\ Needs["deref_assign"][1] = "*"  BY NeedsAre
  <2> QED  BY <1>1, <2>1
<1>4. ItemCovers("binary_expr", got[2], F, at[1], at[2])
  <2>1. 2 \in 1 .. 4 /\ 2 - 1 = 1 /\ Needs["deref_assign"][2] = "binary_expr"  BY NeedsAre
  <2> QED  BY <1>1, <2>1
<1>5. ItemCovers("=", got[3], F, at[2], at[3])
  <2>1. 3 \in 1 .. 4 /\ 3 - 1 = 2 /\ Needs["deref_assign"][3] = "="  BY NeedsAre
  <2> QED  BY <1>1, <2>1
<1>6. ItemCovers("binary_expr", got[4], F, at[3], at[4])
  <2>1. 4 \in 1 .. 4 /\ 4 - 1 = 3 /\ Needs["deref_assign"][4] = "binary_expr"  BY NeedsAre
  <2> QED  BY <1>1, <2>1
<1> QED  BY <1>2, <1>3, <1>4, <1>5, <1>6

LEMMA ReturnItems ==
  ASSUME NEW got, Len(got) = 2, NEW F, NEW i, NEW j, ItemsCover(Needs["return"], got, F, i, j)
  PROVE  \E at : /\ at[0] = i /\ at[2] = j
                /\ ItemCovers("return", got[1], F, at[0], at[1])
                /\ ItemCovers("binary_expr", got[2], F, at[1], at[2])
<1>1. PICK at : /\ Behind(2, at, i, j)
                /\ \A k \in 1 .. 2 : ItemCovers(Needs["return"][k], got[k], F, at[k - 1], at[k])
  BY DEF ItemsCover
<1>2. at[0] = i /\ at[2] = j  BY <1>1 DEF Behind
<1>3. ItemCovers("return", got[1], F, at[0], at[1])
  <2>1. 1 \in 1 .. 2 /\ 1 - 1 = 0 /\ Needs["return"][1] = "return"  BY NeedsAre
  <2> QED  BY <1>1, <2>1
<1>4. ItemCovers("binary_expr", got[2], F, at[1], at[2])
  <2>1. 2 \in 1 .. 2 /\ 2 - 1 = 1 /\ Needs["return"][2] = "binary_expr"  BY NeedsAre
  <2> QED  BY <1>1, <2>1
<1> QED  BY <1>2, <1>3, <1>4

LEMMA VarItems ==
  ASSUME NEW got, Len(got) = 1, NEW F, NEW i, NEW j, ItemsCover(Needs["var"], got, F, i, j)
  PROVE  \E at : /\ at[0] = i /\ at[1] = j
                /\ ItemCovers("IDENTIFIER", got[1], F, at[0], at[1])
<1>1. PICK at : /\ Behind(1, at, i, j)
                /\ \A k \in 1 .. 1 : ItemCovers(Needs["var"][k], got[k], F, at[k - 1], at[k])
  BY DEF ItemsCover
<1>2. at[0] = i /\ at[1] = j  BY <1>1 DEF Behind
<1>3. ItemCovers("IDENTIFIER", got[1], F, at[0], at[1])
  <2>1. 1 \in 1 .. 1 /\ 1 - 1 = 0 /\ Needs["var"][1] = "IDENTIFIER"  BY NeedsAre
  <2> QED  BY <1>1, <2>1
<1> QED  BY <1>2, <1>3

LEMMA FuncCallItems ==
  ASSUME NEW got, Len(got) = 3, NEW F, NEW i, NEW j, ItemsCover(Needs["func_call"], got, F, i, j)
  PROVE  \E at : /\ at[0] = i /\ at[3] = j
                /\ ItemCovers("IDENTIFIER", got[1], F, at[0], at[1])
                /\ ItemCovers("(", got[2], F, at[1], at[2])
                /\ ItemCovers(")", got[3], F, at[2], at[3])
<1>1. PICK at : /\ Behind(3, at, i, j)
                /\ \A k \in 1 .. 3 : ItemCovers(Needs["func_call"][k], got[k], F, at[k - 1], at[k])
  BY DEF ItemsCover
<1>2. at[0] = i /\ at[3] = j  BY <1>1 DEF Behind
<1>3. ItemCovers("IDENTIFIER", got[1], F, at[0], at[1])
  <2>1. 1 \in 1 .. 3 /\ 1 - 1 = 0 /\ Needs["func_call"][1] = "IDENTIFIER"  BY NeedsAre
  <2> QED  BY <1>1, <2>1
<1>4. ItemCovers("(", got[2], F, at[1], at[2])
  <2>1. 2 \in 1 .. 3 /\ 2 - 1 = 1 /\ Needs["func_call"][2] = "("  BY NeedsAre
  <2> QED  BY <1>1, <2>1
<1>5. ItemCovers(")", got[3], F, at[2], at[3])
  <2>1. 3 \in 1 .. 3 /\ 3 - 1 = 2 /\ Needs["func_call"][3] = ")"  BY NeedsAre
  <2> QED  BY <1>1, <2>1
<1> QED  BY <1>2, <1>3, <1>4, <1>5

LEMMA VarAssignItems ==
  ASSUME NEW got, Len(got) = 3, NEW F, NEW i, NEW j, ItemsCover(Needs["var_assign"], got, F, i, j)
  PROVE  \E at : /\ at[0] = i /\ at[3] = j
                /\ ItemCovers("IDENTIFIER", got[1], F, at[0], at[1])
                /\ ItemCovers("=", got[2], F, at[1], at[2])
                /\ ItemCovers("binary_expr", got[3], F, at[2], at[3])
<1>1. PICK at : /\ Behind(3, at, i, j)
                /\ \A k \in 1 .. 3 : ItemCovers(Needs["var_assign"][k], got[k], F, at[k - 1], at[k])
  BY DEF ItemsCover
<1>2. at[0] = i /\ at[3] = j  BY <1>1 DEF Behind
<1>3. ItemCovers("IDENTIFIER", got[1], F, at[0], at[1])
  <2>1. 1 \in 1 .. 3 /\ 1 - 1 = 0 /\ Needs["var_assign"][1] = "IDENTIFIER"  BY NeedsAre
  <2> QED  BY <1>1, <2>1
<1>4. ItemCovers("=", got[2], F, at[1], at[2])
  <2>1. 2 \in 1 .. 3 /\ 2 - 1 = 1 /\ Needs["var_assign"][2] = "="  BY NeedsAre
  <2> QED  BY <1>1, <2>1
<1>5. ItemCovers("binary_expr", got[3], F, at[2], at[3])
  <2>1. 3 \in 1 .. 3 /\ 3 - 1 = 2 /\ Needs["var_assign"][3] = "binary_expr"  BY NeedsAre
  <2> QED  BY <1>1, <2>1
<1> QED  BY <1>2, <1>3, <1>4, <1>5

LEMMA ArgItems ==
  ASSUME NEW got, Len(got) = 3, NEW F, NEW i, NEW j, ItemsCover(Needs["arg"], got, F, i, j)
  PROVE  \E at : /\ at[0] = i /\ at[3] = j
                /\ ItemCovers("IDENTIFIER", got[1], F, at[0], at[1])
                /\ ItemCovers(":", got[2], F, at[1], at[2])
                /\ ItemCovers("program_type", got[3], F, at[2], at[3])
<1>1. PICK at : /\ Behind(3, at, i, j)
                /\ \A k \in 1 .. 3 : ItemCovers(Needs["arg"][k], got[k], F, at[k - 1], at[k])
  BY DEF ItemsCover
<1>2. at[0] = i /\ at[3] = j  BY <1>1 DEF Behind
<1>3. ItemCovers("IDENTIFIER", got[1], F, at[0], at[1])
  <2>1. 1 \in 1 .. 3 /\ 1 - 1 = 0 /\ Needs["arg"][1] = "IDENTIFIER"  BY NeedsAre
  <2> QED  BY <1>1, <2>1
<1>4. ItemCovers(":", got[2], F, at[1], at[2])
  <2>1. 2 \in 1 .. 3 /\ 2 - 1 = 1 /\ Needs["arg"][2] = ":"  BY NeedsAre
  <2> QED  BY <1>1, <2>1
<1>5. ItemCovers("program_type", got[3], F, at[2], at[3])
  <2>1. 3 \in 1 .. 3 /\ 3 - 1 = 2 /\ Needs["arg"][3] = "program_type"  BY NeedsAre
  <2> QED  BY <1>1, <2>1
<1> QED  BY <1>2, <1>3, <1>4, <1>5

LEMMA FnItems ==
  ASSUME NEW got, Len(got) = 8, NEW F, NEW i, NEW j, ItemsCover(Needs["fn"], got, F, i, j)
  PROVE  \E at : /\ at[0] = i /\ at[8] = j
                /\ ItemCovers("fn", got[1], F, at[0], at[1])
                /\ ItemCovers("IDENTIFIER", got[2], F, at[1], at[2])
                /\ ItemCovers("(", got[3], F, at[2], at[3])
                /\ ItemCovers("args", got[4], F, at[3], at[4])
                /\ ItemCovers(")", got[5], F, at[4], at[5])
                /\ ItemCovers("program_type", got[6], F, at[5], at[6])
                /\ ItemCovers("=", got[7], F, at[6], at[7])
                /\ ItemCovers("expr", got[8], F, at[7], at[8])
<1>1. PICK at : /\ Behind(8, at, i, j)
                /\ \A k \in 1 .. 8 : ItemCovers(Needs["fn"][k], got[k], F, at[k - 1], at[k])
  BY DEF ItemsCover
<1>2. at[0] = i /\ at[8] = j  BY <1>1 DEF Behind
<1>3. ItemCovers("fn", got[1], F, at[0], at[1])
  <2>1. 1 \in 1 .. 8 /\ 1 - 1 = 0 /\ Needs["fn"][1] = "fn"  BY NeedsAre
  <2> QED  BY <1>1, <2>1
<1>4. ItemCovers("IDENTIFIER", got[2], F, at[1], at[2])
  <2>1. 2 \in 1 .. 8 /\ 2 - 1 = 1 /\ Needs["fn"][2] = "IDENTIFIER"  BY NeedsAre
  <2> QED  BY <1>1, <2>1
<1>5. ItemCovers("(", got[3], F, at[2], at[3])
  <2>1. 3 \in 1 .. 8 /\ 3 - 1 = 2 /\ Needs["fn"][3] = "("  BY NeedsAre
  <2> QED  BY <1>1, <2>1
<1>6. ItemCovers("args", got[4], F, at[3], at[4])
  <2>1. 4 \in 1 .. 8 /\ 4 - 1 = 3 /\ Needs["fn"][4] = "args"  BY NeedsAre
  <2> QED  BY <1>1, <2>1
<1>7. ItemCovers(")", got[5], F, at[4], at[5])
  <2>1. 5 \in 1 .. 8 /\ 5 - 1 = 4 /\ Needs["fn"][5] = ")"  BY NeedsAre
  <2> QED  BY <1>1, <2>1
<1>8. ItemCovers("program_type", got[6], F, at[5], at[6])
  <2>1. 6 \in 1 .. 8 /\ 6 - 1 = 5 /\ Needs["fn"][6] = "program_type"  BY NeedsAre
  <2> QED  BY <1>1, <2>1
<1>9. ItemCovers("=", got[7], F, at[6], at[7])
  <2>1. 7 \in 1 .. 8 /\ 7 - 1 = 6 /\ Needs["fn"][7] = "="  BY NeedsAre
  <2> QED  BY <1>1, <2>1
<1>10. ItemCovers("expr", got[8], F, at[7], at[8])
  <2>1. 8 \in 1 .. 8 /\ 8 - 1 = 7 /\ Needs["fn"][8] = "expr"  BY NeedsAre
  <2> QED  BY <1>1, <2>1
<1> QED  BY <1>2, <1>3, <1>4, <1>5, <1>6, <1>7, <1>8, <1>9, <1>10

LEMMA AlternativeMeant ==
  ASSUME Input, NEW fn \in Alternatives, NEW got, Len(got) = Len(Needs[fn]), NEW F, NEW i, NEW j,
         ItemsCover(Needs[fn], got, F, i, j)
  PROVE  Meant(Expression(fn, got), F, i, j)
<1>1. CASE fn = "let"
  <2>1. PICK at : /\ at[0] = i /\ at[6] = j
                  /\ ItemCovers("let", got[1], F, at[0], at[1])
                  /\ ItemCovers("IDENTIFIER", got[2], F, at[1], at[2])
                  /\ ItemCovers(":", got[3], F, at[2], at[3])
                  /\ ItemCovers("program_type", got[4], F, at[3], at[4])
                  /\ ItemCovers("=", got[5], F, at[4], at[5])
                  /\ ItemCovers("binary_expr", got[6], F, at[5], at[6])
    BY <1>1, NeedsLen, LetItems
  <2>2. i \in Nat /\ at[1] = i + 1 /\ IsWord(i + 1, "let")  BY <2>1, WordItem DEF NeededWords
  <2>3. /\ at[2] = i + 2 /\ got[2] = i + 2 /\ IsWord(i + 2, "IDENTIFIER") /\ i + 2 \notin F
    BY <2>1, <2>2, WordItem DEF NeededWords
  <2>4. at[3] = i + 3 /\ IsWord(i + 3, ":")  BY <2>1, <2>2, <2>3, WordItem DEF NeededWords
  <2>5. at[4] = i + 4 /\ got[4] \in ProgramTypes /\ IsWord(i + 4, got[4])
    BY <2>1, <2>2, <2>4, TypeItem
  <2>6. at[5] = i + 5 /\ IsWord(i + 5, "=")  BY <2>1, <2>2, <2>5, WordItem DEF NeededWords
  <2>7. Meant(got[6], F, i + 5, j)  BY <2>1, <2>6, TreeItem
  <2>8. Meant(LetE(i + 2, got[4], got[6]), F, i, j)
    BY <2>2, <2>3, <2>4, <2>5, <2>6, <2>7, LetMeant
  <2> QED  BY <1>1, <2>3, <2>8, ExpressionIs
<1>2. CASE fn = "if"
  <2>1. PICK at : /\ at[0] = i /\ at[5] = j
                  /\ ItemCovers("if", got[1], F, at[0], at[1])
                  /\ ItemCovers("(", got[2], F, at[1], at[2])
                  /\ ItemCovers("binary_expr", got[3], F, at[2], at[3])
                  /\ ItemCovers(")", got[4], F, at[3], at[4])
                  /\ ItemCovers("expr", got[5], F, at[4], at[5])
    BY <1>2, NeedsLen, IfItems
  <2>2. i \in Nat /\ at[1] = i + 1 /\ IsWord(i + 1, "if")  BY <2>1, WordItem DEF NeededWords
  <2>3. at[2] = i + 2 /\ IsWord(i + 2, "(")  BY <2>1, <2>2, WordItem DEF NeededWords
  <2>4. at[3] \in Nat /\ Meant(got[3], F, i + 2, at[3])  BY <2>1, <2>3, TreeItem
  <2>5. at[4] = at[3] + 1 /\ IsWord(at[3] + 1, ")")  BY <2>1, <2>4, WordItem DEF NeededWords
  <2>6. /\ at[5] \in Nat /\ Meant(got[5], F, (at[3] + 1) + 1, at[5] - 1)
        /\ IsWord((at[3] + 1) + 1, Opening) /\ IsWord(at[5], Closing)
    BY <2>1, <2>5, BlockItem
  <2>7. (at[3] + 1) + 1 = at[3] + 2 /\ (at[5] - 1) + 1 = at[5]
    <3>1. at[3] \in Nat /\ at[5] \in Nat  BY <2>4, <2>6
    <3> QED  BY <3>1
  <2>8. Meant(If(got[3], got[5]), F, i, (at[5] - 1) + 1)
    BY <2>2, <2>3, <2>4, <2>5, <2>6, <2>7, IfMeant
  <2> QED  BY <1>2, <2>1, <2>7, <2>8, ExpressionIs
<1>3. CASE fn = "if_else"
  <2>1. PICK at : /\ at[0] = i /\ at[7] = j
                  /\ ItemCovers("if", got[1], F, at[0], at[1])
                  /\ ItemCovers("(", got[2], F, at[1], at[2])
                  /\ ItemCovers("binary_expr", got[3], F, at[2], at[3])
                  /\ ItemCovers(")", got[4], F, at[3], at[4])
                  /\ ItemCovers("expr", got[5], F, at[4], at[5])
                  /\ ItemCovers("else", got[6], F, at[5], at[6])
                  /\ ItemCovers("expr", got[7], F, at[6], at[7])
    BY <1>3, NeedsLen, IfElseItems
  <2>2. i \in Nat /\ at[1] = i + 1 /\ IsWord(i + 1, "if")  BY <2>1, WordItem DEF NeededWords
  <2>3. at[2] = i + 2 /\ IsWord(i + 2, "(")  BY <2>1, <2>2, WordItem DEF NeededWords
  <2>4. at[3] \in Nat /\ Meant(got[3], F, i + 2, at[3])  BY <2>1, <2>3, TreeItem
  <2>5. at[4] = at[3] + 1 /\ IsWord(at[3] + 1, ")")  BY <2>1, <2>4, WordItem DEF NeededWords
  <2>6. /\ at[5] \in Nat /\ Meant(got[5], F, (at[3] + 1) + 1, at[5] - 1)
        /\ IsWord((at[3] + 1) + 1, Opening) /\ IsWord(at[5], Closing)
    BY <2>1, <2>5, BlockItem
  <2>7. at[6] = at[5] + 1 /\ IsWord(at[5] + 1, "else")  BY <2>1, <2>6, WordItem DEF NeededWords
  <2>8. /\ at[7] \in Nat /\ Meant(got[7], F, (at[5] + 1) + 1, at[7] - 1)
        /\ IsWord((at[5] + 1) + 1, Opening) /\ IsWord(at[7], Closing)
    BY <2>1, <2>7, BlockItem
  <2> DEFINE m == at[5] - 1
             q == at[7] - 1
  <2>9. /\ (at[3] + 1) + 1 = at[3] + 2 /\ m + 1 = at[5] /\ m + 2 = at[5] + 1
        /\ m + 3 = (at[5] + 1) + 1 /\ q + 1 = at[7]
    <3>1. at[3] \in Nat /\ at[5] \in Nat /\ at[7] \in Nat  BY <2>4, <2>6, <2>8
    <3> QED  BY <3>1
  <2>10. Meant(got[5], F, at[3] + 2, m) /\ Meant(got[7], F, m + 3, q)
    <3>1. Meant(got[5], F, at[3] + 2, m)  BY <2>6, <2>9
    <3>2. Meant(got[7], F, m + 3, q)  BY <2>8, <2>9
    <3> QED  BY <3>1, <3>2
  <2>11. /\ IsWord(at[3] + 2, Opening) /\ IsWord(m + 1, Closing) /\ IsWord(m + 2, "else")
         /\ IsWord(m + 3, Opening) /\ IsWord(q + 1, Closing)
    BY <2>6, <2>7, <2>8, <2>9
  <2> HIDE DEF m, q
  <2>12. Meant(IfElseE(got[3], got[5], got[7]), F, i, q + 1)
    BY <2>2, <2>3, <2>4, <2>5, <2>10, <2>11, IfElseMeant
  <2> QED  BY <1>3, <2>1, <2>9, <2>12, ExpressionIs
<1>4. CASE fn = "deref"
  <2>1. PICK at : /\ at[0] = i /\ at[2] = j
                  /\ ItemCovers("*", got[1], F, at[0], at[1])
                  /\ ItemCovers("binary_expr", got[2], F, at[1], at[2])
    BY <1>4, NeedsLen, DerefItems
  <2>2. i \in Nat /\ at[1] = i + 1 /\ IsWord(i + 1, "*")  BY <2>1, WordItem DEF NeededWords
  <2>3. Meant(got[2], F, i + 1, j)  BY <2>1, <2>2, TreeItem
  <2>4. Meant(Ref(got[2]), F, i, j)  BY <2>2, <2>3, RefMeant
  <2>5. got[2].tag = "ASSIGN_E" => Meant(Out(Var(got[2].var), got[2].e), F, i, j)
    BY <2>2, <2>3, StarMeant
  <2> QED  BY <1>4, <2>4, <2>5, ExpressionIs
<1>5. CASE fn = "deref_assign"
  <2>1. PICK at : /\ at[0] = i /\ at[4] = j
                  /\ ItemCovers("*", got[1], F, at[0], at[1])
                  /\ ItemCovers("binary_expr", got[2], F, at[1], at[2])
                  /\ ItemCovers("=", got[3], F, at[2], at[3])
                  /\ ItemCovers("binary_expr", got[4], F, at[3], at[4])
    BY <1>5, NeedsLen, DerefAssignItems
  <2>2. i \in Nat /\ at[1] = i + 1 /\ IsWord(i + 1, "*")  BY <2>1, WordItem DEF NeededWords
  <2>3. Meant(got[2], F, i + 1, at[2])  BY <2>1, <2>2, TreeItem
  <2>4. at[3] = at[2] + 1 /\ IsWord(at[2] + 1, "=")  BY <2>1, WordItem DEF NeededWords
  <2>5. Meant(got[4], F, at[2] + 1, j)  BY <2>1, <2>4, TreeItem
  <2>6. Meant(Out(got[2], got[4]), F, i, j)  BY <2>2, <2>3, <2>4, <2>5, OutMeant
  <2> QED  BY <1>5, <2>6, ExpressionIs
<1>6. CASE fn = "return"
  <2>1. PICK at : /\ at[0] = i /\ at[2] = j
                  /\ ItemCovers("return", got[1], F, at[0], at[1])
                  /\ ItemCovers("binary_expr", got[2], F, at[1], at[2])
    BY <1>6, NeedsLen, ReturnItems
  <2>2. i \in Nat /\ at[1] = i + 1 /\ IsWord(i + 1, "return")  BY <2>1, WordItem DEF NeededWords
  <2>3. Meant(got[2], F, i + 1, j)  BY <2>1, <2>2, TreeItem
  <2>4. Meant(Ret(got[2]), F, i, j)  BY <2>2, <2>3, RetMeant
  <2> QED  BY <1>6, <2>4, ExpressionIs
<1>7. CASE fn = "var"
  <2>1. PICK at : /\ at[0] = i /\ at[1] = j
                  /\ ItemCovers("IDENTIFIER", got[1], F, at[0], at[1])
    BY <1>7, NeedsLen, VarItems
  <2>2. /\ i \in Nat /\ j = i + 1 /\ got[1] = i + 1 /\ IsWord(i + 1, "IDENTIFIER")
        /\ i + 1 \notin F
    BY <2>1, WordItem DEF NeededWords
  <2>3. Meant(Var(i + 1), F, i, i + 1)  BY <2>2, VarMeant
  <2> QED  BY <1>7, <2>2, <2>3, ExpressionIs
<1>8. CASE fn = "func_call"
  <2>1. PICK at : /\ at[0] = i /\ at[3] = j
                  /\ ItemCovers("IDENTIFIER", got[1], F, at[0], at[1])
                  /\ ItemCovers("(", got[2], F, at[1], at[2])
                  /\ ItemCovers(")", got[3], F, at[2], at[3])
    BY <1>8, NeedsLen, FuncCallItems
  <2>2. /\ i \in Nat /\ at[1] = i + 1 /\ got[1] = i + 1 /\ IsWord(i + 1, "IDENTIFIER")
        /\ i + 1 \notin F
    BY <2>1, WordItem DEF NeededWords
  <2>3. at[2] = i + 2 /\ IsWord(i + 2, "(")  BY <2>1, <2>2, WordItem DEF NeededWords
  <2>4. j = i + 3 /\ IsWord(i + 3, ")")  BY <2>1, <2>2, <2>3, WordItem DEF NeededWords
  <2>5. Meant(Call(i + 1), F, i, i + 3)  BY <2>2, <2>3, <2>4, CallMeant
  <2> QED  BY <1>8, <2>2, <2>4, <2>5, ExpressionIs
<1>9. CASE fn = "var_assign"
  <2>1. PICK at : /\ at[0] = i /\ at[3] = j
                  /\ ItemCovers("IDENTIFIER", got[1], F, at[0], at[1])
                  /\ ItemCovers("=", got[2], F, at[1], at[2])
                  /\ ItemCovers("binary_expr", got[3], F, at[2], at[3])
    BY <1>9, NeedsLen, VarAssignItems
  <2>2. /\ i \in Nat /\ at[1] = i + 1 /\ got[1] = i + 1 /\ IsWord(i + 1, "IDENTIFIER")
        /\ i + 1 \notin F
    BY <2>1, WordItem DEF NeededWords
  <2>3. at[2] = i + 2 /\ IsWord(i + 2, "=")  BY <2>1, <2>2, WordItem DEF NeededWords
  <2>4. Meant(got[3], F, i + 2, j)  BY <2>1, <2>3, TreeItem
  <2>5. Meant(Set(i + 1, got[3]), F, i, j)  BY <2>2, <2>3, <2>4, SetMeant
  <2> QED  BY <1>9, <2>2, <2>5, ExpressionIs
<1> QED  BY <1>1, <1>2, <1>3, <1>4, <1>5, <1>6, <1>7, <1>8, <1>9 DEF Alternatives

-----------------------------------------------------------------------------
(* Parameters.                                                             *)
NamesOf(args) == {args[n].name : n \in DOMAIN args}

LEMMA ArgsAre ==
  ASSUME NEW args, NEW F, NEW i \in Nat, NEW j, ArgsCover(args, F, i, j)
  PROVE  /\ Len(args) \in Nat /\ DOMAIN args = 1 .. Len(args)
         /\ \A k \in 1 .. Len(args) :
              ArgAt(args[k], F, i + 4 * (k - 1)) /\ args[k].name \in NamesOf(args)
         /\ j \in Nat /\ i <= j
         /\ \A x \in NamesOf(args) : x \in i + 1 .. j /\ IsWord(x, "IDENTIFIER") /\ x \notin F
<1> DEFINE n == Len(args)
<1>1. n \in Nat /\ DOMAIN args = 1 .. n
  BY LenProperties DEF ArgsCover, ArgsRead, IsSeq
<1>2. \A k \in 1 .. n : ArgAt(args[k], F, i + 4 * (k - 1)) /\ args[k].name \in NamesOf(args)
  BY <1>1 DEF ArgsCover, ArgsRead, NamesOf
<1> HIDE DEF n
<1>3. j = i + 4 * n \/ (n > 0 /\ j = i + 4 * n - 1)
  BY DEF ArgsCover, n
<1>4. j \in Nat /\ i <= j  BY <1>1, <1>3
<1>5. ASSUME NEW x \in NamesOf(args)
      PROVE  x \in i + 1 .. j /\ IsWord(x, "IDENTIFIER") /\ x \notin F
  <2>1. PICK k \in 1 .. n : x = args[k].name  BY <1>1 DEF NamesOf
  <2>2. /\ x = i + 4 * (k - 1) + 1 /\ IsWord(i + 4 * (k - 1) + 1, "IDENTIFIER")
        /\ i + 4 * (k - 1) + 1 \notin F
    BY <1>2, <2>1 DEF ArgAt
  <2>3. i + 4 * (k - 1) + 1 \in i + 1 .. j  BY <1>1, <1>3
  <2> QED  BY <2>2, <2>3
<1> QED  BY <1>1, <1>2, <1>4, <1>5 DEF n

LEMMA ArgCovers ==
  ASSUME Input, NEW a, NEW F, NEW p \in Nat, ArgAt(a, F, p), NEW G, p + 1 \in G
  PROVE  Covers(<<>>, <<TokenAt(a.name - 1), Word(":"), Word(a.type)>>, G, p, p + 3)
<1>0. /\ p + 1 \in Places /\ p + 2 \in Places /\ p + 3 \in Places
      /\ (p + 1) - 1 = p /\ p <= p + 3 /\ p + 3 \in Nat
  BY DEF Places
<1>1. /\ a.name = p + 1 /\ IsWord(p + 1, "IDENTIFIER") /\ IsWord(p + 2, ":")
      /\ a.type \in ProgramTypes /\ IsWord(p + 3, a.type)
  BY DEF ArgAt
<1>2. ":" \notin WithText /\ "IDENTIFIER" \in WithText /\ a.type \notin WithText
  BY <1>1 DEF WithText, ProgramTypes
<1>3. TokenAt((p + 1) - 1) \in Token /\ tokens[p + 1] = TokenAt((p + 1) - 1)
  BY <1>0, <1>1, <1>2, NameOf
<1>4. Word(":") \in Token /\ tokens[p + 2] = Word(":") /\ ~HasText(p + 2)
  BY <1>0, <1>1, <1>2, WordOf
<1>5. Word(a.type) \in Token /\ tokens[p + 3] = Word(a.type) /\ ~HasText(p + 3)
  BY <1>0, <1>1, <1>2, WordOf
<1>6. Owns(<<>>, G, p, p + 3)
  <2>1. \A x \in p + 1 .. p + 3 : x = p + 1 \/ x = p + 2 \/ x = p + 3  OBVIOUS
  <2> QED  BY <1>0, <1>4, <1>5, <2>1, OwnsNone
<1>7. Reads(<<TokenAt(a.name - 1), Word(":"), Word(a.type)>>, p, p + 3)
  BY <1>1, <1>3, <1>4, <1>5, ReadsThree
<1> QED  BY <1>0, <1>1, <1>6, <1>7 DEF Covers, IsWord

LEMMA ArgsMeant ==
  ASSUME Input, NEW args, NEW F, NEW i \in Nat, NEW j, ArgsCover(args, F, i, j),
         i <= Len(tokens), j <= Len(tokens), IsWord(j + 1, ")"),
         NEW G, NamesOf(args) \subseteq G
  PROVE  Covers(<<>>, fprintf_args(args), G, i, j)
<1> DEFINE n == Len(args)
           Triple(k) == <<TokenAt(args[k].name - 1), Word(":"), Word(args[k].type)>>
           p == [k \in 1 .. n |-> Triple(k) \o (IF k = n THEN <<>> ELSE <<Word(Comma)>>)]
           s == [k \in 1 .. n |-> <<>>]
           at == [k \in 0 .. n |-> IF k = n THEN j ELSE i + 4 * k]
<1>1. /\ n \in Nat /\ j \in Nat /\ i <= j
      /\ \A k \in 1 .. n : ArgAt(args[k], F, i + 4 * (k - 1)) /\ args[k].name \in G
  BY ArgsAre
<1>2. \/ Commas(n, i) /\ j = i + 4 * n
      \/ n > 0 /\ Commas(n - 1, i) /\ j = i + 4 * n - 1
  BY DEF ArgsCover
<1>3. fprintf_args(args) = Joined(p)
  BY DEF fprintf_args, Comma
<1> HIDE DEF n
<1>4. ASSUME NEW k \in 1 .. n
      PROVE  Covers(<<>>, Triple(k), G, i + 4 * (k - 1), i + 4 * (k - 1) + 3)
  <2>1. ArgAt(args[k], F, i + 4 * (k - 1)) /\ args[k].name \in G  BY <1>1
  <2>2. i + 4 * (k - 1) \in Nat  BY <1>1
  <2>3. i + 4 * (k - 1) + 1 \in G  BY <2>1 DEF ArgAt
  <2> QED  BY <2>1, <2>2, <2>3, ArgCovers
<1>5. \A k \in 1 .. n : s[k] = <<>>  OBVIOUS
<1>6. \A k \in 1 .. n : p[k] = Triple(k) \o (IF k = n THEN <<>> ELSE <<Word(Comma)>>)  OBVIOUS
<1>7. Len(s) = n /\ Len(p) = n  BY <1>1
<1>8. /\ at[0] = i /\ at[n] = j
      /\ \A k \in 1 .. n : at[k - 1] = i + 4 * (k - 1)
      /\ \A k \in 1 .. n : k # n => at[k] = i + 4 * k
  <2>1. 0 \in 0 .. n /\ n \in 0 .. n /\ (n = 0 => j = i)  BY <1>1, <1>2
  <2>2. at[0] = i /\ at[n] = j  BY <2>1
  <2>3. \A k \in 1 .. n : k - 1 \in 0 .. n /\ k - 1 # n /\ k \in 0 .. n  BY <1>1
  <2> QED  BY <2>2, <2>3
<1> HIDE DEF s, p, at, Triple
<1>9. ASSUME NEW k \in 1 .. n PROVE Covers(s[k], p[k], G, at[k - 1], at[k])
  <2> DEFINE a == i + 4 * (k - 1)
  <2>1. /\ a \in Nat /\ a + 3 \in Nat /\ (a + 3) + 1 = a + 4 /\ a + 4 = i + 4 * k
        /\ Covers(<<>>, Triple(k), G, a, a + 3) /\ at[k - 1] = a
    BY <1>1, <1>4, <1>8
  <2> HIDE DEF a
  <2>2. CASE k # n
    <3>1. at[k] = a + 4  BY <1>8, <2>1, <2>2
    <3>2. IsWord(a + 4, Comma)
      <4>1. k \in 1 .. n - 1  BY <1>1, <2>2
      <4> QED  BY <1>2, <2>1, <4>1 DEF Commas
    <3>3. Covers(<<>>, <<Word(Comma)>>, G, a + 3, a + 4)
      BY <2>1, <3>2, Marks, CoversWord DEF IsWord
    <3>4. Covers(<<>>, Triple(k) \o <<Word(Comma)>>, G, a, a + 4)  BY <2>1, <3>3, CoversBehind
    <3> QED  BY <1>5, <1>6, <2>1, <2>2, <3>1, <3>4
  <2>3. CASE k = n /\ j = i + 4 * n - 1
    <3>1. j = a + 3 /\ at[k] = j  BY <1>1, <1>8, <2>1, <2>3
    <3>2. Covers(<<>>, <<>>, G, j, j)  BY <1>1, CoversNothing
    <3>3. Covers(<<>>, Triple(k) \o <<>>, G, a, j)  BY <2>1, <3>1, <3>2, CoversBehind
    <3> QED  BY <1>5, <1>6, <2>1, <2>3, <3>1, <3>3
  <2>4. CASE k = n /\ Commas(n, i) /\ j = i + 4 * n
    <3>1. j = a + 4 /\ at[k] = j  BY <1>8, <2>1, <2>4
    <3>2. IsWord(j, Comma)
      <4>1. n \in 1 .. n  BY <1>1, <2>4
      <4> QED  BY <2>4, <4>1 DEF Commas
    <3>3. ~Faithful
      <4>1. j \in 1 .. Len(tokens) - 1
        <5>1. Len(tokens) \in Nat  BY TokenIs
        <5> QED  BY <1>1, <2>1, <3>1, <5>1 DEF IsWord
      <4>2. SpareComma
        <5>1. tokens[j].type = Comma /\ tokens[j + 1].type = ")"  BY <3>2 DEF IsWord
        <5>2. tokens[j].type = ","  BY <5>1 DEF Comma
        <5> QED  BY <4>1, <5>1, <5>2, Zenon DEF SpareComma
      <4> QED  BY <4>2 DEF Faithful
    <3>4. Covers(<<>>, <<Word(Comma)>>, G, a + 3, a + 4)
      BY <2>1, <3>1, <3>2, Marks, CoversWord DEF IsWord
    <3>5. Covers(<<>>, Triple(k) \o <<Word(Comma)>>, G, a, j)
      BY <2>1, <3>1, <3>4, CoversBehind
    <3>6. Covers(<<>>, p[k], G, a, j)  BY <3>3, <3>5 DEF Covers
    <3> QED  BY <1>5, <2>1, <3>1, <3>6
  <2> QED  BY <1>2, <2>2, <2>3, <2>4
<1>10. Covers(Joined(s), Joined(p), G, at[0], at[n])
  <2>1. at[0] \in Nat /\ at[0] <= Len(tokens)  BY <1>8
  <2> QED  BY <1>1, <1>7, <1>9, <2>1, JoinedCovers
<1>11. Joined(s) = <<>>
  <2>1. \A k \in 1 .. Len(s) : s[k] \in Seq({})  BY <1>5, <1>7, EmptySeq
  <2>2. Joined(s) \in Seq({})  BY <1>1, <1>7, <2>1, JoinedIn
  <2> DEFINE q == Joined(s)
  <2> HIDE DEF q
  <2>3. q \in Seq({})  BY <2>2 DEF q
  <2>4. Len(q) \in Nat /\ \A k \in 1 .. Len(q) : q[k] \in {}  BY <2>3, ElementOfSeq, LenProperties
  <2>5. Len(q) = 0
    <3>1. Len(q) # 0 => 1 \in 1 .. Len(q)  BY <2>4
    <3> QED  BY <2>4, <3>1
  <2>6. q = <<>>  BY <2>3, <2>5, EmptySeq
  <2> QED  BY <2>6 DEF q
<1> QED  BY <1>3, <1>8, <1>10, <1>11

-----------------------------------------------------------------------------
(* A function: the texts are its own but those of its parameters.          *)
FunctionCovers(f, F, i, j) ==
  /\ i \in Nat /\ j \in Nat /\ i < j /\ j <= Len(tokens)
  /\ f.name \in i + 1 .. j /\ IsWord(f.name, "IDENTIFIER")
  /\ \A x \in NamesOf(f.args) : x \in i + 1 .. j /\ IsWord(x, "IDENTIFIER") /\ x \notin F
  /\ f.expr \in Trees[Size]
  /\ Covers(<<f.name>> \o expression_delete[f.expr], fprintf_function(f), F \union NamesOf(f.args),
            i, j)

LEMMA PrintOfFunction ==
  ASSUME NEW f
  PROVE  fprintf_function(f) =
           <<Word("fn"), TokenAt(f.name - 1), Word("(")>> \o fprintf_args(f.args)
             \o <<Word(")"), Word(f.type), Word("="), Word(Opening)>>
             \o fprintf_expression[f.expr] \o <<Word(Closing), Word(Semicolon)>>
BY DEF fprintf_function, Opening, Closing, Semicolon

LEMMA FunctionMeant ==
  ASSUME Input, NEW got, Len(got) = 8, NEW F, NEW i, NEW j, ItemsCover(Needs["fn"], got, F, i, j),
         IsWord(j + 1, Semicolon)
  PROVE  FunctionCovers(Function(got), F, i, j + 1)
<1>1. PICK at : /\ at[0] = i /\ at[8] = j
                /\ ItemCovers("fn", got[1], F, at[0], at[1])
                /\ ItemCovers("IDENTIFIER", got[2], F, at[1], at[2])
                /\ ItemCovers("(", got[3], F, at[2], at[3])
                /\ ItemCovers("args", got[4], F, at[3], at[4])
                /\ ItemCovers(")", got[5], F, at[4], at[5])
                /\ ItemCovers("program_type", got[6], F, at[5], at[6])
                /\ ItemCovers("=", got[7], F, at[6], at[7])
                /\ ItemCovers("expr", got[8], F, at[7], at[8])
  BY FnItems
<1> DEFINE a == at[4]
           f == Function(got)
           G == F \union NamesOf(got[4])
<1>2. i \in Nat /\ at[1] = i + 1 /\ IsWord(i + 1, "fn")  BY <1>1, WordItem DEF NeededWords
<1>3. /\ at[2] = i + 2 /\ got[2] = i + 2 /\ IsWord(i + 2, "IDENTIFIER") /\ i + 2 \notin F
  BY <1>1, <1>2, WordItem DEF NeededWords
<1>4. at[3] = i + 3 /\ IsWord(i + 3, "(")  BY <1>1, <1>2, <1>3, WordItem DEF NeededWords
<1>5. ArgsCover(got[4], F, i + 3, a) /\ a \in Nat /\ i + 3 <= a /\ a <= Len(tokens)
  BY <1>1, <1>4 DEF ItemCovers
<1>6. at[5] = a + 1 /\ IsWord(a + 1, ")")
  <2>1. at[5] = at[4] + 1 /\ IsWord(at[5], ")")  BY <1>1, WordItem DEF NeededWords
  <2> QED  BY <2>1
<1>7. at[6] = a + 2 /\ got[6] \in ProgramTypes /\ IsWord(a + 2, got[6])
  <2>1. at[6] = at[5] + 1 /\ got[6] \in ProgramTypes /\ IsWord(at[6], got[6])  BY <1>1, TypeItem
  <2>2. (a + 1) + 1 = a + 2  BY <1>5
  <2> QED  BY <1>6, <2>1, <2>2
<1>8. at[7] = a + 3 /\ IsWord(a + 3, "=")
  <2>1. at[7] = at[6] + 1 /\ IsWord(at[7], "=")  BY <1>1, WordItem DEF NeededWords
  <2>2. (a + 2) + 1 = a + 3  BY <1>5
  <2> QED  BY <1>7, <2>1, <2>2
<1>9. /\ j \in Nat /\ Meant(got[8], F, a + 4, j - 1)
      /\ IsWord(a + 4, Opening) /\ IsWord(j, Closing)
  <2>1. /\ at[8] \in Nat /\ Meant(got[8], F, at[7] + 1, at[8] - 1)
        /\ IsWord(at[7] + 1, Opening) /\ IsWord(at[8], Closing)
    BY <1>1, BlockItem
  <2>2. (a + 3) + 1 = a + 4  BY <1>5
  <2> QED  BY <1>1, <1>8, <2>1, <2>2
<1> HIDE DEF a
<1>10. f.name = i + 2 /\ f.args = got[4] /\ f.type = got[6] /\ f.expr = got[8]
  BY <1>3 DEF Function
<1> HIDE DEF f
<1>11. /\ i + 1 \in Places /\ i + 2 \in Places /\ i + 3 \in Places /\ i + 3 \in Nat /\ i <= i + 3
       /\ a + 1 \in Places /\ a + 2 \in Places /\ a + 3 \in Places /\ a + 4 \in Places
       /\ a + 4 \in Nat /\ a <= a + 4 /\ (i + 2) - 1 = i + 1
       /\ i + 3 <= Len(tokens) /\ a + 4 <= Len(tokens) /\ j + 1 <= Len(tokens) /\ j + 1 \in Nat
       /\ a + 4 < j - 1 /\ j - 1 \in Nat /\ (j - 1) + 1 = j /\ (j - 1) + 2 = j + 1
  <2>1. a + 4 < j - 1  BY <1>9 DEF Meant
  <2>2. i + 3 <= Len(tokens) /\ a + 4 <= Len(tokens) /\ j + 1 <= Len(tokens)
    BY <1>4, <1>9 DEF IsWord
  <2> QED  BY <1>2, <1>5, <1>9, <2>1, <2>2 DEF Places
<1>12. \A x \in NamesOf(got[4]) :
         x \in (i + 3) + 1 .. a /\ IsWord(x, "IDENTIFIER") /\ x \notin F
  <2> DEFINE b == i + 3
  <2>1. ArgsCover(got[4], F, b, a) /\ b \in Nat  BY <1>5, <1>11
  <2> HIDE DEF b
  <2>2. \A x \in NamesOf(got[4]) : x \in b + 1 .. a /\ IsWord(x, "IDENTIFIER") /\ x \notin F
    BY <2>1, ArgsAre
  <2> QED  BY <2>2 DEF b
<1>13. i + 2 \notin G
  <2>1. i + 2 \notin (i + 3) + 1 .. a  BY <1>2
  <2> QED  BY <1>3, <1>12, <2>1
<1> DEFINE A == <<Word("fn"), TokenAt(i + 1), Word("(")>>
           B == fprintf_args(got[4])
           C == <<Word(")"), Word(got[6]), Word("="), Word(Opening)>>
           D == expression_delete[got[8]]
           P == fprintf_expression[got[8]]
           E == <<Word(Closing), Word(Semicolon)>>
<1> HIDE DEF G
<1>14. Covers(<<i + 2>>, A, G, i, i + 3)
  <2>1. "fn" \notin WithText /\ "(" \notin WithText /\ "IDENTIFIER" \in WithText  BY DEF WithText
  <2>2. Word("fn") \in Token /\ tokens[i + 1] = Word("fn") /\ ~HasText(i + 1)
    BY <1>2, <1>11, <2>1, WordOf
  <2>3. TokenAt((i + 2) - 1) \in Token /\ tokens[i + 2] = TokenAt((i + 2) - 1) /\ HasText(i + 2)
    BY <1>3, <1>11, <2>1, NameOf
  <2>4. Word("(") \in Token /\ tokens[i + 3] = Word("(") /\ ~HasText(i + 3)
    BY <1>4, <1>11, <2>1, WordOf
  <2>5. Owns(<<i + 2>>, G, i, i + 3)
    <3>1. \A x \in i + 1 .. i + 3 : x # i + 2 => x = i + 1 \/ x = i + 3  BY <1>2
    <3>2. i + 2 \in i + 1 .. i + 3  BY <1>2
    <3> QED  BY <1>2, <1>11, <1>13, <2>2, <2>3, <2>4, <3>1, <3>2, OwnsOne
  <2>6. Reads(A, i, i + 3)  BY <1>2, <1>11, <2>2, <2>3, <2>4, ReadsThree
  <2> HIDE DEF A
  <2> QED  BY <1>2, <1>11, <2>5, <2>6 DEF Covers
<1>15. Covers(<<>>, B, G, i + 3, a)
  BY <1>5, <1>6, <1>11, ArgsMeant DEF G
<1>16. Covers(<<>>, C, G, a, a + 4)
  <2>1. ")" \notin WithText /\ "=" \notin WithText /\ got[6] \notin WithText
    BY <1>7 DEF WithText, ProgramTypes
  <2>2. Word(")") \in Token /\ tokens[a + 1] = Word(")") /\ ~HasText(a + 1)
    BY <1>6, <1>11, <2>1, WordOf
  <2>3. Word(got[6]) \in Token /\ tokens[a + 2] = Word(got[6]) /\ ~HasText(a + 2)
    BY <1>7, <1>11, <2>1, WordOf
  <2>4. Word("=") \in Token /\ tokens[a + 3] = Word("=") /\ ~HasText(a + 3)
    BY <1>8, <1>11, <2>1, WordOf
  <2>5. Word(Opening) \in Token /\ tokens[a + 4] = Word(Opening) /\ ~HasText(a + 4)
    BY <1>9, <1>11, Marks, WordOf
  <2>6. Owns(<<>>, G, a, a + 4)
    <3>1. \A x \in a + 1 .. a + 4 : x = a + 1 \/ x = a + 2 \/ x = a + 3 \/ x = a + 4
      BY <1>5
    <3> QED  BY <1>5, <1>11, <2>2, <2>3, <2>4, <2>5, <3>1, OwnsNone
  <2>7. Reads(C, a, a + 4)  BY <1>5, <2>2, <2>3, <2>4, <2>5, ReadsFour
  <2> HIDE DEF C
  <2> QED  BY <1>5, <1>11, <2>6, <2>7 DEF Covers
<1>17. Covers(D, P, G, a + 4, j - 1)
  <2>1. \A x \in (a + 4) + 1 .. j - 1 : x \in F <=> x \in G
    <3> SUFFICES ASSUME NEW x \in (a + 4) + 1 .. j - 1 PROVE x \notin NamesOf(got[4])
      BY DEF G
    <3>1. x \notin (i + 3) + 1 .. a  BY <1>5, <1>11
    <3> QED  BY <1>12, <3>1
  <2>2. Meant(got[8], G, a + 4, j - 1)  BY <1>9, <2>1, MeantOther
  <2> QED  BY <2>2, PartsMeant
<1>18. Covers(<<>>, E, G, j - 1, j + 1)
  BY <1>9, <1>11, Marks, CoversTwo
<1> HIDE DEF A, B, C, D, P, E
<1>19. Covers(<<i + 2>>, A \o B, G, i, a)  BY <1>14, <1>15, CoversBehind
<1>20. Covers(<<i + 2>>, A \o B \o C, G, i, a + 4)  BY <1>16, <1>19, CoversBehind
<1>21. Covers(<<i + 2>> \o D, A \o B \o C \o P, G, i, j - 1)  BY <1>17, <1>20, CoversCat
<1>22. Covers(<<i + 2>> \o D, A \o B \o C \o P \o E, G, i, j + 1)
  BY <1>18, <1>21, CoversBehind
<1>23. fprintf_function(f) = A \o B \o C \o P \o E
  <2>1. fprintf_function(f) =
           <<Word("fn"), TokenAt(f.name - 1), Word("(")>> \o fprintf_args(f.args)
             \o <<Word(")"), Word(f.type), Word("="), Word(Opening)>>
             \o fprintf_expression[f.expr] \o <<Word(Closing), Word(Semicolon)>>
    BY PrintOfFunction
  <2> QED  BY <1>10, <1>11, <2>1 DEF A, B, C, P, E
<1>24. /\ i < j + 1 /\ i + 2 \in i + 1 .. j + 1
       /\ \A x \in (i + 3) + 1 .. a : x \in i + 1 .. j + 1
  BY <1>2, <1>5, <1>9, <1>11
<1>25. f.expr \in Trees[Size]
  <2>1. Size \in Nat /\ Len(tokens) \in Nat /\ Len(tokens) <= Size  BY TokenIs
  <2>2. (j - 1) - (a + 4) <= Size  BY <1>5, <1>9, <1>11, <2>1
  <2> QED  BY <1>9, <1>10, <2>1, <2>2, MeantGrows
<1>26. FunctionCovers(f, F, i, j + 1)
  BY <1>2, <1>3, <1>10, <1>11, <1>12, <1>22, <1>23, <1>24, <1>25 DEF FunctionCovers, G, D
<1> QED  BY <1>26 DEF f

-----------------------------------------------------------------------------
(* The functions, one behind the other from the first token on.            *)
AstCovers(functions, F, j) ==
  /\ IsSeq(functions)
  /\ \E at : /\ Behind(Len(functions), at, 0, j)
             /\ \A k \in 1 .. Len(functions) : FunctionCovers(functions[k], F, at[k - 1], at[k])

ParametersOf(functions) == UNION {NamesOf(functions[k].args) : k \in DOMAIN functions}

LEMMA FunctionGrows ==
  ASSUME NEW f, NEW F, NEW i, NEW j, FunctionCovers(f, F, i, j)
  PROVE  i \in Nat /\ j \in Nat /\ i <= j
BY DEF FunctionCovers

LEMMA FunctionOther ==
  ASSUME NEW F, NEW G, NEW i, NEW j, NEW f, FunctionCovers(f, F, i, j),
         \A x \in i + 1 .. j : x \in F <=> x \in G
  PROVE  FunctionCovers(f, G, i, j)
<1> DEFINE N == NamesOf(f.args)
           s == <<f.name>> \o expression_delete[f.expr]
           p == fprintf_function(f)
<1>1. /\ i \in Nat /\ j \in Nat /\ i < j /\ j <= Len(tokens)
      /\ f.name \in i + 1 .. j /\ IsWord(f.name, "IDENTIFIER")
      /\ \A x \in N : x \in i + 1 .. j /\ IsWord(x, "IDENTIFIER") /\ x \notin F
      /\ f.expr \in Trees[Size]
      /\ Covers(s, p, F \union N, i, j)
  BY DEF FunctionCovers
<1> HIDE DEF s, p, N
<1>2. \A x \in i + 1 .. j : x \in F \union N <=> x \in G \union N  OBVIOUS
<1>3. Covers(s, p, G \union N, i, j)  BY <1>1, <1>2, CoversOther
<1>4. \A x \in N : x \in i + 1 .. j /\ IsWord(x, "IDENTIFIER") /\ x \notin G  BY <1>1
<1> QED  BY <1>1, <1>3, <1>4 DEF FunctionCovers, s, p, N

LEMMA PlacesOrder ==
  ASSUME NEW n \in Nat, NEW at, NEW i, NEW j, Behind(n, at, i, j),
         \A k \in 1 .. n : at[k - 1] <= at[k]
  PROVE  \A k \in 0 .. n : \A m \in 0 .. k : at[m] <= at[k]
<1> SUFFICES ASSUME NEW k \in 0 .. n PROVE \A m \in 0 .. k : at[m] <= at[k]
  OBVIOUS
<1> DEFINE to == [m \in 0 .. k |-> at[m]]
<1>1. at \in [0 .. n -> Nat] /\ k \in Nat /\ \A m \in 0 .. k : m \in 0 .. n
  BY DEF Behind
<1>2. \A m \in 0 .. k : to[m] = at[m]  OBVIOUS
<1>3. to \in [0 .. k -> Nat]  BY <1>1
<1> HIDE DEF to
<1>4. 0 \in 0 .. k /\ k \in 0 .. k /\ \A m \in 1 .. k : m \in 1 .. n /\ m - 1 \in 0 .. k /\ m \in 0 .. k
  BY <1>1
<1>5. Behind(k, to, to[0], to[k])  BY <1>3 DEF Behind
<1>6. \A m \in 1 .. k : to[m - 1] <= to[m]  BY <1>2, <1>4
<1>7. \A m \in 0 .. k : to[m] <= to[k]  BY <1>1, <1>5, <1>6, PlacesGrow
<1> QED  BY <1>2, <1>4, <1>7

LEMMA AstOther ==
  ASSUME NEW F, NEW G, NEW j, NEW functions, AstCovers(functions, F, j),
         \A x \in 1 .. j : x \in F <=> x \in G
  PROVE  AstCovers(functions, G, j) /\ j \in Nat
<1> DEFINE n == Len(functions)
<1>1. PICK at : /\ Behind(n, at, 0, j)
                /\ \A k \in 1 .. n : FunctionCovers(functions[k], F, at[k - 1], at[k])
  BY DEF AstCovers
<1>2. n \in Nat  BY LenProperties DEF AstCovers, IsSeq
<1>0. IsSeq(functions)  BY DEF AstCovers
<1> HIDE DEF n
<1>3. \A k \in 1 .. n : at[k - 1] \in Nat /\ at[k] \in Nat /\ at[k - 1] <= at[k]
  BY <1>1, FunctionGrows
<1>4. \A k \in 0 .. n : 0 <= at[k] /\ at[k] <= j  BY <1>1, <1>2, <1>3, PlacesGrow
<1>5. j \in Nat
  <2>1. n \in 0 .. n  BY <1>2
  <2> QED  BY <1>1, <2>1 DEF Behind
<1>6. ASSUME NEW k \in 1 .. n PROVE FunctionCovers(functions[k], G, at[k - 1], at[k])
  <2>1. k \in 0 .. n /\ k - 1 \in 0 .. n  BY <1>2
  <2>2. /\ at[k - 1] \in Nat /\ at[k] \in Nat /\ 0 <= at[k - 1] /\ at[k] <= j
        /\ FunctionCovers(functions[k], F, at[k - 1], at[k])
    BY <1>1, <1>3, <1>4, <2>1
  <2> DEFINE a == at[k - 1]
             b == at[k]
  <2> HIDE DEF a, b
  <2>3. a \in Nat /\ b \in Nat /\ b <= j /\ FunctionCovers(functions[k], F, a, b)
    BY <2>2 DEF a, b
  <2>4. \A x \in a + 1 .. b : x \in 1 .. j  BY <1>5, <2>3
  <2>5. \A x \in a + 1 .. b : x \in F <=> x \in G  BY <2>4
  <2>6. FunctionCovers(functions[k], G, a, b)  BY <2>3, <2>5, FunctionOther
  <2> QED  BY <2>6 DEF a, b
<1> QED  BY <1>0, <1>1, <1>5, <1>6 DEF AstCovers, n

LEMMA AstMore ==
  ASSUME NEW F, NEW i, NEW j, NEW functions, AstCovers(functions, F, i),
         NEW f, FunctionCovers(f, F, i, j)
  PROVE  AstCovers(Append(functions, f), F, j)
<1> DEFINE n == Len(functions)
           more == Append(functions, f)
<1>0. IsSeq(functions)  BY DEF AstCovers
<1>1. PICK at : /\ Behind(n, at, 0, i)
                /\ \A k \in 1 .. n : FunctionCovers(functions[k], F, at[k - 1], at[k])
  BY DEF AstCovers
<1>2. /\ n \in Nat /\ Len(more) = n + 1 /\ more[n + 1] = f /\ IsSeq(more)
      /\ \A k \in 1 .. n : more[k] = functions[k]
  BY <1>0, Appended
<1> HIDE DEF n, more
<1>3. j \in Nat  BY DEF FunctionCovers
<1>4. PICK to : /\ Behind(n + 1, to, 0, j)
                /\ to[n] = i /\ to[n + 1] = j
                /\ \A k \in 0 .. n : to[k] = at[k]
  BY <1>1, <1>2, <1>3, PlacesMore
<1>5. ASSUME NEW k \in 1 .. n + 1 PROVE FunctionCovers(more[k], F, to[k - 1], to[k])
  <2>1. CASE k = n + 1
    <3>1. k - 1 = n  BY <1>2, <2>1
    <3>2. more[k] = f /\ to[k - 1] = i /\ to[k] = j
      BY <1>2, <1>4, <2>1, <3>1
    <3> QED  BY <3>2
  <2>2. CASE k # n + 1
    <3>1. k \in 1 .. n /\ k - 1 \in 0 .. n /\ k \in 0 .. n  BY <1>2, <2>2
    <3>2. more[k] = functions[k] /\ to[k - 1] = at[k - 1] /\ to[k] = at[k]  BY <1>2, <1>4, <3>1
    <3> QED  BY <1>1, <3>1, <3>2
  <2> QED  BY <2>1, <2>2
<1>6. AstCovers(more, F, j)  BY <1>2, <1>4, <1>5 DEF AstCovers
<1> QED  BY <1>6 DEF more

LEMMA AstNone == ASSUME NEW F PROVE AstCovers(<<>>, F, 0)
<1> DEFINE at == [k \in 0 .. 0 |-> 0]
<1>1. Behind(0, at, 0, 0)  BY DEF Behind
<1> HIDE DEF at
<1>2. IsSeq(<<>>) /\ Len(<<>>) = 0  BY EmptySeq DEF IsSeq
<1> QED  BY <1>1, <1>2 DEF AstCovers

(* The texts of the tree are those of the program that are neither freed   *)
(* already nor those of parameters.                                        *)
LEMMA AstMeant ==
  ASSUME Input, NEW F, NEW j, NEW functions, AstCovers(functions, F, j)
  PROVE  /\ Covers(ast_delete(functions), fprintf_ast(functions), F \union ParametersOf(functions), 0, j)
         /\ \A x \in ParametersOf(functions) : x \in 1 .. j /\ IsWord(x, "IDENTIFIER") /\ x \notin F
         /\ \A k \in DOMAIN functions :
              functions[k].name \in 1 .. j /\ IsWord(functions[k].name, "IDENTIFIER")
<1> DEFINE n == Len(functions)
           G == F \union ParametersOf(functions)
           s == [k \in 1 .. n |-> <<functions[k].name>> \o expression_delete[functions[k].expr]]
           p == [k \in 1 .. n |-> fprintf_function(functions[k])]
<1>1. PICK at : /\ Behind(n, at, 0, j)
                /\ \A k \in 1 .. n : FunctionCovers(functions[k], F, at[k - 1], at[k])
  BY DEF AstCovers
<1>2. n \in Nat /\ DOMAIN functions = 1 .. n  BY LenProperties DEF AstCovers, IsSeq
<1>3. ast_delete(functions) = Joined(s) /\ fprintf_ast(functions) = Joined(p)
  BY DEF ast_delete, fprintf_ast
<1> HIDE DEF n
<1>4. \A k \in 1 .. n : at[k - 1] \in Nat /\ at[k] \in Nat /\ at[k - 1] <= at[k]
  BY <1>1, FunctionGrows
<1>5. /\ \A k \in 0 .. n : 0 <= at[k] /\ at[k] <= j
      /\ \A k \in 0 .. n : \A m \in 0 .. k : at[m] <= at[k]
  BY <1>1, <1>2, <1>4, PlacesGrow, PlacesOrder
<1>6. j \in Nat /\ at[0] = 0 /\ at[n] = j /\ at \in [0 .. n -> Nat]
  <2>1. n \in 0 .. n  BY <1>2
  <2> QED  BY <1>1, <2>1 DEF Behind
<1>7. ASSUME NEW k \in 1 .. n
      PROVE  /\ functions[k].name \in at[k - 1] + 1 .. at[k] /\ IsWord(functions[k].name, "IDENTIFIER")
             /\ \A x \in NamesOf(functions[k].args) :
                  x \in at[k - 1] + 1 .. at[k] /\ IsWord(x, "IDENTIFIER") /\ x \notin F
             /\ at[k] <= j /\ at[k - 1] \in Nat /\ at[k] \in Nat
  <2>1. k \in 0 .. n  BY <1>2
  <2> QED  BY <1>1, <1>4, <1>5, <2>1 DEF FunctionCovers
<1>8. \A x \in ParametersOf(functions) :
        \E k \in 1 .. n : x \in NamesOf(functions[k].args)
  BY <1>2 DEF ParametersOf
<1>9. ASSUME NEW k \in 1 .. n PROVE Covers(s[k], p[k], G, at[k - 1], at[k])
  <2> DEFINE f == functions[k]
  <2>1. Covers(s[k], p[k], F \union NamesOf(f.args), at[k - 1], at[k])
    BY <1>1 DEF FunctionCovers
  <2>2. NamesOf(f.args) \subseteq ParametersOf(functions)  BY <1>2 DEF ParametersOf
  <2>3. ASSUME NEW x \in at[k - 1] + 1 .. at[k], x \in ParametersOf(functions)
        PROVE  x \in NamesOf(f.args)
    <3>1. PICK m \in 1 .. n : x \in NamesOf(functions[m].args)  BY <1>8, <2>3
    <3>2. x \in at[m - 1] + 1 .. at[m]  BY <1>7, <3>1
    <3>3. /\ at[k - 1] \in Nat /\ at[k] \in Nat /\ at[m - 1] \in Nat /\ at[m] \in Nat
      BY <1>7
    <3>4. x \in Nat /\ at[k - 1] < x /\ x <= at[k] /\ at[m - 1] < x /\ x <= at[m]
      BY <2>3, <3>2, <3>3
    <3>5. CASE m < k
      <4>1. m \in 0 .. k - 1 /\ k - 1 \in 0 .. n  BY <1>2, <3>5
      <4>2. at[m] <= at[k - 1]  BY <1>5, <4>1
      <4> QED  BY <3>3, <3>4, <4>2
    <3>6. CASE k < m
      <4>1. k \in 0 .. m - 1 /\ m - 1 \in 0 .. n  BY <1>2, <3>6
      <4>2. at[k] <= at[m - 1]  BY <1>5, <4>1
      <4> QED  BY <3>3, <3>4, <4>2
    <3>7. CASE m = k  BY <3>1, <3>7
    <3>8. m < k \/ k < m \/ m = k  BY <1>2
    <3> QED  BY <3>5, <3>6, <3>7, <3>8
  <2> HIDE DEF f, s, p
  <2>4. \A x \in at[k - 1] + 1 .. at[k] : x \in F \union NamesOf(f.args) <=> x \in G
    BY <2>2, <2>3
  <2> QED  BY <2>1, <2>4, CoversOther
<1>10. Len(s) = n /\ Len(p) = n  BY <1>2
<1> HIDE DEF s, p, G
<1>11. at[0] \in Nat /\ at[0] <= Len(tokens)  BY <1>6, TokenIs
<1>12. Covers(Joined(s), Joined(p), G, at[0], at[n])  BY <1>2, <1>9, <1>10, <1>11, JoinedCovers
<1>13. \A k \in 1 .. n : \A x \in at[k - 1] + 1 .. at[k] : x \in 1 .. j
  BY <1>6, <1>7
<1>14. \A x \in ParametersOf(functions) : x \in 1 .. j /\ IsWord(x, "IDENTIFIER") /\ x \notin F
  BY <1>7, <1>8, <1>13
<1>15. \A k \in DOMAIN functions :
        functions[k].name \in 1 .. j /\ IsWord(functions[k].name, "IDENTIFIER")
  BY <1>2, <1>7, <1>13
<1> QED  BY <1>3, <1>6, <1>12, <1>14, <1>15 DEF G

-----------------------------------------------------------------------------
(* The calls: the one called last, and those below it.                     *)
Over(calls)  == calls[Len(calls)]
Under(calls) == SubSeq(calls, 1, Len(calls) - 1)

LEMMA Popped ==
  ASSUME NEW calls, IsSeq(calls), calls # <<>>
  PROVE  /\ IsSeq(Under(calls)) /\ Len(calls) \in Nat /\ Len(Under(calls)) = Len(calls) - 1
         /\ Append(Under(calls), Over(calls)) = calls
         /\ \A k \in 1 .. Len(calls) - 1 : Under(calls)[k] = calls[k]
<1> DEFINE n == Len(calls)
           S == {calls[k] : k \in DOMAIN calls}
           u == Under(calls)
           x == Over(calls)
<1>1. calls \in Seq(S) /\ n \in Nat /\ DOMAIN calls = 1 .. n /\ n > 0
  <2>1. calls \in Seq(S)  BY DEF IsSeq
  <2> HIDE DEF S
  <2> QED  BY <2>1, LenProperties, EmptySeq
<1>2. x \in S  BY <1>1 DEF Over
<1> HIDE DEF S
<1>3. /\ u \in Seq(S) /\ Len(u) = n - 1
      /\ \A k \in 1 .. n - 1 : u[k] = calls[k]
  BY <1>1, SubSeqProperties DEF Under
<1> HIDE DEF u, x
<1>4. /\ Append(u, x) \in Seq(S) /\ Len(Append(u, x)) = n
      /\ \A k \in 1 .. n - 1 : Append(u, x)[k] = u[k]
      /\ Append(u, x)[n] = x
  <2>1. (n - 1) + 1 = n  BY <1>1
  <2>2. /\ Append(u, x) \in Seq(S) /\ Len(Append(u, x)) = Len(u) + 1
        /\ \A k \in 1 .. Len(u) : Append(u, x)[k] = u[k]
        /\ Append(u, x)[Len(u) + 1] = x
    BY <1>2, <1>3, AppendProperties
  <2> QED  BY <1>3, <2>1, <2>2
<1>5. \A k \in 1 .. n : Append(u, x)[k] = calls[k]
  BY <1>1, <1>3, <1>4 DEF x, Over
<1>6. Append(u, x) = calls  BY <1>1, <1>4, <1>5, SeqEqual
<1>7. IsSeq(u)
  <2> DEFINE R == {u[k] : k \in DOMAIN u}
  <2>1. Len(u) \in Nat /\ DOMAIN u = 1 .. Len(u) /\ u = [k \in 1 .. Len(u) |-> u[k]]
    BY <1>3, LenProperties
  <2>2. \A k \in 1 .. Len(u) : u[k] \in R  BY <2>1
  <2> HIDE DEF R
  <2>3. u \in [1 .. Len(u) -> R]  BY <2>1, <2>2
  <2>4. u \in Seq(R)  BY <2>1, <2>3
  <2> QED  BY <2>4 DEF IsSeq, R
<1> QED  BY <1>1, <1>3, <1>6, <1>7 DEF u, x

LEMMA PushedPopped ==
  ASSUME NEW calls, IsSeq(calls), NEW f
  PROVE  /\ Append(calls, f) # <<>> /\ IsSeq(Append(calls, f))
         /\ Len(Append(calls, f)) = Len(calls) + 1 /\ Len(calls) \in Nat
         /\ Over(Append(calls, f)) = f /\ Under(Append(calls, f)) = calls
<1> DEFINE a == Append(calls, f)
           n == Len(calls)
           S == {calls[k] : k \in DOMAIN calls}
<1>1. calls \in Seq(S)  BY DEF IsSeq
<1> HIDE DEF S
<1>2. /\ n \in Nat /\ Len(a) = n + 1 /\ IsSeq(a)
      /\ \A k \in 1 .. n : a[k] = calls[k]
      /\ a[n + 1] = f
  BY Appended
<1> HIDE DEF a, n
<1>3. Len(<<>>) = 0  OBVIOUS
<1>4. a # <<>>  BY <1>2, <1>3
<1>5. Over(a) = f  BY <1>2 DEF Over
<1>6. Under(a) = calls
  <2>1. /\ IsSeq(Under(a)) /\ Len(Under(a)) = n
        /\ \A k \in 1 .. n : Under(a)[k] = calls[k]
    <3>1. (n + 1) - 1 = n  BY <1>2
    <3> QED  BY <1>2, <1>4, <3>1, Popped
  <2> DEFINE u == Under(a)
             R == {u[k] : k \in DOMAIN u}
  <2>2. u \in Seq(R)  BY <2>1 DEF IsSeq
  <2> HIDE DEF u, R
  <2>3. Len(u) = Len(calls) /\ \A k \in 1 .. Len(u) : u[k] = calls[k]  BY <2>1 DEF u, n
  <2>4. u = calls  BY <1>1, <2>2, <2>3, SeqEqual
  <2> QED  BY <2>4 DEF u
<1> QED  BY <1>2, <1>4, <1>5, <1>6 DEF a, n

LEMMA NoneIsSeq == IsSeq(<<>>) /\ Len(<<>>) = 0
BY EmptySeq DEF IsSeq

(* The last call is exchanged.                                             *)
LEMMA Exchanged ==
  ASSUME NEW calls, IsSeq(calls), calls # <<>>, NEW h
  PROVE  [calls EXCEPT ![Len(calls)] = h] = Append(Under(calls), h)
<1> DEFINE n == Len(calls)
           a == Append(Under(calls), h)
           S == {calls[k] : k \in DOMAIN calls}
<1>1. calls \in Seq(S)  BY DEF IsSeq
<1> HIDE DEF S
<1>2. DOMAIN calls = 1 .. n /\ n > 0 /\ calls = [k \in DOMAIN calls |-> calls[k]]
  BY <1>1, LenProperties, EmptySeq
<1>3. /\ IsSeq(Under(calls)) /\ n \in Nat /\ Len(Under(calls)) = n - 1
      /\ \A k \in 1 .. n - 1 : Under(calls)[k] = calls[k]
  BY Popped
<1>4. /\ Len(a) = n /\ IsSeq(a)
      /\ \A k \in 1 .. n - 1 : a[k] = calls[k]
      /\ a[n] = h
  <2>1. (n - 1) + 1 = n  BY <1>3
  <2> QED  BY <1>3, <2>1, Appended
<1> HIDE DEF a, n
<1>5. a = [k \in 1 .. n |-> a[k]]
  <2> DEFINE R == {a[k] : k \in DOMAIN a}
  <2>1. a \in Seq(R)  BY <1>4 DEF IsSeq
  <2> HIDE DEF R
  <2> QED  BY <1>4, <2>1, LenProperties
<1>6. \A k \in 1 .. n : a[k] = IF k = n THEN h ELSE calls[k]  BY <1>3, <1>4
<1>7. a = [k \in 1 .. n |-> IF k = n THEN h ELSE calls[k]]  BY <1>5, <1>6
<1>8. [calls EXCEPT ![n] = h] = [k \in 1 .. n |-> IF k = n THEN h ELSE calls[k]]
  BY <1>2
<1> QED  BY <1>7, <1>8 DEF a, n

IsFrame(f) == f = Frame(f.fn, f.from, f.got)

LEMMA FrameIs ==
  \A fn, from, got :
    /\ IsFrame(Frame(fn, from, got))
    /\ Frame(fn, from, got).fn = fn /\ Frame(fn, from, got).from = from
    /\ Frame(fn, from, got).got = got
    /\ \A x : [Frame(fn, from, got) EXCEPT !.got = x] = Frame(fn, from, x)
BY DEF IsFrame, Frame

(* What the last call gets: one thing more, or an operand.                 *)
LEMMA GivenIs ==
  ASSUME NEW calls, IsSeq(calls), calls # <<>>, NEW x, NEW f, f = Over(calls), IsFrame(f)
  PROVE  Given(calls, x) = Append(Under(calls), Frame(f.fn, f.from, Append(f.got, x)))
<1> DEFINE n == Len(calls)
           y == Append(f.got, x)
<1>1. Given(calls, x) = [calls EXCEPT ![n] = [f EXCEPT !.got = y]]
  BY DEF Given, Over
<1> HIDE DEF y
<1>2. [f EXCEPT !.got = y] = Frame(f.fn, f.from, y)  BY FrameIs DEF IsFrame
<1> DEFINE h == Frame(f.fn, f.from, y)
<1>3. [calls EXCEPT ![n] = h] = Append(Under(calls), h)
  <2> HIDE DEF h
  <2> QED  BY Exchanged
<1> QED  BY <1>1, <1>2, <1>3 DEF y

Extended(got, e) ==
  IF got = <<>> THEN <<e>> ELSE <<Join(got[1], token_type_to_binary_tag(got[2]), e)>>

LEMMA WithOperandIs ==
  ASSUME NEW calls, IsSeq(calls), calls # <<>>, NEW e, NEW f, f = Over(calls), IsFrame(f)
  PROVE  WithOperand(calls, e) =
           Append(Under(calls), Frame(f.fn, f.from, Extended(f.got, e)))
<1> DEFINE n == Len(calls)
           y == Extended(f.got, e)
<1>1. WithOperand(calls, e) = [calls EXCEPT ![n] = [f EXCEPT !.got = y]]
  BY DEF WithOperand, Extended, Over
<1> HIDE DEF y
<1>2. [f EXCEPT !.got = y] = Frame(f.fn, f.from, y)  BY FrameIs DEF IsFrame
<1> DEFINE h == Frame(f.fn, f.from, y)
<1>3. [calls EXCEPT ![n] = h] = Append(Under(calls), h)
  <2> HIDE DEF h
  <2> QED  BY Exchanged
<1> QED  BY <1>1, <1>2, <1>3 DEF y

-----------------------------------------------------------------------------
(* The shape of the calls.                                                 *)
LegalFrame(f) ==
  /\ IsFrame(f) /\ f.fn \in Fields /\ IsSeq(f.got)
  /\ f.fn \in DOMAIN Needs => Len(f.got) \in 1 .. Len(Needs[f.fn])
  /\ f.fn = "binary_expr" => Len(f.got) \in 0 .. 2

(* fn can be called where there are these calls.                           *)
Called(calls, fn) == IF calls = <<>> THEN fn = "fn" ELSE Waits(Over(calls), fn)

Legal(calls) ==
  /\ IsSeq(calls)
  /\ \A k \in 1 .. Len(calls) :
       /\ LegalFrame(calls[k])
       /\ IF k = 1 THEN calls[k].fn = "fn" ELSE Waits(calls[k - 1], calls[k].fn)

LEMMA LegalNone == Legal(<<>>)
<1>1. IsSeq(<<>>) /\ Len(<<>>) = 0  BY NoneIsSeq
<1> QED  BY <1>1 DEF Legal

LEMMA LegalPush ==
  ASSUME NEW calls, Legal(calls), NEW f, LegalFrame(f), Called(calls, f.fn)
  PROVE  Legal(Append(calls, f))
<1> DEFINE n == Len(calls)
           a == Append(calls, f)
<1>1. IsSeq(calls)  BY DEF Legal
<1>2. /\ n \in Nat /\ Len(a) = n + 1 /\ IsSeq(a)
      /\ \A k \in 1 .. n : a[k] = calls[k]
      /\ a[n + 1] = f
  BY <1>1, Appended
<1>3. \A k \in 1 .. n : /\ LegalFrame(calls[k])
                        /\ IF k = 1 THEN calls[k].fn = "fn" ELSE Waits(calls[k - 1], calls[k].fn)
  BY DEF Legal
<1>4. IF n = 0 THEN f.fn = "fn" ELSE Waits(calls[n], f.fn)
  <2>1. n = 0 <=> calls = <<>>
    <3> DEFINE S == {calls[k] : k \in DOMAIN calls}
    <3>1. calls \in Seq(S)  BY <1>1 DEF IsSeq
    <3> HIDE DEF S
    <3> QED  BY <3>1, EmptySeq, NoneIsSeq
  <2> QED  BY <2>1 DEF Called, Over
<1> HIDE DEF n, a
<1>5. ASSUME NEW k \in 1 .. n + 1
      PROVE  /\ LegalFrame(a[k])
             /\ IF k = 1 THEN a[k].fn = "fn" ELSE Waits(a[k - 1], a[k].fn)
  <2>1. CASE k = n + 1
    <3>1. k - 1 = n /\ (k = 1 <=> n = 0) /\ (n # 0 => n \in 1 .. n)  BY <1>2, <2>1
    <3>2. a[k] = f /\ (k # 1 => a[k - 1] = calls[n])  BY <1>2, <2>1, <3>1
    <3> QED  BY <1>4, <3>1, <3>2
  <2>2. CASE k # n + 1
    <3>1. k \in 1 .. n /\ (k # 1 => k - 1 \in 1 .. n)  BY <1>2, <2>2
    <3>2. a[k] = calls[k] /\ (k # 1 => a[k - 1] = calls[k - 1])  BY <1>2, <3>1
    <3> QED  BY <1>3, <3>1, <3>2
  <2> QED  BY <2>1, <2>2
<1>6. Legal(a)  BY <1>2, <1>5 DEF Legal
<1> QED  BY <1>6 DEF a

LEMMA LegalPop ==
  ASSUME NEW calls, Legal(calls), calls # <<>>
  PROVE  /\ Legal(Under(calls)) /\ LegalFrame(Over(calls)) /\ Called(Under(calls), Over(calls).fn)
         /\ Append(Under(calls), Over(calls)) = calls /\ IsSeq(calls) /\ IsSeq(Under(calls))
<1> DEFINE n == Len(calls)
           u == Under(calls)
<1>1. IsSeq(calls)  BY DEF Legal
<1>2. /\ IsSeq(u) /\ n \in Nat /\ Len(u) = n - 1
      /\ \A k \in 1 .. n - 1 : u[k] = calls[k]
      /\ Append(u, Over(calls)) = calls
  BY <1>1, Popped
<1>3. \A k \in 1 .. n : /\ LegalFrame(calls[k])
                        /\ IF k = 1 THEN calls[k].fn = "fn" ELSE Waits(calls[k - 1], calls[k].fn)
  BY DEF Legal
<1>4. n > 0
  <2> DEFINE S == {calls[k] : k \in DOMAIN calls}
  <2>1. calls \in Seq(S)  BY <1>1 DEF IsSeq
  <2> HIDE DEF S
  <2> QED  BY <2>1, LenProperties, EmptySeq
<1>0. Over(calls) = calls[n]  BY DEF Over
<1> HIDE DEF n, u
<1>5. LegalFrame(Over(calls))
  <2>1. n \in 1 .. n  BY <1>2, <1>4
  <2> QED  BY <1>0, <1>3, <2>1
<1>6. \A k \in 1 .. n - 1 : /\ LegalFrame(u[k])
                            /\ IF k = 1 THEN u[k].fn = "fn" ELSE Waits(u[k - 1], u[k].fn)
  <2> SUFFICES ASSUME NEW k \in 1 .. n - 1
               PROVE  /\ LegalFrame(u[k])
                      /\ IF k = 1 THEN u[k].fn = "fn" ELSE Waits(u[k - 1], u[k].fn)
    OBVIOUS
  <2>1. k \in 1 .. n /\ (k # 1 => k - 1 \in 1 .. n - 1)  BY <1>2
  <2>2. u[k] = calls[k] /\ (k # 1 => u[k - 1] = calls[k - 1])  BY <1>2, <2>1
  <2> QED  BY <1>3, <2>1, <2>2
<1>7. Legal(u)  BY <1>2, <1>6 DEF Legal
<1>8. Called(u, Over(calls).fn)
  <2>1. CASE u = <<>>
    <3>1. Len(u) = 0  BY <2>1, NoneIsSeq
    <3>2. n = 1 /\ 1 \in 1 .. n  BY <1>2, <3>1
    <3>3. calls[1].fn = "fn"  BY <1>3, <3>2
    <3> QED  BY <1>0, <2>1, <3>2, <3>3 DEF Called
  <2>2. CASE u # <<>>
    <3>1. Len(u) # 0
      <4> DEFINE S == {u[k] : k \in DOMAIN u}
      <4>1. u \in Seq(S)  BY <1>2 DEF IsSeq
      <4> HIDE DEF S
      <4> QED  BY <2>2, <4>1, EmptySeq
    <3>2. n # 1 /\ n \in 1 .. n /\ n - 1 \in 1 .. n - 1  BY <1>2, <1>4, <3>1
    <3>3. Waits(calls[n - 1], calls[n].fn)  BY <1>3, <3>2
    <3>4. Over(u) = calls[n - 1]  BY <1>2, <3>2 DEF Over
    <3> QED  BY <1>0, <2>2, <3>3, <3>4 DEF Called
  <2> QED  BY <2>1, <2>2
<1> QED  BY <1>1, <1>2, <1>5, <1>7, <1>8 DEF u

-----------------------------------------------------------------------------
(* The functions and the calls stand for the tokens up to j.               *)
EndOf(calls, k, j) == IF k = Len(calls) THEN j ELSE calls[k + 1].from

Follows(functions, calls, F, j) ==
  /\ AstCovers(functions, F, EndOf(calls, 0, j))
  /\ \A k \in 1 .. Len(calls) : FrameCovers(calls[k], F, EndOf(calls, k, j))

LEMMA FollowsNone ==
  ASSUME NEW functions, NEW F, NEW j
  PROVE  Follows(functions, <<>>, F, j) <=> AstCovers(functions, F, j)
<1>1. Len(<<>>) = 0  OBVIOUS
<1> QED  BY <1>1 DEF Follows, EndOf

LEMMA FollowsPush ==
  ASSUME NEW functions, NEW calls, IsSeq(calls), NEW F, NEW j, NEW f
  PROVE  Follows(functions, Append(calls, f), F, j)
           <=> FrameCovers(f, F, j) /\ Follows(functions, calls, F, f.from)
<1> DEFINE n == Len(calls)
           a == Append(calls, f)
           A(k) == EndOf(a, k, j)
           C(k) == EndOf(calls, k, f.from)
<1>1. /\ n \in Nat /\ Len(a) = n + 1
      /\ \A k \in 1 .. n : a[k] = calls[k]
      /\ a[n + 1] = f
  BY Appended
<1>2. A(n + 1) = j  BY <1>1 DEF EndOf
<1>3. \A k \in 0 .. n : A(k) = C(k)
  <2> SUFFICES ASSUME NEW k \in 0 .. n PROVE A(k) = C(k)
    OBVIOUS
  <2>1. k # n + 1  BY <1>1
  <2>2. A(k) = a[k + 1].from  BY <1>1, <2>1 DEF EndOf
  <2>3. CASE k = n  BY <1>1, <2>2, <2>3 DEF EndOf
  <2>4. CASE k # n
    <3>1. k + 1 \in 1 .. n  BY <1>1, <2>4
    <3>2. C(k) = calls[k + 1].from  BY <2>4 DEF EndOf
    <3> QED  BY <1>1, <2>2, <3>1, <3>2
  <2> QED  BY <2>3, <2>4
<1>4. Follows(functions, a, F, j)
        <=> AstCovers(functions, F, A(0)) /\ \A k \in 1 .. n + 1 : FrameCovers(a[k], F, A(k))
  BY <1>1 DEF Follows
<1>5. Follows(functions, calls, F, f.from)
        <=> AstCovers(functions, F, C(0)) /\ \A k \in 1 .. n : FrameCovers(calls[k], F, C(k))
  BY DEF Follows
<1> HIDE DEF A, C, a, n
<1>6. A(0) = C(0)  BY <1>1, <1>3
<1>7. \A k \in 1 .. n : FrameCovers(a[k], F, A(k)) <=> FrameCovers(calls[k], F, C(k))
  <2>1. \A k \in 1 .. n : k \in 0 .. n  BY <1>1
  <2> QED  BY <1>1, <1>3, <2>1
<1>8. (\A k \in 1 .. n + 1 : FrameCovers(a[k], F, A(k)))
        <=> FrameCovers(f, F, j) /\ \A k \in 1 .. n : FrameCovers(a[k], F, A(k))
  <2>1. \A k : k \in 1 .. n + 1 <=> k = n + 1 \/ k \in 1 .. n  BY <1>1
  <2>2. FrameCovers(a[n + 1], F, A(n + 1)) <=> FrameCovers(f, F, j)  BY <1>1, <1>2
  <2> QED  BY <2>1, <2>2
<1>9. Follows(functions, a, F, j)
           <=> FrameCovers(f, F, j) /\ Follows(functions, calls, F, f.from)
  BY <1>4, <1>5, <1>6, <1>7, <1>8
<1> QED  BY <1>9 DEF a

(* Texts freed later do not matter.                                        *)
LEMMA ItemOther ==
  ASSUME NEW F, NEW G, NEW need, NEW x, NEW i, NEW j, ItemCovers(need, x, F, i, j),
         \A y \in i + 1 .. j : y \in F <=> y \in G
  PROVE  ItemCovers(need, x, G, i, j)
<1>1. i \in Nat /\ j \in Nat /\ i <= j /\ j <= Len(tokens)  BY DEF ItemCovers
<1>2. need = "binary_expr" => Meant(x, G, i, j)
  <2>1. need = "binary_expr" => Meant(x, F, i, j)  BY DEF ItemCovers
  <2> QED  BY <2>1, MeantOther
<1>3. need = "expr" => Meant(x, G, i + 1, j - 1) /\ IsWord(i + 1, Opening) /\ IsWord(j, Closing)
  <2>1. need = "expr" => Meant(x, F, i + 1, j - 1) /\ IsWord(i + 1, Opening) /\ IsWord(j, Closing)
    BY DEF ItemCovers
  <2> DEFINE a == i + 1
             b == j - 1
  <2>2. \A y \in a + 1 .. b : y \in i + 1 .. j  BY <1>1
  <2>3. need = "expr" => Meant(x, F, a, b)  BY <2>1
  <2> HIDE DEF a, b
  <2>4. need = "expr" => Meant(x, G, a, b)  BY <2>2, <2>3, MeantOther
  <2> QED  BY <2>1, <2>4 DEF a, b
<1>4. need = "args" => ArgsCover(x, G, i, j)
  <2> SUFFICES ASSUME need = "args" PROVE ArgsCover(x, G, i, j)
    OBVIOUS
  <2>1. ArgsCover(x, F, i, j)  BY DEF ItemCovers
  <2> DEFINE n == Len(x)
  <2>2. n \in Nat  BY <2>1, ArgsAre
  <2>3. j = i + 4 * n \/ (n > 0 /\ j = i + 4 * n - 1)  BY <2>1 DEF ArgsCover
  <2>4. ASSUME NEW k \in 1 .. n PROVE ArgAt(x[k], G, i + 4 * (k - 1))
    <3> DEFINE p == i + 4 * (k - 1)
    <3>1. ArgAt(x[k], F, p)  BY <2>1 DEF ArgsCover, ArgsRead
    <3> HIDE DEF n
    <3>2. p + 1 \in i + 1 .. j  BY <1>1, <2>2, <2>3
    <3> HIDE DEF p
    <3>3. ArgAt(x[k], G, p)  BY <3>1, <3>2 DEF ArgAt
    <3> QED  BY <3>3 DEF p
  <2> QED  BY <2>1, <2>4 DEF ArgsCover, ArgsRead
<1>5. need = "IDENTIFIER" => j \notin G
  <2>1. need = "IDENTIFIER" => j = i + 1 /\ j \notin F  BY DEF ItemCovers, Callees
  <2> QED  BY <1>1, <2>1
<1> QED  BY <1>1, <1>2, <1>3, <1>4, <1>5 DEF ItemCovers

LEMMA ItemGrows ==
  ASSUME NEW need, NEW x, NEW F, NEW i, NEW j, ItemCovers(need, x, F, i, j)
  PROVE  i \in Nat /\ j \in Nat /\ i <= j
BY DEF ItemCovers

LEMMA ItemsOther ==
  ASSUME NEW F, NEW G, NEW needs, NEW got, IsSeq(got), NEW i, NEW j,
         ItemsCover(needs, got, F, i, j),
         \A y \in i + 1 .. j : y \in F <=> y \in G
  PROVE  ItemsCover(needs, got, G, i, j)
<1> DEFINE n == Len(got)
<1>1. n \in Nat  BY LenProperties DEF IsSeq
<1>2. PICK at : /\ Behind(n, at, i, j)
                /\ \A k \in 1 .. n : ItemCovers(needs[k], got[k], F, at[k - 1], at[k])
  BY DEF ItemsCover
<1> HIDE DEF n
<1>3. \A k \in 1 .. n : at[k - 1] \in Nat /\ at[k] \in Nat /\ at[k - 1] <= at[k]
  BY <1>2, ItemGrows
<1>4. \A k \in 0 .. n : i <= at[k] /\ at[k] <= j  BY <1>1, <1>2, <1>3, PlacesGrow
<1>5. i \in Nat /\ j \in Nat
  <2>1. n \in 0 .. n /\ 0 \in 0 .. n  BY <1>1
  <2> QED  BY <1>2, <2>1 DEF Behind
<1>6. ASSUME NEW k \in 1 .. n PROVE ItemCovers(needs[k], got[k], G, at[k - 1], at[k])
  <2>1. k \in 0 .. n /\ k - 1 \in 0 .. n  BY <1>1
  <2> DEFINE a == at[k - 1]
             b == at[k]
  <2>2. a \in Nat /\ b \in Nat /\ i <= a /\ b <= j /\ ItemCovers(needs[k], got[k], F, a, b)
    BY <1>2, <1>3, <1>4, <2>1
  <2> HIDE DEF a, b
  <2>3. \A y \in a + 1 .. b : y \in i + 1 .. j  BY <1>5, <2>2
  <2>4. ItemCovers(needs[k], got[k], G, a, b)  BY <2>2, <2>3, ItemOther
  <2> QED  BY <2>4 DEF a, b
<1> QED  BY <1>2, <1>6 DEF ItemsCover, n

LEMMA BlockOther ==
  ASSUME NEW F, NEW G, NEW got, IsSeq(got), NEW i, NEW j, BlockCovers(got, F, i, j),
         \A y \in i + 1 .. j : y \in F <=> y \in G
  PROVE  BlockCovers(got, G, i, j)
<1> DEFINE n == Len(got)
<1>1. n \in Nat  BY LenProperties DEF IsSeq
<1>2. PICK at : Behind(n, at, i, j) /\ Statements(got, F, at)
  BY DEF BlockCovers
<1>3. /\ \A k \in 1 .. n : /\ at[k - 1] \in Nat /\ at[k] \in Nat /\ at[k - 1] < at[k] - 1
                           /\ i <= at[k - 1] /\ at[k] <= j
      /\ i \in Nat /\ j \in Nat
  BY <1>1, <1>2, StatementsGrow
<1>4. \A k \in 1 .. n : /\ Meant(got[k], F, at[k - 1], at[k] - 1)
                        /\ at[k] \in Nat /\ IsWord(at[k], Semicolon)
  BY <1>2 DEF Statements
<1> HIDE DEF n
<1>5. ASSUME NEW k \in 1 .. n PROVE Meant(got[k], G, at[k - 1], at[k] - 1)
  <2> DEFINE a == at[k - 1]
             b == at[k] - 1
  <2>1. \A y \in a + 1 .. b : y \in i + 1 .. j  BY <1>3
  <2>2. Meant(got[k], F, a, b)  BY <1>4
  <2> HIDE DEF a, b
  <2>3. Meant(got[k], G, a, b)  BY <2>1, <2>2, MeantOther
  <2> QED  BY <2>3 DEF a, b
<1> QED  BY <1>2, <1>4, <1>5 DEF BlockCovers, Statements, n

LEMMA FrameOther ==
  ASSUME NEW F, NEW G, NEW f, IsSeq(f.got), NEW j, FrameCovers(f, F, j),
         \A y \in 1 .. j : y \in F <=> y \in G
  PROVE  FrameCovers(f, G, j)
<1> DEFINE i == f.from
<1>1. i \in Nat /\ j \in Nat /\ i <= j /\ j <= Len(tokens)  BY DEF FrameCovers
<1>2. \A y \in i + 1 .. j : y \in F <=> y \in G  BY <1>1
<1>3. f.fn \in DOMAIN Needs => ItemsCover(Needs[f.fn], f.got, G, i, j)
  <2>1. f.fn \in DOMAIN Needs => ItemsCover(Needs[f.fn], f.got, F, i, j)  BY DEF FrameCovers
  <2> QED  BY <1>2, <2>1, ItemsOther
<1>4. f.fn = "binary_expr" => ChainCovers(f.got, G, i, j)
  <2> SUFFICES ASSUME f.fn = "binary_expr" PROVE ChainCovers(f.got, G, i, j)
    OBVIOUS
  <2>1. ChainCovers(f.got, F, i, j)  BY DEF FrameCovers
  <2> DEFINE x == f.got[1]
             b == j - 1
  <2>2. \A y \in i + 1 .. b : y \in i + 1 .. j  BY <1>1
  <2> HIDE DEF x, b, i
  <2>3. Meant(x, F, i, j) => Meant(x, G, i, j)  BY <1>2, MeantOther
  <2>4. Meant(x, F, i, b) => Meant(x, G, i, b)  BY <1>2, <2>2, MeantOther
  <2> QED  BY <2>1, <2>3, <2>4 DEF ChainCovers, x, b
<1>5. f.fn = "expr" => IsWord(i + 1, Opening) /\ BlockCovers(f.got, G, i + 1, j)
  <2> SUFFICES ASSUME f.fn = "expr" PROVE IsWord(i + 1, Opening) /\ BlockCovers(f.got, G, i + 1, j)
    OBVIOUS
  <2>1. IsWord(i + 1, Opening) /\ BlockCovers(f.got, F, i + 1, j)  BY DEF FrameCovers
  <2> DEFINE a == i + 1
  <2>2. \A y \in a + 1 .. j : y \in i + 1 .. j  BY <1>1
  <2>3. BlockCovers(f.got, F, a, j)  BY <2>1
  <2> HIDE DEF a, i
  <2>4. BlockCovers(f.got, G, a, j)  BY <1>2, <2>2, <2>3, BlockOther
  <2> QED  BY <2>1, <2>4 DEF a
<1>6. f.fn = "args" =>
       ArgsRead(f.got, G, i) /\ Commas(Len(f.got), i) /\ j = i + 4 * Len(f.got)
  <2> SUFFICES ASSUME f.fn = "args"
               PROVE  ArgsRead(f.got, G, i) /\ Commas(Len(f.got), i) /\ j = i + 4 * Len(f.got)
    OBVIOUS
  <2> DEFINE n == Len(f.got)
  <2>1. ArgsRead(f.got, F, i) /\ Commas(n, i) /\ j = i + 4 * n  BY DEF FrameCovers
  <2>2. n \in Nat  BY LenProperties DEF IsSeq
  <2>3. ASSUME NEW k \in 1 .. n PROVE ArgAt(f.got[k], G, i + 4 * (k - 1))
    <3> DEFINE p == i + 4 * (k - 1)
    <3>1. ArgAt(f.got[k], F, p)  BY <2>1 DEF ArgsRead
    <3> HIDE DEF n, i
    <3>2. p + 1 \in i + 1 .. j  BY <1>1, <2>1, <2>2
    <3> HIDE DEF p
    <3>3. ArgAt(f.got[k], G, p)  BY <1>2, <3>1, <3>2 DEF ArgAt
    <3> QED  BY <3>3 DEF p
  <2> QED  BY <2>1, <2>3 DEF ArgsRead
<1> QED  BY <1>1, <1>3, <1>4, <1>5, <1>6 DEF FrameCovers

LEMMA FollowsGrow ==
  ASSUME NEW functions, NEW calls, IsSeq(calls), NEW F, NEW j \in Nat, Follows(functions, calls, F, j)
  PROVE  /\ \A k \in 0 .. Len(calls) : EndOf(calls, k, j) \in Nat /\ EndOf(calls, k, j) <= j
         /\ Len(calls) \in Nat
<1> DEFINE n == Len(calls)
           at == [k \in 0 .. n |-> EndOf(calls, k, j)]
<1>1. n \in Nat  BY LenProperties DEF IsSeq
<1>2. AstCovers(functions, F, EndOf(calls, 0, j))
  BY DEF Follows
<1>3. EndOf(calls, 0, j) \in Nat
  <2> DEFINE e == EndOf(calls, 0, j)
  <2> HIDE DEF e
  <2>1. AstCovers(functions, F, e)  BY <1>2 DEF e
  <2>2. e \in Nat  BY <2>1, AstOther
  <2> QED  BY <2>2 DEF e
<1>4. \A k \in 1 .. n : FrameCovers(calls[k], F, EndOf(calls, k, j))  BY DEF Follows
<1>5. \A k \in 1 .. n : /\ calls[k].from \in Nat /\ EndOf(calls, k, j) \in Nat
                        /\ calls[k].from <= EndOf(calls, k, j)
  BY <1>4 DEF FrameCovers
<1>6. \A k \in 1 .. n : EndOf(calls, k - 1, j) = calls[k].from
  <2> SUFFICES ASSUME NEW k \in 1 .. n PROVE EndOf(calls, k - 1, j) = calls[k].from
    OBVIOUS
  <2>1. k - 1 # n /\ (k - 1) + 1 = k  BY <1>1
  <2> QED  BY <2>1 DEF EndOf
<1>7. \A k \in 0 .. n : at[k] = EndOf(calls, k, j)  OBVIOUS
<1>8. at \in [0 .. n -> Nat]
  <2>1. \A k \in 0 .. n : k = 0 \/ k \in 1 .. n  BY <1>1
  <2>2. \A k \in 0 .. n : EndOf(calls, k, j) \in Nat  BY <1>3, <1>5, <2>1
  <2> QED  BY <2>2
<1> HIDE DEF at
<1>9. \A k \in 1 .. n : k - 1 \in 0 .. n /\ k \in 0 .. n  BY <1>1
<1>10. \A k \in 1 .. n : at[k - 1] <= at[k]  BY <1>5, <1>6, <1>7, <1>9
<1>11. at[n] = j
  <2>1. n \in 0 .. n  BY <1>1
  <2> QED  BY <1>7, <2>1 DEF EndOf
<1> HIDE DEF n
<1>12. Behind(n, at, at[0], j)  BY <1>8, <1>11 DEF Behind
<1>13. \A k \in 0 .. n : at[k] <= j  BY <1>1, <1>10, <1>12, PlacesGrow
<1>14. \A k \in 0 .. n : at[k] \in Nat  BY <1>8
<1> QED  BY <1>1, <1>7, <1>13, <1>14 DEF n

LEMMA FollowsOther ==
  ASSUME NEW functions, NEW calls, Legal(calls), NEW F, NEW j \in Nat,
         Follows(functions, calls, F, j),
         NEW G, \A y \in 1 .. j : y \in F <=> y \in G
  PROVE  Follows(functions, calls, G, j)
<1> DEFINE n == Len(calls)
<1>1. IsSeq(calls) /\ \A k \in 1 .. n : IsSeq(calls[k].got)
  BY DEF Legal, LegalFrame
<1>2. /\ \A k \in 0 .. n : EndOf(calls, k, j) \in Nat /\ EndOf(calls, k, j) <= j
      /\ n \in Nat
  BY <1>1, FollowsGrow
<1>3. /\ AstCovers(functions, F, EndOf(calls, 0, j))
      /\ \A k \in 1 .. n : FrameCovers(calls[k], F, EndOf(calls, k, j))
  BY DEF Follows
<1> HIDE DEF n
<1>4. \A k \in 0 .. n : \A y \in 1 .. EndOf(calls, k, j) : y \in F <=> y \in G
  BY <1>2
<1>5. AstCovers(functions, G, EndOf(calls, 0, j))
  <2>1. 0 \in 0 .. n  BY <1>2
  <2> QED  BY <1>3, <1>4, <2>1, AstOther
<1>6. \A k \in 1 .. n : FrameCovers(calls[k], G, EndOf(calls, k, j))
  <2>1. \A k \in 1 .. n : k \in 0 .. n  BY <1>2
  <2> QED  BY <1>1, <1>3, <1>4, <2>1, FrameOther
<1> QED  BY <1>5, <1>6 DEF Follows, n

-----------------------------------------------------------------------------
(* Who waits for whom.                                                     *)
LEMMA WaitsFor ==
  ASSUME NEW f, NEW fn, Waits(f, fn)
  PROVE  /\ fn # "fn"
         /\ fn \in Alternatives => f.fn = "binary_expr" /\ Len(f.got) # 1
         /\ fn = "arg" => f.fn = "args"
         /\ fn \in Callees /\ f.fn # "expr" =>
              /\ f.fn \in DOMAIN Needs /\ Len(f.got) < Len(Needs[f.fn])
              /\ Needs[f.fn][Len(f.got) + 1] = fn
         /\ f.fn = "expr" => fn = "binary_expr"
<1>1. /\ Alternatives \intersect Callees = {} /\ "fn" \notin Callees /\ "arg" \notin Callees
      /\ "binary_expr" \notin Alternatives \union {"fn", "arg"}
      /\ "fn" \notin Alternatives /\ "arg" \notin Alternatives
      /\ "expr" \notin DOMAIN Needs /\ "args" \notin DOMAIN Needs
      /\ "binary_expr" \notin DOMAIN Needs
  BY NeedsAre DEF Alternatives, Callees
<1>2. \/ /\ f.fn \in DOMAIN Needs
         /\ Len(f.got) < Len(Needs[f.fn])
         /\ Needs[f.fn][Len(f.got) + 1] = fn
         /\ fn \in Callees
      \/ f.fn = "expr" /\ fn = "binary_expr"
      \/ f.fn = "binary_expr" /\ Len(f.got) # 1 /\ fn \in DOMAIN Needs \ {"fn", "arg"}
      \/ f.fn = "args" /\ fn = "arg"
  BY DEF Waits
<1>3. CASE /\ f.fn \in DOMAIN Needs
           /\ Len(f.got) < Len(Needs[f.fn])
           /\ Needs[f.fn][Len(f.got) + 1] = fn
           /\ fn \in Callees
  BY <1>1, <1>3
<1>4. CASE f.fn = "expr" /\ fn = "binary_expr"
  BY <1>1, <1>4
<1>5. CASE f.fn = "binary_expr" /\ Len(f.got) # 1 /\ fn \in DOMAIN Needs \ {"fn", "arg"}
  <2>1. fn \notin Callees  BY <1>5, NeedsAre DEF Callees
  <2> QED  BY <1>5, <2>1
<1>6. CASE f.fn = "args" /\ fn = "arg"
  BY <1>1, <1>6
<1> QED  BY <1>2, <1>3, <1>4, <1>5, <1>6

LEMMA WaitsIs ==
  ASSUME NEW f, NEW fn
  PROVE  /\ (/\ f.fn \in DOMAIN Needs /\ Len(f.got) < Len(Needs[f.fn])
             /\ Needs[f.fn][Len(f.got) + 1] = fn /\ fn \in Callees) => Waits(f, fn)
         /\ f.fn = "expr" => Waits(f, "binary_expr")
         /\ f.fn = "args" => Waits(f, "arg")
         /\ f.fn = "binary_expr" /\ Len(f.got) # 1 /\ fn \in Alternatives => Waits(f, fn)
<1>1. Alternatives \subseteq DOMAIN Needs \ {"fn", "arg"}  BY NeedsAre DEF Alternatives
<1> QED  BY <1>1 DEF Waits

(* Only a function needs parameters, behind the opening parenthesis.       *)
LEMMA NeedsArgs ==
  ASSUME NEW fn \in DOMAIN Needs, NEW n \in 0 .. Len(Needs[fn]) - 1, Needs[fn][n + 1] = "args"
  PROVE  fn = "fn" /\ n = 3
<1> DEFINE m == n + 1
<1>1. m \in 1 .. Len(Needs[fn]) /\ Needs[fn][m] = "args"
  <2>1. Len(Needs[fn]) \in Nat  BY NeedsAre, NeedsLen
  <2> QED  BY <2>1
<1> HIDE DEF m
<1>2. fn = "fn" /\ m = 4
  <2>1. CASE fn = "fn"
    <3>1. m \in 1 .. 8  BY <1>1, <2>1, NeedsLen
    <3>2. m = 1 \/ m = 2 \/ m = 3 \/ m = 4 \/ m = 5 \/ m = 6 \/ m = 7 \/ m = 8  BY <3>1
    <3> DEFINE q == <<"fn", "IDENTIFIER", "(", "args", ")", "program_type", "=", "expr">>
    <3>3. /\ q[1] # "args" /\ q[2] # "args" /\ q[3] # "args" /\ q[5] # "args"
          /\ q[6] # "args" /\ q[7] # "args" /\ q[8] # "args"
      OBVIOUS
    <3>4. q[m] = "args"  BY <1>1, <2>1, NeedsAre
    <3> HIDE DEF q
    <3> QED  BY <2>1, <3>2, <3>3, <3>4
  <2>2. ASSUME fn # "fn" PROVE FALSE
    <3>1. CASE fn = "let"
      <4>1. m \in 1 .. 6 /\ Needs[fn] = <<"let", "IDENTIFIER", ":", "program_type", "=", "binary_expr">>
        BY <1>1, <3>1, NeedsLen, NeedsAre
      <4> QED  BY <1>1, <4>1
    <3>2. CASE fn = "if"
      <4>1. m \in 1 .. 5 /\ Needs[fn] = <<"if", "(", "binary_expr", ")", "expr">>
        BY <1>1, <3>2, NeedsLen, NeedsAre
      <4> QED  BY <1>1, <4>1
    <3>3. CASE fn = "if_else"
      <4>1. m \in 1 .. 7 /\ Needs[fn] = <<"if", "(", "binary_expr", ")", "expr", "else", "expr">>
        BY <1>1, <3>3, NeedsLen, NeedsAre
      <4> QED  BY <1>1, <4>1
    <3>4. CASE fn = "deref"
      <4>1. m \in 1 .. 2 /\ Needs[fn] = <<"*", "binary_expr">>
        BY <1>1, <3>4, NeedsLen, NeedsAre
      <4> QED  BY <1>1, <4>1
    <3>5. CASE fn = "deref_assign"
      <4>1. m \in 1 .. 4 /\ Needs[fn] = <<"*", "binary_expr", "=", "binary_expr">>
        BY <1>1, <3>5, NeedsLen, NeedsAre
      <4> QED  BY <1>1, <4>1
    <3>6. CASE fn = "return"
      <4>1. m \in 1 .. 2 /\ Needs[fn] = <<"return", "binary_expr">>
        BY <1>1, <3>6, NeedsLen, NeedsAre
      <4> QED  BY <1>1, <4>1
    <3>7. CASE fn = "var"
      <4>1. m \in 1 .. 1 /\ Needs[fn] = <<"IDENTIFIER">>
        BY <1>1, <3>7, NeedsLen, NeedsAre
      <4> QED  BY <1>1, <4>1
    <3>8. CASE fn = "func_call"
      <4>1. m \in 1 .. 3 /\ Needs[fn] = <<"IDENTIFIER", "(", ")">>
        BY <1>1, <3>8, NeedsLen, NeedsAre
      <4> QED  BY <1>1, <4>1
    <3>9. CASE fn = "var_assign"
      <4>1. m \in 1 .. 3 /\ Needs[fn] = <<"IDENTIFIER", "=", "binary_expr">>
        BY <1>1, <3>9, NeedsLen, NeedsAre
      <4> QED  BY <1>1, <4>1
    <3>10. CASE fn = "arg"
      <4>1. m \in 1 .. 3 /\ Needs[fn] = <<"IDENTIFIER", ":", "program_type">>
        BY <1>1, <3>10, NeedsLen, NeedsAre
      <4> QED  BY <1>1, <4>1
    <3> QED
      BY <2>2, <3>1, <3>2, <3>3, <3>4, <3>5, <3>6, <3>7, <3>8, <3>9, <3>10, NeedsAre
  <2> QED  BY <2>1, <2>2
<1> QED  BY <1>2 DEF m

-----------------------------------------------------------------------------
(* The shape is kept.                                                      *)
LEMMA FrameMore ==
  ASSUME NEW f, LegalFrame(f), NEW x,
         \/ f.fn \in DOMAIN Needs /\ Len(f.got) < Len(Needs[f.fn])
         \/ f.fn = "binary_expr" /\ Len(f.got) = 1
         \/ f.fn \in {"expr", "args"}
  PROVE  LegalFrame(Frame(f.fn, f.from, Append(f.got, x)))
<1> DEFINE more == Append(f.got, x)
           h == Frame(f.fn, f.from, more)
<1>1. f.fn \in Fields /\ IsSeq(f.got) /\ (f.fn \in DOMAIN Needs => Len(f.got) \in 1 .. Len(Needs[f.fn]))
  BY DEF LegalFrame
<1>2. Len(more) = Len(f.got) + 1 /\ IsSeq(more) /\ Len(f.got) \in Nat  BY <1>1, Appended
<1> HIDE DEF more
<1>3. IsFrame(h) /\ h.fn = f.fn /\ h.got = more  BY FrameIs
<1>4. /\ "binary_expr" \notin DOMAIN Needs /\ "expr" \notin DOMAIN Needs /\ "args" \notin DOMAIN Needs
      /\ \A fn \in DOMAIN Needs : Len(Needs[fn]) \in Nat
  BY NeedsAre, NeedsLen
<1> HIDE DEF h
<1>5. f.fn \in DOMAIN Needs => Len(more) \in 1 .. Len(Needs[f.fn])
  <2> SUFFICES ASSUME f.fn \in DOMAIN Needs PROVE Len(more) \in 1 .. Len(Needs[f.fn])
    OBVIOUS
  <2>1. Len(f.got) < Len(Needs[f.fn])  BY <1>4
  <2>2. Len(Needs[f.fn]) \in Nat  BY <1>4
  <2> QED  BY <1>2, <2>1, <2>2
<1>6. f.fn = "binary_expr" => Len(more) \in 0 .. 2
  <2> SUFFICES ASSUME f.fn = "binary_expr" PROVE Len(more) \in 0 .. 2
    OBVIOUS
  <2>1. Len(f.got) = 1  BY <1>4
  <2> QED  BY <1>2, <2>1
<1>7. LegalFrame(h)  BY <1>1, <1>2, <1>3, <1>5, <1>6 DEF LegalFrame
<1> QED  BY <1>7 DEF h, more

LEMMA FrameOne ==
  ASSUME NEW fn, NEW from, NEW x, fn \in DOMAIN Needs \/ fn = "binary_expr"
  PROVE  LegalFrame(Frame(fn, from, <<x>>))
<1> DEFINE h == Frame(fn, from, <<x>>)
<1>1. IsFrame(h) /\ h.fn = fn /\ h.got = <<x>>  BY FrameIs
<1>2. IsSeq(<<x>>) /\ Len(<<x>>) = 1
  <2>1. <<x>> = Append(<<>>, x)  OBVIOUS
  <2> DEFINE q == <<>>
  <2>2. IsSeq(q) /\ Len(q) = 0  BY NoneIsSeq
  <2> HIDE DEF q
  <2>3. IsSeq(Append(q, x)) /\ Len(Append(q, x)) = Len(q) + 1  BY <2>2, Appended
  <2>4. IsSeq(Append(q, x)) /\ Len(Append(q, x)) = 1  BY <2>2, <2>3
  <2> QED  BY <2>1, <2>4 DEF q
<1>3. \A g \in DOMAIN Needs : 1 \in 1 .. Len(Needs[g])
  <2>1. \A n \in {1, 2, 3, 4, 5, 6, 7, 8} : 1 \in 1 .. n  OBVIOUS
  <2>2. \A g \in DOMAIN Needs : Len(Needs[g]) \in {1, 2, 3, 4, 5, 6, 7, 8}  BY NeedsAre, NeedsLen
  <2> HIDE DEF Needs
  <2> QED  BY <2>1, <2>2, ZenonT(30)
<1>4. fn \in Fields  BY DEF Fields, Callees
<1> HIDE DEF h
<1>5. fn \in DOMAIN Needs => Len(h.got) \in 1 .. Len(Needs[fn])  BY <1>1, <1>2, <1>3
<1>6. Len(h.got) \in 0 .. 2 /\ IsSeq(h.got)  BY <1>1, <1>2
<1>7. LegalFrame(h)  BY <1>1, <1>4, <1>5, <1>6 DEF LegalFrame
<1> QED  BY <1>7 DEF h

LEMMA FrameNone ==
  ASSUME NEW fn \in Callees, NEW from
  PROVE  LegalFrame(Frame(fn, from, <<>>))
<1> DEFINE h == Frame(fn, from, <<>>)
<1>1. IsFrame(h) /\ h.fn = fn /\ h.got = <<>>  BY FrameIs
<1>2. IsSeq(<<>>) /\ Len(<<>>) = 0  BY NoneIsSeq
<1>3. fn \notin DOMAIN Needs  BY NeedsAre DEF Callees
<1>4. fn \in Fields  BY DEF Fields
<1> HIDE DEF h
<1> QED  BY <1>1, <1>2, <1>3, <1>4 DEF LegalFrame, h

LEMMA LegalSame ==
  ASSUME NEW calls, Legal(calls), calls # <<>>, NEW f, LegalFrame(f), f.fn = Over(calls).fn
  PROVE  Legal(Append(Under(calls), f))
<1>1. Legal(Under(calls)) /\ Called(Under(calls), f.fn)  BY LegalPop
<1> QED  BY <1>1, LegalPush

LEMMA LegalGiven ==
  ASSUME NEW calls, Legal(calls), calls # <<>>, NEW x,
         \/ /\ Over(calls).fn \in DOMAIN Needs
            /\ Len(Over(calls).got) < Len(Needs[Over(calls).fn])
         \/ Over(calls).fn = "binary_expr" /\ Len(Over(calls).got) = 1
         \/ Over(calls).fn \in {"expr", "args"}
  PROVE  Legal(Given(calls, x))
<1> DEFINE f == Over(calls)
           h == Frame(f.fn, f.from, Append(f.got, x))
<1>1. IsSeq(calls) /\ LegalFrame(f) /\ IsFrame(f)  BY LegalPop DEF LegalFrame
<1>2. Given(calls, x) = Append(Under(calls), h)  BY <1>1, GivenIs
<1>3. LegalFrame(h)  BY <1>1, FrameMore
<1>4. h.fn = f.fn  BY FrameIs
<1> HIDE DEF h
<1> QED  BY <1>2, <1>3, <1>4, LegalSame

LEMMA LegalOperand ==
  ASSUME NEW calls, Legal(calls), calls # <<>>, NEW e, Over(calls).fn = "binary_expr"
  PROVE  Legal(WithOperand(calls, e))
<1> DEFINE f == Over(calls)
           h == Frame(f.fn, f.from, Extended(f.got, e))
<1>1. IsSeq(calls) /\ LegalFrame(f) /\ IsFrame(f)  BY LegalPop DEF LegalFrame
<1>2. WithOperand(calls, e) = Append(Under(calls), h)  BY <1>1, WithOperandIs
<1>3. LegalFrame(h)
  <2>1. \E x : Extended(f.got, e) = <<x>>
    <3>1. CASE f.got = <<>>  BY <3>1 DEF Extended
    <3>2. CASE f.got # <<>>  BY <3>2 DEF Extended
    <3> QED  BY <3>1, <3>2
  <2> QED  BY <2>1, FrameOne
<1>4. h.fn = f.fn  BY FrameIs
<1> HIDE DEF h
<1> QED  BY <1>2, <1>3, <1>4, LegalSame

-----------------------------------------------------------------------------
(* The call on top.                                                        *)
LEMMA FollowsTop ==
  ASSUME NEW functions, NEW calls, Legal(calls), calls # <<>>, NEW F, NEW j,
         Follows(functions, calls, F, j)
  PROVE  /\ FrameCovers(Over(calls), F, j)
         /\ Follows(functions, Under(calls), F, Over(calls).from)
         /\ Over(calls).from \in Nat /\ j \in Nat /\ Over(calls).from <= j /\ j <= Len(tokens)
<1> DEFINE u == Under(calls)
           f == Over(calls)
<1>1. Append(u, f) = calls /\ IsSeq(u)  BY LegalPop
<1> HIDE DEF u, f
<1>2. FrameCovers(f, F, j) /\ Follows(functions, u, F, f.from)  BY <1>1, FollowsPush
<1>3. f.from \in Nat /\ j \in Nat /\ f.from <= j /\ j <= Len(tokens)  BY <1>2 DEF FrameCovers
<1> QED  BY <1>2, <1>3 DEF u, f

LEMMA FollowsGiven ==
  ASSUME NEW functions, NEW calls, Legal(calls), calls # <<>>, NEW F, NEW j, NEW x,
         NEW f, f = Over(calls),
         Follows(functions, Under(calls), F, f.from),
         FrameCovers(Frame(f.fn, f.from, Append(f.got, x)), F, j)
  PROVE  Follows(functions, Given(calls, x), F, j)
<1> DEFINE u == Under(calls)
           h == Frame(f.fn, f.from, Append(f.got, x))
<1>1. IsSeq(calls) /\ IsFrame(f) /\ IsSeq(u)  BY LegalPop DEF LegalFrame
<1>2. Given(calls, x) = Append(u, h)  BY <1>1, GivenIs
<1>3. h.from = f.from  BY FrameIs
<1> HIDE DEF u, h
<1>4. Follows(functions, u, F, h.from) /\ FrameCovers(h, F, j)  BY <1>3 DEF u, h
<1>5. Follows(functions, Append(u, h), F, j)  BY <1>1, <1>4, FollowsPush
<1> QED  BY <1>2, <1>5

LEMMA FollowsOperand ==
  ASSUME NEW functions, NEW calls, Legal(calls), calls # <<>>, NEW F, NEW j, NEW e,
         NEW f, f = Over(calls),
         Follows(functions, Under(calls), F, f.from),
         FrameCovers(Frame(f.fn, f.from, Extended(f.got, e)), F, j)
  PROVE  Follows(functions, WithOperand(calls, e), F, j)
<1> DEFINE u == Under(calls)
           h == Frame(f.fn, f.from, Extended(f.got, e))
<1>1. IsSeq(calls) /\ IsFrame(f) /\ IsSeq(u)  BY LegalPop DEF LegalFrame
<1>2. WithOperand(calls, e) = Append(u, h)  BY <1>1, WithOperandIs
<1>3. h.from = f.from  BY FrameIs
<1> HIDE DEF u, h
<1>4. Follows(functions, u, F, h.from) /\ FrameCovers(h, F, j)  BY <1>3 DEF u, h
<1>5. Follows(functions, Append(u, h), F, j)  BY <1>1, <1>4, FollowsPush
<1> QED  BY <1>2, <1>5

LEMMA FollowsFrame ==
  ASSUME NEW functions, NEW calls, IsSeq(calls), NEW F, NEW fn, NEW i, NEW j, NEW got,
         Follows(functions, calls, F, i),
         FrameCovers(Frame(fn, i, got), F, j)
  PROVE  Follows(functions, Append(calls, Frame(fn, i, got)), F, j)
<1> DEFINE h == Frame(fn, i, got)
<1>1. h.from = i  BY FrameIs
<1> HIDE DEF h
<1>2. FrameCovers(h, F, j) /\ Follows(functions, calls, F, h.from)  BY <1>1 DEF h
<1>3. Follows(functions, Append(calls, h), F, j)  BY <1>2, FollowsPush
<1> QED  BY <1>3 DEF h

-----------------------------------------------------------------------------
(* What a call has got, and one thing more.                                *)
LEMMA NoNeeds ==
  /\ "binary_expr" \notin DOMAIN Needs /\ "expr" \notin DOMAIN Needs /\ "args" \notin DOMAIN Needs
  /\ "fn" \in DOMAIN Needs /\ "arg" \in DOMAIN Needs /\ Alternatives \subseteq DOMAIN Needs
  /\ \A fn \in DOMAIN Needs : fn \notin Callees
BY NeedsAre DEF Alternatives, Callees

LEMMA FrameItem ==
  ASSUME NEW f, LegalFrame(f), f.fn \in DOMAIN Needs, NEW F, NEW i, FrameCovers(f, F, i),
         NEW x, NEW j, ItemCovers(Needs[f.fn][Len(f.got) + 1], x, F, i, j)
  PROVE  FrameCovers(Frame(f.fn, f.from, Append(f.got, x)), F, j)
<1> DEFINE more == Append(f.got, x)
           h == Frame(f.fn, f.from, more)
<1>1. f.from \in Nat /\ f.from <= i /\ ItemsCover(Needs[f.fn], f.got, F, f.from, i)
  BY DEF FrameCovers
<1>2. i \in Nat /\ j \in Nat /\ i <= j /\ j <= Len(tokens)  BY DEF ItemCovers
<1>3. IsSeq(f.got)  BY DEF LegalFrame
<1>4. ItemsCover(Needs[f.fn], more, F, f.from, j)  BY <1>1, <1>3, ItemsMore
<1> HIDE DEF more
<1>5. h.fn = f.fn /\ h.from = f.from /\ h.got = more  BY FrameIs
<1> HIDE DEF h
<1>6. h.fn \notin Callees /\ h.fn \in DOMAIN Needs  BY <1>5, NoNeeds
<1>7. h.fn # "binary_expr" /\ h.fn # "expr" /\ h.fn # "args"  BY <1>6 DEF Callees
<1>8. h.from \in Nat /\ h.from <= j  BY <1>1, <1>2, <1>5
<1>9. FrameCovers(h, F, j)  BY <1>2, <1>4, <1>5, <1>7, <1>8 DEF FrameCovers
<1> QED  BY <1>9 DEF h, more

LEMMA FrameOperand ==
  ASSUME Input, NEW f, LegalFrame(f), f.fn = "binary_expr", Len(f.got) # 1,
         NEW F, NEW i, FrameCovers(f, F, i), NEW e, NEW j, Meant(e, F, i, j)
  PROVE  FrameCovers(Frame(f.fn, f.from, Extended(f.got, e)), F, j)
<1> DEFINE more == Extended(f.got, e)
           h == Frame(f.fn, f.from, more)
<1>1. f.from \in Nat /\ f.from <= i /\ ChainCovers(f.got, F, f.from, i)
  BY DEF FrameCovers
<1>2. i \in Nat /\ j \in Nat /\ i < j /\ j <= Len(tokens)  BY PartsMeant DEF Meant, Covers
<1>3. \E y : more = <<y>> /\ Meant(y, F, f.from, j)
  <2>1. CASE f.got = <<>> /\ i = f.from
    <3>1. more = <<e>>  BY <2>1 DEF Extended
    <3> QED  BY <2>1, <3>1
  <2>2. CASE /\ Len(f.got) = 2 /\ Meant(f.got[1], F, f.from, i - 1)
             /\ f.got[2] \in DOMAIN BinaryTag /\ IsWord(i, f.got[2])
    <3> DEFINE k == i - 1
    <3>1. k + 1 = i  BY <1>2
    <3>2. f.got # <<>>
      <4>1. Len(<<>>) # 2  OBVIOUS
      <4> QED  BY <2>2, <4>1
    <3>3. more = <<Join(f.got[1], token_type_to_binary_tag(f.got[2]), e)>>  BY <3>2 DEF Extended
    <3>4. Meant(f.got[1], F, f.from, k) /\ IsWord(k + 1, f.got[2]) /\ Meant(e, F, k + 1, j)
      BY <2>2, <3>1
    <3> HIDE DEF k
    <3>5. Meant(Join(f.got[1], token_type_to_binary_tag(f.got[2]), e), F, f.from, j)
      BY <2>2, <3>4, JoinMeant
    <3> QED  BY <3>3, <3>5
  <2> QED  BY <1>1, <2>1, <2>2 DEF ChainCovers
<1> HIDE DEF more
<1>4. h.fn = f.fn /\ h.from = f.from /\ h.got = more  BY FrameIs
<1> HIDE DEF h
<1>5. ChainCovers(h.got, F, h.from, j)
  <2>1. PICK y : more = <<y>> /\ Meant(y, F, f.from, j)  BY <1>3
  <2>2. Len(more) = 1 /\ more[1] = y  BY <2>1
  <2> QED  BY <1>4, <2>1, <2>2 DEF ChainCovers
<1>6. h.fn \notin DOMAIN Needs /\ h.fn # "expr" /\ h.fn # "args"  BY <1>4, NoNeeds
<1>7. FrameCovers(h, F, j)
  <2>1. h.from \in Nat /\ h.from <= j  BY <1>1, <1>2, <1>4
  <2> QED  BY <1>2, <1>5, <1>6, <2>1 DEF FrameCovers
<1> QED  BY <1>7 DEF h, more

LEMMA FrameOperator ==
  ASSUME NEW f, LegalFrame(f), f.fn = "binary_expr", Len(f.got) = 1,
         NEW F, NEW i, FrameCovers(f, F, i), NEW w \in DOMAIN BinaryTag, IsWord(i + 1, w)
  PROVE  FrameCovers(Frame(f.fn, f.from, Append(f.got, w)), F, i + 1)
<1> DEFINE more == Append(f.got, w)
           h == Frame(f.fn, f.from, more)
<1>1. /\ f.from \in Nat /\ f.from <= i /\ ChainCovers(f.got, F, f.from, i)
      /\ i \in Nat /\ i <= Len(tokens)
  BY DEF FrameCovers
<1>2. Meant(f.got[1], F, f.from, i)
  <2>1. Len(<<>>) # 1  OBVIOUS
  <2> QED  BY <1>1, <2>1 DEF ChainCovers
<1>3. Len(more) = 2 /\ more[1] = f.got[1] /\ more[2] = w
  <2>1. IsSeq(f.got)  BY DEF LegalFrame
  <2>2. /\ Len(more) = Len(f.got) + 1 /\ more[Len(f.got) + 1] = w
        /\ \A k \in 1 .. Len(f.got) : more[k] = f.got[k]
    BY <2>1, Appended
  <2> HIDE DEF more
  <2> QED  BY <2>2
<1> HIDE DEF more
<1>4. h.fn = f.fn /\ h.from = f.from /\ h.got = more  BY FrameIs
<1> HIDE DEF h
<1>5. i + 1 \in Nat /\ (i + 1) - 1 = i /\ i + 1 <= Len(tokens) /\ f.from <= i + 1
  BY <1>1 DEF IsWord
<1>6. ChainCovers(h.got, F, h.from, i + 1)
  <2> DEFINE j == i + 1
  <2>1. Meant(f.got[1], F, f.from, j - 1) /\ IsWord(j, w)  BY <1>2, <1>5
  <2> HIDE DEF j
  <2>2. ChainCovers(h.got, F, h.from, j)  BY <1>3, <1>4, <2>1 DEF ChainCovers
  <2> QED  BY <2>2 DEF j
<1>7. h.fn \notin DOMAIN Needs /\ h.fn # "expr" /\ h.fn # "args"  BY <1>4, NoNeeds
<1>8. FrameCovers(h, F, i + 1)
  BY <1>1, <1>4, <1>5, <1>6, <1>7 DEF FrameCovers
<1> QED  BY <1>8 DEF h, more

LEMMA FrameStatement ==
  ASSUME NEW f, LegalFrame(f), f.fn = "expr",
         NEW F, NEW i, FrameCovers(f, F, i), NEW x, NEW j, Meant(x, F, i, j), IsWord(j + 1, Semicolon)
  PROVE  FrameCovers(Frame(f.fn, f.from, Append(f.got, x)), F, j + 1)
<1> DEFINE more == Append(f.got, x)
           h == Frame(f.fn, f.from, more)
           m == j + 1
<1>1. /\ f.from \in Nat /\ f.from <= i /\ i \in Nat
      /\ IsWord(f.from + 1, Opening) /\ BlockCovers(f.got, F, f.from + 1, i)
  BY DEF FrameCovers
<1>2. j \in Nat /\ i < j  BY DEF Meant
<1>3. m \in Nat /\ m - 1 = j /\ m <= Len(tokens) /\ f.from <= m  BY <1>1, <1>2 DEF IsWord
<1>4. Meant(x, F, i, m - 1) /\ IsWord(m, Semicolon)  BY <1>3
<1> HIDE DEF m
<1>5. BlockCovers(more, F, f.from + 1, m)
  <2>1. IsSeq(f.got)  BY DEF LegalFrame
  <2> QED  BY <1>1, <1>3, <1>4, <2>1, BlockMore
<1> HIDE DEF more
<1>6. h.fn = f.fn /\ h.from = f.from /\ h.got = more  BY FrameIs
<1> HIDE DEF h
<1>7. h.fn \notin DOMAIN Needs /\ h.fn # "binary_expr" /\ h.fn # "args"  BY <1>6, NoNeeds
<1>8. FrameCovers(h, F, m)  BY <1>1, <1>3, <1>5, <1>6, <1>7 DEF FrameCovers
<1> QED  BY <1>8 DEF h, more, m

(* Parameters.                                                             *)
LEMMA ArgMeant ==
  ASSUME NEW f, f.fn = "arg", Len(f.got) = 3, NEW F, NEW j, FrameCovers(f, F, j)
  PROVE  /\ j = f.from + 3
         /\ ArgAt([name |-> f.got[1], type |-> f.got[3]], F, f.from)
<1> DEFINE i == f.from
           a == [name |-> f.got[1], type |-> f.got[3]]
<1>1. i \in Nat /\ ItemsCover(Needs["arg"], f.got, F, i, j)
  BY NoNeeds DEF FrameCovers
<1>2. PICK at : /\ at[0] = i /\ at[3] = j
                /\ ItemCovers("IDENTIFIER", f.got[1], F, at[0], at[1])
                /\ ItemCovers(":", f.got[2], F, at[1], at[2])
                /\ ItemCovers("program_type", f.got[3], F, at[2], at[3])
  BY <1>1, ArgItems
<1> HIDE DEF i
<1>3. at[1] = i + 1 /\ f.got[1] = i + 1 /\ IsWord(i + 1, "IDENTIFIER") /\ i + 1 \notin F
  BY <1>2, WordItem DEF NeededWords
<1>4. at[2] = i + 2 /\ IsWord(i + 2, ":")
  <2>1. at[2] = at[1] + 1 /\ IsWord(at[2], ":")  BY <1>2, WordItem DEF NeededWords
  <2> QED  BY <1>1, <1>3, <2>1
<1>5. at[3] = i + 3 /\ f.got[3] \in ProgramTypes /\ IsWord(i + 3, f.got[3])
  <2>1. at[3] = at[2] + 1 /\ f.got[3] \in ProgramTypes /\ IsWord(at[3], f.got[3])  BY <1>2, TypeItem
  <2> QED  BY <1>1, <1>4, <2>1
<1>6. a.name = i + 1 /\ a.type = f.got[3]  BY <1>3
<1> HIDE DEF a
<1>7. ArgAt(a, F, i)  BY <1>3, <1>4, <1>5, <1>6 DEF ArgAt
<1> QED  BY <1>2, <1>5, <1>7 DEF a, i

LEMMA ArgsMore ==
  ASSUME NEW args, NEW F, NEW i \in Nat, ArgsRead(args, F, i), NEW a,
         ArgAt(a, F, i + 4 * Len(args))
  PROVE  /\ ArgsRead(Append(args, a), F, i) /\ Len(Append(args, a)) = Len(args) + 1
         /\ Len(args) \in Nat
<1> DEFINE n == Len(args)
           more == Append(args, a)
<1>1. IsSeq(args) /\ \A k \in 1 .. n : ArgAt(args[k], F, i + 4 * (k - 1))
  BY DEF ArgsRead
<1>2. /\ n \in Nat /\ Len(more) = n + 1 /\ IsSeq(more)
      /\ \A k \in 1 .. n : more[k] = args[k]
      /\ more[n + 1] = a
  BY <1>1, Appended
<1>3. ArgAt(a, F, i + 4 * n)  OBVIOUS
<1> HIDE DEF n, more
<1>4. ASSUME NEW k \in 1 .. n + 1 PROVE ArgAt(more[k], F, i + 4 * (k - 1))
  <2>1. CASE k = n + 1
    <3>1. k - 1 = n /\ more[k] = a  BY <1>2, <2>1
    <3> QED  BY <1>3, <3>1
  <2>2. CASE k # n + 1
    <3>1. k \in 1 .. n  BY <1>2, <2>2
    <3> QED  BY <1>1, <1>2, <3>1
  <2> QED  BY <2>1, <2>2
<1>5. ArgsRead(more, F, i)  BY <1>2, <1>4 DEF ArgsRead
<1> QED  BY <1>2, <1>5 DEF more, n

LEMMA FrameArg ==
  ASSUME NEW f, LegalFrame(f), f.fn = "args", NEW F, NEW i, FrameCovers(f, F, i),
         NEW a, ArgAt(a, F, i), IsWord(i + 4, Comma)
  PROVE  FrameCovers(Frame(f.fn, f.from, Append(f.got, a)), F, i + 4)
<1> DEFINE n == Len(f.got)
           more == Append(f.got, a)
           h == Frame(f.fn, f.from, more)
           j == i + 4
<1>1. /\ f.from \in Nat /\ f.from <= i /\ i \in Nat
      /\ ArgsRead(f.got, F, f.from) /\ Commas(n, f.from) /\ i = f.from + 4 * n
  BY DEF FrameCovers
<1>2. ArgsRead(more, F, f.from) /\ Len(more) = n + 1 /\ n \in Nat  BY <1>1, ArgsMore
<1> HIDE DEF n, more
<1>3. /\ j = f.from + 4 * (n + 1) /\ j \in Nat /\ f.from <= j /\ j <= Len(tokens)
  <2>1. j <= Len(tokens)  BY DEF IsWord
  <2> QED  BY <1>1, <1>2, <2>1
<1>0. IsWord(j, Comma)  OBVIOUS
<1> HIDE DEF j
<1>4. Commas(n + 1, f.from)
  <2>1. \A k \in 1 .. n : IsWord(f.from + 4 * k, Comma)  BY <1>1 DEF Commas
  <2>2. \A k \in 1 .. n + 1 : k \in 1 .. n \/ k = n + 1  BY <1>2
  <2>3. IsWord(f.from + 4 * (n + 1), Comma)  BY <1>0, <1>3
  <2> QED  BY <2>1, <2>2, <2>3 DEF Commas
<1>5. h.fn = f.fn /\ h.from = f.from /\ h.got = more  BY FrameIs
<1> HIDE DEF h
<1>6. h.fn \notin DOMAIN Needs /\ h.fn # "binary_expr" /\ h.fn # "expr"  BY <1>5, NoNeeds
<1>7. FrameCovers(h, F, j)  BY <1>1, <1>2, <1>3, <1>4, <1>5, <1>6 DEF FrameCovers
<1> QED  BY <1>7 DEF h, more, j

LEMMA ArgsWhole ==
  ASSUME NEW f, f.fn = "args", NEW F, NEW i, FrameCovers(f, F, i)
  PROVE  /\ ItemCovers("args", f.got, F, f.from, i)
         /\ \A a : ArgAt(a, F, i) => ItemCovers("args", Append(f.got, a), F, f.from, i + 3)
<1> DEFINE n == Len(f.got)
<1>1. /\ f.from \in Nat /\ f.from <= i /\ i \in Nat /\ i <= Len(tokens)
      /\ ArgsRead(f.got, F, f.from) /\ Commas(n, f.from) /\ i = f.from + 4 * n
  BY DEF FrameCovers
<1>2. ArgsCover(f.got, F, f.from, i)  BY <1>1 DEF ArgsCover
<1>3. ItemCovers("args", f.got, F, f.from, i)
  BY <1>1, <1>2 DEF ItemCovers, Callees
<1>4. ASSUME NEW a, ArgAt(a, F, i)
      PROVE  ItemCovers("args", Append(f.got, a), F, f.from, i + 3)
  <2> DEFINE more == Append(f.got, a)
             j == i + 3
  <2>1. ArgsRead(more, F, f.from) /\ Len(more) = n + 1 /\ n \in Nat  BY <1>1, <1>4, ArgsMore
  <2> HIDE DEF n, more
  <2>2. (n + 1) - 1 = n /\ n + 1 > 0 /\ j = f.from + 4 * (n + 1) - 1  BY <1>1, <2>1
  <2>3. j \in Nat /\ f.from <= j /\ j <= Len(tokens)
    <3>1. \E t : IsWord(i + 3, t)  BY <1>4 DEF ArgAt
    <3>2. j <= Len(tokens)  BY <3>1 DEF IsWord
    <3> QED  BY <1>1, <3>2
  <2> HIDE DEF j
  <2>4. ArgsCover(more, F, f.from, j)  BY <1>1, <2>1, <2>2 DEF ArgsCover
  <2>5. ItemCovers("args", more, F, f.from, j)  BY <1>1, <2>3, <2>4 DEF ItemCovers, Callees
  <2> QED  BY <2>5 DEF more, j
<1> QED  BY <1>3, <1>4

-----------------------------------------------------------------------------
(* Calls that have got nothing yet, or the token they begin with.          *)
LEMMA FramesBegin ==
  ASSUME NEW F, NEW i \in Nat, i <= Len(tokens)
  PROVE  /\ FrameCovers(Frame("binary_expr", i, <<>>), F, i)
         /\ FrameCovers(Frame("args", i, <<>>), F, i)
         /\ IsWord(i + 1, Opening) => FrameCovers(Frame("expr", i, <<>>), F, i + 1)
<1>0. IsSeq(<<>>) /\ Len(<<>>) = 0  BY NoneIsSeq
<1>1. FrameCovers(Frame("binary_expr", i, <<>>), F, i)
  <2> DEFINE h == Frame("binary_expr", i, <<>>)
  <2>1. h.fn = "binary_expr" /\ h.from = i /\ h.got = <<>>  BY FrameIs
  <2> HIDE DEF h
  <2>2. ChainCovers(h.got, F, h.from, i)  BY <2>1 DEF ChainCovers
  <2>3. FrameCovers(h, F, i)  BY <2>1, <2>2, NoNeeds DEF FrameCovers
  <2> QED  BY <2>3 DEF h
<1>2. FrameCovers(Frame("args", i, <<>>), F, i)
  <2> DEFINE h == Frame("args", i, <<>>)
  <2>1. h.fn = "args" /\ h.from = i /\ h.got = <<>>  BY FrameIs
  <2> HIDE DEF h
  <2>2. ArgsRead(h.got, F, h.from) /\ Commas(Len(h.got), h.from) /\ i = h.from + 4 * Len(h.got)
    BY <1>0, <2>1 DEF ArgsRead, Commas
  <2>3. FrameCovers(h, F, i)  BY <2>1, <2>2, NoNeeds DEF FrameCovers
  <2> QED  BY <2>3 DEF h
<1>3. IsWord(i + 1, Opening) => FrameCovers(Frame("expr", i, <<>>), F, i + 1)
  <2> SUFFICES ASSUME IsWord(i + 1, Opening)
               PROVE  FrameCovers(Frame("expr", i, <<>>), F, i + 1)
    OBVIOUS
  <2> DEFINE h == Frame("expr", i, <<>>)
             j == i + 1
             at == [k \in 0 .. 0 |-> j]
  <2>1. h.fn = "expr" /\ h.from = i /\ h.got = <<>>  BY FrameIs
  <2>2. j \in Nat /\ j <= Len(tokens) /\ i <= j  BY DEF IsWord
  <2>0. IsWord(j, Opening)  OBVIOUS
  <2> HIDE DEF h, j
  <2>3. Behind(0, at, j, j)  BY <2>2 DEF Behind
  <2> HIDE DEF at
  <2>4. BlockCovers(h.got, F, j, j)  BY <1>0, <2>1, <2>3 DEF BlockCovers, Statements
  <2>5. h.from + 1 = j  BY <2>1 DEF j
  <2>6. FrameCovers(h, F, j)
    BY <2>0, <2>1, <2>2, <2>4, <2>5, NoNeeds DEF FrameCovers
  <2> QED  BY <2>6 DEF h, j
<1> QED  BY <1>1, <1>2, <1>3

(* A call that begins with a token.                                        *)
LEMMA FrameToken ==
  ASSUME NEW F, NEW i \in Nat, i <= Len(tokens), NEW fn \in DOMAIN Needs,
         Needs[fn][1] \in NeededWords, IsWord(i + 1, Needs[fn][1]),
         i + 1 \notin F
  PROVE  FrameCovers(Frame(fn, i, <<i + 1>>), F, i + 1)
<1> DEFINE j == i + 1
           h == Frame(fn, i, <<j>>)
           w == Needs[fn][1]
           q == <<>>
<1>1. h.fn = fn /\ h.from = i /\ h.got = <<j>>  BY FrameIs
<1>2. j \in Nat /\ j <= Len(tokens) /\ i <= j  BY DEF IsWord
<1>3. w \notin Callees \union {"program_type"}  BY DEF NeededWords, Callees
<1>0. j = i + 1 /\ IsWord(j, w) /\ j \notin F  OBVIOUS
<1> HIDE DEF w, h
<1>4. ItemCovers(w, j, F, i, j)
  <2> HIDE DEF j
  <2> QED  BY <1>0, <1>2, <1>3 DEF ItemCovers, Callees
<1> HIDE DEF j
<1>5. ItemsCover(Needs[fn], q, F, i, i)
  <2> DEFINE at == [k \in 0 .. 0 |-> i]
  <2>1. Behind(0, at, i, i)  BY DEF Behind
  <2> HIDE DEF at
  <2>2. Len(q) = 0  OBVIOUS
  <2> QED  BY <2>1, <2>2 DEF ItemsCover
<1>6. IsSeq(q) /\ Len(q) = 0 /\ Append(q, j) = <<j>>  BY NoneIsSeq
<1> HIDE DEF q
<1>7. Len(q) + 1 = 1  BY <1>6
<1>8. ItemCovers(Needs[fn][Len(q) + 1], j, F, i, j)  BY <1>4, <1>7 DEF w
<1>9. ItemsCover(Needs[fn], Append(q, j), F, i, j)  BY <1>5, <1>6, <1>8, ItemsMore
<1>10. h.fn \in DOMAIN Needs /\ h.fn \notin Callees  BY <1>1, NoNeeds
<1>11. FrameCovers(h, F, j)
  <2>1. h.fn # "binary_expr" /\ h.fn # "expr" /\ h.fn # "args"  BY <1>10 DEF Callees
  <2> QED  BY <1>1, <1>2, <1>6, <1>9, <2>1 DEF FrameCovers
<1> QED  BY <1>11 DEF h, j

(* A block is whole.                                                       *)
LEMMA BlockWhole ==
  ASSUME Input, NEW f, LegalFrame(f), f.fn = "expr", f.got # <<>>, NEW F, NEW i,
         FrameCovers(f, F, i), IsWord(i + 1, Closing)
  PROVE  ItemCovers("expr", Seq2(f.got), F, f.from, i + 1)
<1> DEFINE a == f.from + 1
           j == i + 1
<1>1. /\ f.from \in Nat /\ f.from <= i /\ i \in Nat
      /\ IsWord(a, Opening) /\ BlockCovers(f.got, F, a, i)
  BY DEF FrameCovers
<1>2. j \in Nat /\ j <= Len(tokens) /\ j - 1 = i /\ f.from <= j /\ IsWord(j, Closing)
  BY <1>1 DEF IsWord
<1>3. IsSeq(f.got)  BY DEF LegalFrame
<1> HIDE DEF a, j
<1>4. PICK at : Behind(Len(f.got), at, a, i) /\ Statements(f.got, F, at)
  BY <1>1 DEF BlockCovers
<1>5. Meant(Seq2(f.got), F, a, i)  BY <1>3, <1>4, SeqMeant
<1>6. Meant(Seq2(f.got), F, f.from + 1, j - 1) /\ IsWord(f.from + 1, Opening)
  BY <1>1, <1>2, <1>5 DEF a
<1>7. ItemCovers("expr", Seq2(f.got), F, f.from, j)
  BY <1>1, <1>2, <1>6 DEF ItemCovers, Callees
<1> QED  BY <1>7 DEF j

(* An alternative turns out to be longer.                                  *)
LEMMA LongerIs ==
  ASSUME NEW l \in Longer
  PROVE  /\ l[1] \in Alternatives /\ l[3] \in Alternatives /\ l[2] \in NeededWords \ {"IDENTIFIER"}
         /\ Len(Needs[l[1]]) \in Nat
         /\ Len(Needs[l[1]]) < Len(Needs[l[3]]) /\ Len(Needs[l[3]]) \in Nat
         /\ \A k \in 1 .. Len(Needs[l[1]]) : Needs[l[3]][k] = Needs[l[1]][k]
         /\ Needs[l[3]][Len(Needs[l[1]]) + 1] = l[2]
<1>1. CASE l = <<"if", "else", "if_else">>
  <2>1. l[1] = "if" /\ l[2] = "else" /\ l[3] = "if_else"  BY <1>1
  <2>2. /\ Len(Needs[l[1]]) = 5 /\ Len(Needs[l[3]]) = 7
        /\ Needs[l[1]] = <<"if", "(", "binary_expr", ")", "expr">>
        /\ Needs[l[3]] = <<"if", "(", "binary_expr", ")", "expr", "else", "expr">>
    BY <2>1, NeedsAre, NeedsLen
  <2>3. \A k \in 1 .. 5 : k = 1 \/ k = 2 \/ k = 3 \/ k = 4 \/ k = 5  OBVIOUS
  <2> QED  BY <2>1, <2>2, <2>3 DEF Alternatives, NeededWords
<1>2. CASE l = <<"deref", "=", "deref_assign">>
  <2>1. l[1] = "deref" /\ l[2] = "=" /\ l[3] = "deref_assign"  BY <1>2
  <2>2. /\ Len(Needs[l[1]]) = 2 /\ Len(Needs[l[3]]) = 4
        /\ Needs[l[1]] = <<"*", "binary_expr">>
        /\ Needs[l[3]] = <<"*", "binary_expr", "=", "binary_expr">>
    BY <2>1, NeedsAre, NeedsLen
  <2>3. \A k \in 1 .. 2 : k = 1 \/ k = 2  OBVIOUS
  <2> QED  BY <2>1, <2>2, <2>3 DEF Alternatives, NeededWords
<1>3. CASE l = <<"var", "(", "func_call">>
  <2>1. l[1] = "var" /\ l[2] = "(" /\ l[3] = "func_call"  BY <1>3
  <2>2. /\ Len(Needs[l[1]]) = 1 /\ Len(Needs[l[3]]) = 3
        /\ Needs[l[1]] = <<"IDENTIFIER">>
        /\ Needs[l[3]] = <<"IDENTIFIER", "(", ")">>
    BY <2>1, NeedsAre, NeedsLen
  <2>3. \A k \in 1 .. 1 : k = 1  OBVIOUS
  <2> QED  BY <2>1, <2>2, <2>3 DEF Alternatives, NeededWords
<1>4. CASE l = <<"var", "=", "var_assign">>
  <2>1. l[1] = "var" /\ l[2] = "=" /\ l[3] = "var_assign"  BY <1>4
  <2>2. /\ Len(Needs[l[1]]) = 1 /\ Len(Needs[l[3]]) = 3
        /\ Needs[l[1]] = <<"IDENTIFIER">>
        /\ Needs[l[3]] = <<"IDENTIFIER", "=", "binary_expr">>
    BY <2>1, NeedsAre, NeedsLen
  <2>3. \A k \in 1 .. 1 : k = 1  OBVIOUS
  <2> QED  BY <2>1, <2>2, <2>3 DEF Alternatives, NeededWords
<1> QED  BY <1>1, <1>2, <1>3, <1>4 DEF Longer

LEMMA FrameLonger ==
  ASSUME NEW l \in Longer, NEW f, LegalFrame(f), f.fn = l[1], Len(f.got) = Len(Needs[f.fn]),
         NEW F, NEW i, FrameCovers(f, F, i), IsWord(i + 1, l[2])
  PROVE  FrameCovers(Frame(l[3], f.from, Append(f.got, i + 1)), F, i + 1)
<1> DEFINE j == i + 1
           n == Len(f.got)
           h == Frame(l[3], f.from, Append(f.got, j))
<1>1. f.fn \in DOMAIN Needs /\ l[3] \in DOMAIN Needs /\ l[2] \in NeededWords \ {"IDENTIFIER"}
  BY LongerIs, NoNeeds
<1>2. /\ f.from \in Nat /\ f.from <= i /\ i \in Nat /\ ItemsCover(Needs[f.fn], f.got, F, f.from, i)
  BY <1>1 DEF FrameCovers
<1>3. /\ \A k \in 1 .. n : Needs[l[3]][k] = Needs[f.fn][k]
      /\ Needs[l[3]][n + 1] = l[2]
  BY LongerIs
<1>4. ItemsCover(Needs[l[3]], f.got, F, f.from, i)  BY <1>2, <1>3, ItemsNeeded
<1>5. j \in Nat /\ i <= j /\ j = i + 1 /\ f.from <= j /\ j <= Len(tokens) /\ IsWord(j, l[2])
  BY <1>2 DEF IsWord
<1>6. ItemCovers(l[2], j, F, i, j)
  <2>1. l[2] \notin Callees \union {"program_type", "IDENTIFIER"}
    BY <1>1 DEF NeededWords, Callees
  <2> HIDE DEF j
  <2> QED  BY <1>2, <1>5, <2>1 DEF ItemCovers, Callees
<1> HIDE DEF j
<1>7. ItemCovers(Needs[l[3]][Len(f.got) + 1], j, F, i, j)  BY <1>3, <1>6
<1>8. IsSeq(f.got)  BY DEF LegalFrame
<1>9. ItemsCover(Needs[l[3]], Append(f.got, j), F, f.from, j)  BY <1>4, <1>7, <1>8, ItemsMore
<1>10. h.fn = l[3] /\ h.from = f.from /\ h.got = Append(f.got, j)
  <2> DEFINE more == Append(f.got, j)
             w == l[3]
  <2> HIDE DEF more, w
  <2>1. LET g == Frame(w, f.from, more) IN g.fn = w /\ g.from = f.from /\ g.got = more
    BY FrameIs
  <2> QED  BY <2>1 DEF more, w
<1> HIDE DEF h
<1>11. h.fn \in DOMAIN Needs /\ h.fn \notin Callees  BY <1>1, <1>10, NoNeeds
<1>12. FrameCovers(h, F, j)
  <2>1. h.fn # "binary_expr" /\ h.fn # "expr" /\ h.fn # "args"  BY <1>11 DEF Callees
  <2> QED  BY <1>2, <1>5, <1>9, <1>10, <2>1 DEF FrameCovers
<1> QED  BY <1>12 DEF h, j

LEMMA LegalLonger ==
  ASSUME NEW calls, Legal(calls), calls # <<>>, NEW l \in Longer,
         NEW f, f = Over(calls), f.fn = l[1], Len(f.got) = Len(Needs[f.fn]), NEW x
  PROVE  Legal(Append(Under(calls), Frame(l[3], f.from, Append(f.got, x))))
<1> DEFINE u == Under(calls)
           more == Append(f.got, x)
           h == Frame(l[3], f.from, more)
<1>1. Legal(u) /\ LegalFrame(f) /\ Called(u, f.fn)  BY LegalPop
<1>2. /\ l[1] \in Alternatives /\ l[3] \in Alternatives
      /\ Len(Needs[l[1]]) \in Nat
      /\ Len(Needs[l[1]]) < Len(Needs[l[3]]) /\ Len(Needs[l[3]]) \in Nat
  BY LongerIs
<1>3. IsSeq(more) /\ Len(more) = Len(Needs[l[1]]) + 1
  <2>1. IsSeq(f.got)  BY <1>1 DEF LegalFrame
  <2> QED  BY <2>1, Appended
<1> HIDE DEF more, u
<1>4. IsFrame(h) /\ h.fn = l[3] /\ h.got = more  BY FrameIs
<1> HIDE DEF h
<1>5. h.fn \in DOMAIN Needs /\ h.fn # "binary_expr" /\ h.fn \in Fields
  BY <1>2, <1>4, NoNeeds DEF Fields
<1>6. Len(h.got) \in 1 .. Len(Needs[h.fn])
  <2>1. Len(h.got) = Len(Needs[l[1]]) + 1 /\ Needs[h.fn] = Needs[l[3]]  BY <1>3, <1>4
  <2> DEFINE a == Len(Needs[l[1]])
             b == Len(Needs[l[3]])
  <2>2. a \in Nat /\ b \in Nat /\ a < b  BY <1>2
  <2> HIDE DEF a, b
  <2>3. a + 1 \in 1 .. b  BY <2>2
  <2> QED  BY <2>1, <2>3 DEF a, b
<1>7. LegalFrame(h)  BY <1>3, <1>4, <1>5, <1>6 DEF LegalFrame
<1>8. Called(u, h.fn)
  <2>1. l[1] # "fn"  BY <1>2 DEF Alternatives
  <2>2. u # <<>> /\ Waits(Over(u), l[1])  BY <1>1, <2>1 DEF Called
  <2>3. Over(u).fn = "binary_expr" /\ Len(Over(u).got) # 1  BY <1>2, <2>2, WaitsFor
  <2>4. Waits(Over(u), l[3])  BY <1>2, <2>3, WaitsIs
  <2> QED  BY <1>4, <2>2, <2>4 DEF Called
<1>9. Legal(Append(u, h))  BY <1>1, <1>7, <1>8, LegalPush
<1> QED  BY <1>9 DEF u, h, more

-----------------------------------------------------------------------------
(* The actions that look for a mark.                                       *)
LEMMA BeginBlockIs ==
  ASSUME BeginBlock
  PROVE  /\ Needing /\ Need = "expr"
         /\ Is(Opening)
         /\ stack' = Append(stack, Frame("expr", index, <<>>))
         /\ Looks(1) /\ Takes(1)
         /\ UNCHANGED <<tokens, beyond, abort, ast, pc, errors, freed>>
BY Zenon DEF BeginBlock, Opening, Closing, Semicolon, Comma

LEMMA NoBlockIs ==
  ASSUME NoBlock
  PROVE  /\ Needing /\ Need = "expr"
         /\ ~Is(Opening)
         /\ abort' = TRUE
         /\ Looks(1)
         /\ UNCHANGED <<tokens, beyond, index, stack, ast, pc, errors, freed>>
BY Zenon DEF NoBlock, Opening, Closing, Semicolon, Comma

LEMMA EndOfStatementIs ==
  ASSUME EndOfStatement
  PROVE  /\ IsWhole /\ Caller.fn = "expr"
         /\ Is(Semicolon)
         /\ stack' = Given(Below, Top.got[1])
         /\ Looks(1) /\ Takes(1)
         /\ UNCHANGED <<tokens, beyond, abort, ast, pc, errors, freed>>
BY Zenon DEF EndOfStatement, Opening, Closing, Semicolon, Comma

LEMMA OpenStatementIs ==
  ASSUME OpenStatement
  PROVE  /\ IsWhole /\ Caller.fn = "expr"
         /\ ~Is(Semicolon)
         /\ abort' = TRUE /\ errors' = TRUE
         /\ Looks(1)
         /\ UNCHANGED <<tokens, beyond, index, stack, ast, pc, freed>>
BY Zenon DEF OpenStatement, Opening, Closing, Semicolon, Comma

LEMMA EndOfBlockIs ==
  ASSUME EndOfBlock
  PROVE  /\ NoStatement
         /\ Is(Closing) /\ Caller.got # <<>>
         /\ stack' = Given(SubSeq(stack, 1, Len(stack) - 2), Seq2(Caller.got))
         /\ Looks(1) /\ Takes(1)
         /\ UNCHANGED <<tokens, beyond, abort, ast, pc, errors, freed>>
BY Zenon DEF EndOfBlock, Opening, Closing, Semicolon, Comma

LEMMA EmptyBlockIs ==
  ASSUME EmptyBlock
  PROVE  /\ NoStatement
         /\ Is(Closing) /\ Caller.got = <<>>
         /\ abort' = TRUE /\ errors' = TRUE
         /\ Looks(1) /\ Takes(1)
         /\ UNCHANGED <<tokens, beyond, stack, ast, pc, freed>>
BY Zenon DEF EmptyBlock, Opening, Closing, Semicolon, Comma

LEMMA OpenBlockIs ==
  ASSUME OpenBlock
  PROVE  /\ NoStatement
         /\ ~Is(Closing)
         /\ abort' = TRUE /\ errors' = TRUE
         /\ Looks(1)
         /\ UNCHANGED <<tokens, beyond, index, stack, ast, pc, freed>>
BY Zenon DEF OpenBlock, Opening, Closing, Semicolon, Comma

LEMMA NextArgIs ==
  ASSUME NextArg
  PROVE  /\ Complete /\ Top.fn = "arg"
         /\ Is(Comma)
         /\ stack' = Given(Below, Arg)
         /\ Looks(1) /\ Takes(1)
         /\ UNCHANGED <<tokens, beyond, abort, ast, pc, errors, freed>>
BY Zenon DEF NextArg, Opening, Closing, Semicolon, Comma

LEMMA LastArgIs ==
  ASSUME LastArg
  PROVE  /\ Complete /\ Top.fn = "arg"
         /\ ~Is(Comma)
         /\ stack' = Given(SubSeq(stack, 1, Len(stack) - 2), Append(Caller.got, Arg))
         /\ Looks(1)
         /\ UNCHANGED <<tokens, beyond, index, abort, ast, pc, errors, freed>>
BY Zenon DEF LastArg, Opening, Closing, Semicolon, Comma

LEMMA AppendFunctionIs ==
  ASSUME AppendFunction
  PROVE  /\ Complete /\ Top.fn = "fn"
         /\ Is(Semicolon)
         /\ ast' = Append(ast, Function(Top.got))
         /\ stack' = <<>>
         /\ Looks(1) /\ Takes(1)
         /\ UNCHANGED <<tokens, beyond, abort, pc, errors, freed>>
BY Zenon DEF AppendFunction, Opening, Closing, Semicolon, Comma

LEMMA MissingSemicolonIs ==
  ASSUME MissingSemicolon
  PROVE  /\ Complete /\ Top.fn = "fn"
         /\ ~Is(Semicolon)
         /\ stack' = <<>>
         /\ pc' = "refused" /\ errors' = TRUE
         /\ Looks(1)
         /\ UNCHANGED <<tokens, beyond, index, abort, ast, freed>>
BY Zenon DEF MissingSemicolon, Opening, Closing, Semicolon, Comma

-----------------------------------------------------------------------------
(* The calls of a state.                                                   *)
LEMMA TopIs == Top = Over(stack) /\ Below = Under(stack) /\ Caller = Over(Under(stack))
BY DEF Top, Below, Caller, Over, Under

LEMMA TwoBelow ==
  ASSUME NEW calls, IsSeq(calls), calls # <<>>, Under(calls) # <<>>
  PROVE  SubSeq(calls, 1, Len(calls) - 2) = Under(Under(calls))
<1> DEFINE n == Len(calls)
           u == Under(calls)
           v == Under(u)
           w == SubSeq(calls, 1, n - 2)
           S == {calls[k] : k \in DOMAIN calls}
<1>1. /\ IsSeq(u) /\ n \in Nat /\ Len(u) = n - 1
      /\ \A k \in 1 .. n - 1 : u[k] = calls[k]
  BY Popped
<1>2. n - 1 > 0
  <2> DEFINE R == {u[k] : k \in DOMAIN u}
  <2>1. u \in Seq(R)  BY <1>1 DEF IsSeq
  <2> HIDE DEF R, u, n
  <2>2. Len(u) \in Nat /\ Len(u) # 0  BY <2>1, LenProperties, EmptySeq DEF u
  <2> QED  BY <1>1, <2>2
<1>3. /\ IsSeq(v) /\ Len(v) = (n - 1) - 1
      /\ \A k \in 1 .. (n - 1) - 1 : v[k] = u[k]
  <2> HIDE DEF u, n
  <2>1. u # <<>>  BY DEF u
  <2>2. /\ IsSeq(v) /\ Len(v) = Len(u) - 1
        /\ \A k \in 1 .. Len(u) - 1 : v[k] = u[k]
    BY <1>1, <2>1, Popped
  <2> QED  BY <1>1, <2>2
<1>4. calls \in Seq(S)  BY DEF IsSeq
<1> HIDE DEF S, v, u
<1>5. /\ w \in Seq(S) /\ Len(w) = n - 2
      /\ \A k \in 1 .. n - 2 : w[k] = calls[k]
  <2> DEFINE m == n - 2
  <2>1. m \in Nat /\ 1 <= m + 1 /\ m <= Len(calls)  BY <1>1, <1>2
  <2> HIDE DEF n, m
  <2>2. \A k \in 1 .. m : SubSeq(calls, 1, m)[k] = calls[k] /\ k \in Int
    BY <1>4, <2>1, SubSeqProperties
  <2>3. SubSeq(calls, 1, m) \in Seq(S) /\ Len(SubSeq(calls, 1, m)) = m
    BY <1>4, <2>1, SubSeqProperties
  <2> QED  BY <2>2, <2>3 DEF m
<1> HIDE DEF n, w
<1>6. Len(v) = Len(w) /\ \A k \in 1 .. Len(v) : v[k] = w[k]
  BY <1>1, <1>2, <1>3, <1>5
<1>7. v = w
  <2> DEFINE R == {v[k] : k \in DOMAIN v}
  <2>1. v \in Seq(R)  BY <1>3 DEF IsSeq
  <2> HIDE DEF R
  <2> QED  BY <1>5, <1>6, <2>1, SeqEqual
<1> QED  BY <1>7 DEF v, w, u, n

(* What the calls below the running one are.                               *)
LEMMA Positions ==
  ASSUME Legal(stack), stack # <<>>
  PROVE  /\ LegalFrame(Top) /\ Legal(Below) /\ Append(Below, Top) = stack /\ IsSeq(stack)
         /\ Top.fn = "fn" => Below = <<>>
         /\ Top.fn # "fn" =>
              /\ Below # <<>> /\ LegalFrame(Caller) /\ Legal(Under(Below)) /\ Waits(Caller, Top.fn)
              /\ SubSeq(stack, 1, Len(stack) - 2) = Under(Below)
         /\ Top.fn # "fn" /\ Caller.fn # "fn" =>
              /\ Under(Below) # <<>> /\ Waits(Over(Under(Below)), Caller.fn)
<1>1. /\ LegalFrame(Top) /\ Legal(Below) /\ Append(Below, Top) = stack /\ IsSeq(stack)
      /\ Called(Below, Top.fn)
  BY TopIs, LegalPop
<1>2. Top.fn = "fn" => Below = <<>>  BY <1>1, WaitsFor DEF Called
<1>3. ASSUME Top.fn # "fn"
      PROVE  /\ Below # <<>> /\ LegalFrame(Caller) /\ Legal(Under(Below)) /\ Waits(Caller, Top.fn)
             /\ SubSeq(stack, 1, Len(stack) - 2) = Under(Below)
             /\ Called(Under(Below), Caller.fn)
  <2>1. Below # <<>> /\ Waits(Over(Below), Top.fn)  BY <1>1, <1>3 DEF Called
  <2>2. Caller = Over(Below)  BY DEF Caller, Over
  <2>3. LegalFrame(Caller) /\ Legal(Under(Below)) /\ Called(Under(Below), Caller.fn)
    BY <1>1, <2>1, <2>2, LegalPop
  <2>4. SubSeq(stack, 1, Len(stack) - 2) = Under(Below)  BY <1>1, <2>1, TopIs, TwoBelow
  <2> QED  BY <2>1, <2>2, <2>3, <2>4
<1>4. Top.fn # "fn" /\ Caller.fn # "fn" =>
              /\ Under(Below) # <<>> /\ Waits(Over(Under(Below)), Caller.fn)
  BY <1>3 DEF Called
<1> QED  BY <1>1, <1>2, <1>3, <1>4

(* A call that waits for a tree or for parameters.                         *)
LEMMA WaitingNeeds ==
  ASSUME NEW f, LegalFrame(f), NEW fn \in Callees, Waits(f, fn), f.fn # "expr"
  PROVE  /\ f.fn \in DOMAIN Needs /\ Len(f.got) < Len(Needs[f.fn])
         /\ Needs[f.fn][Len(f.got) + 1] = fn
BY WaitsFor

-----------------------------------------------------------------------------
(* The calls keep their shape.                                             *)
LEMMA LegalTake ==
  ASSUME Legal(stack), Take
  PROVE  Legal(stack')
<1>1. /\ stack # <<>> /\ Top.fn \in DOMAIN Needs /\ Len(Top.got) < Len(Needs[Top.fn])
      /\ \E x : stack' = Given(stack, x)
  BY DEF Take, Needing, Running
<1> QED  BY <1>1, TopIs, LegalGiven

LEMMA LegalCall ==
  ASSUME Legal(stack), NEW fn \in Callees, Needing, Need = fn, NEW i
  PROVE  Legal(Append(stack, Frame(fn, i, <<>>)))
<1> DEFINE h == Frame(fn, i, <<>>)
<1>1. h.fn = fn /\ LegalFrame(h)  BY FrameIs, FrameNone
<1> HIDE DEF h
<1>2. stack # <<>> /\ Waits(Over(stack), fn)
  <2>1. /\ stack # <<>> /\ Top.fn \in DOMAIN Needs /\ Len(Top.got) < Len(Needs[Top.fn])
        /\ Needs[Top.fn][Len(Top.got) + 1] = fn
    BY DEF Needing, Running, Need
  <2>2. Waits(Top, fn)  BY <2>1, WaitsIs
  <2> QED  BY <2>1, <2>2, TopIs
<1>3. Called(stack, h.fn)  BY <1>1, <1>2 DEF Called
<1>4. Legal(Append(stack, h))  BY <1>1, <1>3, LegalPush
<1> QED  BY <1>4 DEF h

LEMMA LegalBranch ==
  ASSUME Legal(stack), stack # <<>>, NEW fn \in DOMAIN Needs, Waits(Top, fn), NEW i, NEW x
  PROVE  Legal(Append(stack, Frame(fn, i, <<x>>)))
<1> DEFINE h == Frame(fn, i, <<x>>)
<1>1. h.fn = fn /\ LegalFrame(h)
  <2> DEFINE q == <<x>>
             g == Frame(fn, i, q)
  <2> HIDE DEF q
  <2>1. g.fn = fn  BY FrameIs
  <2>2. LegalFrame(Frame(fn, i, <<x>>))  BY FrameOne
  <2> QED  BY <2>1, <2>2 DEF q
<1> HIDE DEF h
<1>2. Called(stack, h.fn)  BY <1>1, TopIs DEF Called
<1>3. Legal(Append(stack, h))  BY <1>1, <1>2, LegalPush
<1> QED  BY <1>3 DEF h

LEMMA LegalStatement ==
  ASSUME Legal(stack), Statement
  PROVE  Legal(stack')
<1> DEFINE h == Frame("binary_expr", index, <<>>)
<1>1. stack # <<>> /\ Top.fn = "expr" /\ stack' = Append(stack, h)
  BY DEF Statement, Running
<1>2. h.fn = "binary_expr" /\ LegalFrame(h)
  <2>1. "binary_expr" \in Callees  BY DEF Callees
  <2> QED  BY <2>1, FrameIs, FrameNone
<1> HIDE DEF h
<1>3. Called(stack, h.fn)
  <2>1. Waits(Top, "binary_expr")  BY <1>1, WaitsIs
  <2> QED  BY <1>1, <1>2, <2>1, TopIs DEF Called
<1> QED  BY <1>1, <1>2, <1>3, LegalPush

LEMMA AlternativeIs ==
  /\ DOMAIN Alternative = {"let", "if", "*", "return", "IDENTIFIER"}
  /\ \A w \in DOMAIN Alternative :
       /\ Alternative[w] \in Alternatives /\ Alternative[w] \in DOMAIN Needs
       /\ Needs[Alternative[w]][1] = w /\ w \in NeededWords
<1>1. /\ DOMAIN Alternative = {"let", "if", "*", "return", "IDENTIFIER"}
      /\ Alternative["let"] = "let" /\ Alternative["if"] = "if" /\ Alternative["*"] = "deref"
      /\ Alternative["return"] = "return" /\ Alternative["IDENTIFIER"] = "var"
  BY DEF Alternative
<1>2. /\ Needs["let"][1] = "let" /\ Needs["if"][1] = "if" /\ Needs["deref"][1] = "*"
      /\ Needs["return"][1] = "return" /\ Needs["var"][1] = "IDENTIFIER"
  BY NeedsAre
<1> QED  BY <1>1, <1>2, NoNeeds DEF Alternatives, NeededWords

LEMMA LegalOperands ==
  ASSUME Legal(stack), CharLiteral \/ Number \/ HexNumber
  PROVE  Legal(stack')
<1>1. /\ stack # <<>> /\ Top.fn = "binary_expr"
      /\ \E e : stack' = WithOperand(stack, e)
  BY DEF CharLiteral, Number, HexNumber, WantsOperand, Running
<1> QED  BY <1>1, TopIs, LegalOperand

LEMMA LegalBegin ==
  ASSUME Legal(stack), BeginAlternative
  PROVE  Legal(stack')
<1> DEFINE w == current_token.type
<1>1. /\ stack # <<>> /\ Top.fn = "binary_expr" /\ Len(Top.got) # 1
      /\ w \in DOMAIN Alternative
      /\ stack' = Append(stack, Frame(Alternative[w], index, <<index + 1>>))
  BY DEF BeginAlternative, WantsOperand, Running
<1> HIDE DEF w
<1>2. Alternative[w] \in Alternatives /\ Alternative[w] \in DOMAIN Needs  BY <1>1, AlternativeIs
<1>3. Waits(Top, Alternative[w])  BY <1>1, <1>2, WaitsIs
<1> QED  BY <1>1, <1>2, <1>3, LegalBranch

LEMMA LegalGoOn ==
  ASSUME Legal(stack), GoOn
  PROVE  Legal(stack')
<1>1. PICK l \in Longer :
        /\ GoesOn(l)
        /\ stack' = Append(Below, Frame(l[3], Top.from, Append(Top.got, index + 1)))
  BY DEF GoOn
<1>2. stack # <<>> /\ Len(Top.got) = Len(Needs[Top.fn]) /\ Top.fn = l[1]
  BY <1>1 DEF GoesOn, Complete, Running
<1> QED  BY <1>1, <1>2, TopIs, LegalLonger

LEMMA LegalAlternative ==
  ASSUME Legal(stack), EndOfAlternative
  PROVE  Legal(stack')
<1>1. /\ stack # <<>> /\ Top.fn \in DOMAIN Needs \ {"fn", "arg"}
      /\ \E e : stack' = WithOperand(Below, e)
  BY DEF EndOfAlternative, Complete, Running
<1>2. Below # <<>> /\ Legal(Below) /\ Waits(Caller, Top.fn)  BY <1>1, Positions
<1>3. Top.fn \in Alternatives  BY <1>1, NeedsAre DEF Alternatives
<1>4. Over(Below).fn = "binary_expr"  BY <1>2, <1>3, WaitsFor DEF Caller, Over
<1> QED  BY <1>1, <1>2, <1>4, LegalOperand

LEMMA LegalOperator ==
  ASSUME Legal(stack), Operator
  PROVE  Legal(stack')
<1>1. /\ stack # <<>> /\ Top.fn = "binary_expr" /\ Len(Top.got) = 1
      /\ \E x : stack' = Given(stack, x)
  BY DEF Operator, HasOperand, Running
<1> QED  BY <1>1, TopIs, LegalGiven

LEMMA LegalExpression ==
  ASSUME Legal(stack), EndOfExpression
  PROVE  Legal(stack')
<1>1. /\ stack # <<>> /\ Top.fn = "binary_expr" /\ Caller.fn # "expr"
      /\ \E x : stack' = Given(Below, x)
  BY DEF EndOfExpression, IsWhole, HasOperand, Running
<1>2. /\ Below # <<>> /\ Legal(Below) /\ LegalFrame(Caller) /\ Waits(Caller, "binary_expr")
  BY <1>1, Positions
<1>3. Caller.fn \in DOMAIN Needs /\ Len(Caller.got) < Len(Needs[Caller.fn])
  <2>1. "binary_expr" \in Callees  BY DEF Callees
  <2> QED  BY <1>1, <1>2, <2>1, WaitingNeeds
<1>4. Caller = Over(Below)  BY DEF Caller, Over
<1> QED  BY <1>1, <1>2, <1>3, <1>4, LegalGiven

LEMMA LegalStatementEnd ==
  ASSUME Legal(stack), EndOfStatement
  PROVE  Legal(stack')
<1>1. /\ stack # <<>> /\ Top.fn = "binary_expr" /\ Caller.fn = "expr"
      /\ \E x : stack' = Given(Below, x)
  BY EndOfStatementIs DEF IsWhole, HasOperand, Running
<1>2. /\ Below # <<>> /\ Legal(Below)
  BY <1>1, Positions
<1>4. Caller = Over(Below)  BY DEF Caller, Over
<1> QED  BY <1>1, <1>2, <1>4, LegalGiven

LEMMA LegalBlockEnd ==
  ASSUME Legal(stack), EndOfBlock
  PROVE  Legal(stack')
<1>1. /\ stack # <<>> /\ Top.fn = "binary_expr" /\ Caller.fn = "expr"
      /\ \E x : stack' = Given(SubSeq(stack, 1, Len(stack) - 2), x)
  BY EndOfBlockIs DEF NoStatement, WantsOperand, Running
<1> DEFINE u == Under(Below)
<1>2. /\ u # <<>> /\ Legal(u) /\ Waits(Over(u), "expr") /\ SubSeq(stack, 1, Len(stack) - 2) = u
  BY <1>1, Positions
<1>3. LegalFrame(Over(u))  BY <1>2, LegalPop
<1> HIDE DEF u
<1>4. Over(u).fn \in DOMAIN Needs /\ Len(Over(u).got) < Len(Needs[Over(u).fn])
  <2>1. "expr" \in Callees /\ "expr" # "binary_expr"  BY DEF Callees
  <2>2. Over(u).fn # "expr"  BY <1>2, <2>1, WaitsFor
  <2> QED  BY <1>2, <1>3, <2>1, <2>2, WaitingNeeds
<1> QED  BY <1>1, <1>2, <1>4, LegalGiven

LEMMA LegalArg ==
  ASSUME Legal(stack), BeginArg
  PROVE  Legal(stack')
<1>1. /\ stack # <<>> /\ Top.fn = "args"
      /\ stack' = Append(stack, Frame("arg", index, <<index + 1>>))
  BY DEF BeginArg, Running
<1>2. Waits(Top, "arg")  BY <1>1, WaitsIs
<1> QED  BY <1>1, <1>2, NoNeeds, LegalBranch

(* The parameters are taken by a function.                                 *)
LEMMA ArgsWanted ==
  ASSUME NEW f, LegalFrame(f), Waits(f, "args")
  PROVE  /\ f.fn = "fn" /\ Len(f.got) = 3 /\ f.fn \in DOMAIN Needs /\ Len(f.got) < Len(Needs[f.fn])
         /\ Needs[f.fn][Len(f.got) + 1] = "args"
<1>1. "args" \in Callees /\ "args" # "binary_expr"  BY DEF Callees
<1>2. f.fn # "expr"  BY <1>1, WaitsFor
<1>3. /\ f.fn \in DOMAIN Needs /\ Len(f.got) < Len(Needs[f.fn])
      /\ Needs[f.fn][Len(f.got) + 1] = "args"
  BY <1>1, <1>2, WaitingNeeds
<1>4. Len(f.got) \in 0 .. Len(Needs[f.fn]) - 1
  <2>1. Len(f.got) \in 1 .. Len(Needs[f.fn])  BY <1>3 DEF LegalFrame
  <2>2. Len(Needs[f.fn]) \in Nat  BY <1>3, NeedsAre, NeedsLen
  <2> QED  BY <1>3, <2>1, <2>2
<1> QED  BY <1>3, <1>4, NeedsArgs

LEMMA LegalNoArg ==
  ASSUME Legal(stack), NoArg
  PROVE  Legal(stack')
<1>1. /\ stack # <<>> /\ Top.fn = "args"
      /\ stack' = Given(Below, Top.got)
  BY DEF NoArg, Running
<1>2. Below # <<>> /\ Legal(Below) /\ LegalFrame(Caller) /\ Waits(Caller, "args")
  BY <1>1, Positions
<1>3. Caller.fn \in DOMAIN Needs /\ Len(Caller.got) < Len(Needs[Caller.fn])  BY <1>2, ArgsWanted
<1>4. Caller = Over(Below)  BY DEF Caller, Over
<1> QED  BY <1>1, <1>2, <1>3, <1>4, LegalGiven

LEMMA LegalNextArg ==
  ASSUME Legal(stack), NextArg
  PROVE  Legal(stack')
<1>1. /\ stack # <<>> /\ Top.fn = "arg" /\ stack' = Given(Below, Arg)
  BY NextArgIs DEF Complete, Running
<1>2. Below # <<>> /\ Legal(Below) /\ Waits(Caller, "arg")
  BY <1>1, Positions
<1>3. Caller.fn = "args"  BY <1>2, WaitsFor
<1>4. Caller = Over(Below)  BY DEF Caller, Over
<1> QED  BY <1>1, <1>2, <1>3, <1>4, LegalGiven

LEMMA LegalLastArg ==
  ASSUME Legal(stack), LastArg
  PROVE  Legal(stack')
<1>1. /\ stack # <<>> /\ Top.fn = "arg"
      /\ stack' = Given(SubSeq(stack, 1, Len(stack) - 2), Append(Caller.got, Arg))
  BY LastArgIs DEF Complete, Running
<1>2. Waits(Caller, "arg")  BY <1>1, Positions
<1>3. Caller.fn = "args"  BY <1>2, WaitsFor
<1> DEFINE u == Under(Below)
<1>4. /\ u # <<>> /\ Legal(u) /\ Waits(Over(u), "args") /\ SubSeq(stack, 1, Len(stack) - 2) = u
  BY <1>1, <1>3, Positions
<1>5. LegalFrame(Over(u))  BY <1>4, LegalPop
<1> HIDE DEF u
<1>6. Over(u).fn \in DOMAIN Needs /\ Len(Over(u).got) < Len(Needs[Over(u).fn])
  BY <1>4, <1>5, ArgsWanted
<1> QED  BY <1>1, <1>4, <1>6, LegalGiven

LEMMA LegalKept ==
  ASSUME Legal(stack), Next
  PROVE  Legal(stack')
<1>1. CASE Take  BY <1>1, LegalTake
<1>2. CASE CallFunction
  <2>1. Needing /\ Need \in Callees /\ stack' = Append(stack, Frame(Need, index, <<>>))
    BY <1>2 DEF CallFunction, Callees
  <2> QED  BY <2>1, LegalCall
<1>3. CASE BeginBlock
  <2>1. Needing /\ Need = "expr" /\ stack' = Append(stack, Frame("expr", index, <<>>))
    BY <1>3, BeginBlockIs
  <2>2. "expr" \in Callees  BY DEF Callees
  <2> QED  BY <2>1, <2>2, LegalCall
<1>4. CASE Statement  BY <1>4, LegalStatement
<1>5. CASE CharLiteral \/ Number \/ HexNumber  BY <1>5, LegalOperands
<1>6. CASE BeginAlternative  BY <1>6, LegalBegin
<1>7. CASE GoOn  BY <1>7, LegalGoOn
<1>8. CASE EndOfAlternative  BY <1>8, LegalAlternative
<1>9. CASE Operator  BY <1>9, LegalOperator
<1>10. CASE EndOfExpression  BY <1>10, LegalExpression
<1>11. CASE EndOfStatement  BY <1>11, LegalStatementEnd
<1>12. CASE EndOfBlock  BY <1>12, LegalBlockEnd
<1>13. CASE BeginArg  BY <1>13, LegalArg
<1>14. CASE NoArg  BY <1>14, LegalNoArg
<1>15. CASE NextArg  BY <1>15, LegalNextArg
<1>16. CASE LastArg  BY <1>16, LegalLastArg
<1>17. CASE BeginFunction
  <2> DEFINE q == <<>>
  <2>1. stack' = <<Frame("fn", index, <<index + 1>>)>>  BY <1>17 DEF BeginFunction
  <2>2. stack' = Append(q, Frame("fn", index, <<index + 1>>))  BY <2>1
  <2>3. Legal(q) /\ q = <<>>  BY LegalNone
  <2> HIDE DEF q
  <2> DEFINE h == Frame("fn", index, <<index + 1>>)
  <2>4. LegalFrame(h)  BY NoNeeds, FrameOne
  <2>5. h.fn = "fn"
    <3> DEFINE g == <<index + 1>>
    <3> HIDE DEF g
    <3>1. Frame("fn", index, g).fn = "fn"  BY FrameIs
    <3> QED  BY <3>1 DEF g
  <2>6. stack' = Append(q, h)  BY <2>2
  <2> HIDE DEF h
  <2>7. Called(q, h.fn)  BY <2>3, <2>5 DEF Called
  <2> QED  BY <2>3, <2>4, <2>6, <2>7, LegalPush
<1>18. CASE Unwind
  <2>1. stack # <<>> /\ stack' = Below  BY <1>18 DEF Unwind
  <2> QED  BY <2>1, Positions
<1>19. CASE AppendFunction \/ MissingSemicolon
  <2>1. stack' = <<>>  BY <1>19, AppendFunctionIs, MissingSemicolonIs
  <2> QED  BY <2>1, LegalNone
<1>20. CASE NoBlock \/ OpenStatement \/ EmptyBlock \/ OpenBlock
  <2>1. stack' = stack  BY <1>20, NoBlockIs, OpenStatementIs, EmptyBlockIs, OpenBlockIs
  <2> QED  BY <2>1
<1>21. CASE \/ Miss \/ MissingOperand \/ NoFunction \/ Abort \/ End \/ EndBeyond \/ Crash \/ Delete
  <2>1. stack' = stack
    BY <1>21 DEF Miss, MissingOperand, NoFunction, Abort, End, EndBeyond, Crash, Delete, Refuse
  <2> QED  BY <2>1
<1> QED
  BY <1>1, <1>2, <1>3, <1>4, <1>5, <1>6, <1>7, <1>8, <1>9, <1>10, <1>11, <1>12, <1>13, <1>14,
     <1>15, <1>16, <1>17, <1>18, <1>19, <1>20, <1>21 DEF Next, Descend

-----------------------------------------------------------------------------
(* What the calls and the functions stand for is kept, as long as no token *)
(* past the last one is read.                                              *)
Following(F) ==
  /\ Input /\ Legal(stack) /\ index \in Nat /\ index <= Len(tokens)
  /\ \A y \in F : y \in 1 .. index
  /\ Follows(ast, stack, F, index)

(* What the current token is, when it is one.                              *)
LEMMA Reading ==
  ASSUME Input, index \in Nat, NEW n \in {1, 2}, Looks(n), ~past'
  PROVE  /\ ~past /\ index + n <= Len(tokens) /\ index + 1 <= Len(tokens)
         /\ current_token = tokens[index + 1]
         /\ \A w : Is(w) <=> IsWord(index + 1, w)
         /\ n = 2 => TokenAt(index + 1) = tokens[index + 2]
<1>1. ~past /\ ~(index + n > Len(tokens))  BY DEF Looks
<1>2. Len(tokens) \in Nat  BY TokenIs
<1>3. index + n <= Len(tokens) /\ index + 1 <= Len(tokens) /\ index < Len(tokens)
  BY <1>1, <1>2
<1>4. current_token = tokens[index + 1]  BY <1>3, TokenIs DEF current_token
<1>5. \A w : Is(w) <=> IsWord(index + 1, w)  BY <1>3, <1>4 DEF Is, IsWord
<1>6. n = 2 => TokenAt(index + 1) = tokens[index + 2]
  <2> SUFFICES ASSUME n = 2 PROVE TokenAt(index + 1) = tokens[index + 2]
    OBVIOUS
  <2> DEFINE m == index + 1
  <2>1. m \in Nat /\ m < Len(tokens) /\ m + 1 = index + 2  BY <1>2, <1>3
  <2> HIDE DEF m
  <2>2. TokenAt(m) = tokens[m + 1]  BY <2>1, TokenIs
  <2> QED  BY <2>1, <2>2 DEF m
<1> QED  BY <1>1, <1>3, <1>4, <1>5, <1>6

LEMMA FollowsTake ==
  ASSUME NEW F, Following(F), Take, ~past'
  PROVE  Follows(ast', stack', F, index')
<1>1. /\ stack # <<>> /\ Top.fn \in DOMAIN Needs /\ Need \notin Callees /\ Fits
      /\ stack' = Given(stack, IF Need = "program_type" THEN current_token.type ELSE index + 1)
      /\ Looks(1) /\ index' = index + 1 /\ ast' = ast
  BY DEF Take, Needing, Running, Takes
<1>2. /\ Input /\ index \in Nat /\ Legal(stack) /\ Follows(ast, stack, F, index)
      /\ \A y \in F : y \in 1 .. index
  BY DEF Following
<1>3. /\ current_token = tokens[index + 1] /\ index + 1 <= Len(tokens)
      /\ \A w : Is(w) <=> IsWord(index + 1, w)
  BY <1>1, <1>2, Reading
<1> DEFINE x == IF Need = "program_type" THEN current_token.type ELSE index + 1
           f == Over(stack)
           j == index + 1
<1>4. /\ FrameCovers(f, F, index) /\ Follows(ast, Under(stack), F, f.from) /\ LegalFrame(f)
  BY <1>1, <1>2, FollowsTop, LegalPop
<1>5. f = Top /\ Need = Needs[f.fn][Len(f.got) + 1] /\ f.fn \in DOMAIN Needs
  BY <1>1, TopIs DEF Need
<1>6. ItemCovers(Need, x, F, index, j)
  <2>1. j \in Nat /\ index <= j /\ j <= Len(tokens) /\ j \notin F  BY <1>2, <1>3
  <2>2. CASE Need = "program_type"
    <3>1. x = current_token.type /\ x \in ProgramTypes /\ IsWord(j, x)
      BY <1>1, <1>3, <2>2 DEF Fits, IsWord
    <3> QED  BY <1>2, <2>1, <2>2, <3>1 DEF ItemCovers, Callees
  <2>3. CASE Need # "program_type"
    <3>1. x = j /\ IsWord(j, Need)  BY <1>1, <1>3, <2>3 DEF Fits
    <3>2. Need # "binary_expr" /\ Need # "expr" /\ Need # "args"  BY <1>1 DEF Callees
    <3> QED  BY <1>1, <1>2, <2>1, <2>3, <3>1, <3>2 DEF ItemCovers
  <2> QED  BY <2>2, <2>3
<1> HIDE DEF x, f, j
<1>7. FrameCovers(Frame(f.fn, f.from, Append(f.got, x)), F, j)
  BY <1>4, <1>5, <1>6, FrameItem
<1>8. Follows(ast, Given(stack, x), F, j)  BY <1>1, <1>2, <1>4, <1>7, FollowsGiven DEF f
<1> QED  BY <1>1, <1>8 DEF x, j

LEMMA FollowsCall ==
  ASSUME NEW F, Following(F), CallFunction
  PROVE  Follows(ast', stack', F, index')
<1>1. /\ Need \in {"binary_expr", "args"} /\ stack' = Append(stack, Frame(Need, index, <<>>))
      /\ index' = index /\ ast' = ast
  BY DEF CallFunction
<1>2. /\ index \in Nat /\ index <= Len(tokens) /\ IsSeq(stack) /\ Follows(ast, stack, F, index)
  BY DEF Following, Legal
<1>3. FrameCovers(Frame(Need, index, <<>>), F, index)  BY <1>1, <1>2, FramesBegin
<1>4. Follows(ast, Append(stack, Frame(Need, index, <<>>)), F, index)
  BY <1>2, <1>3, FollowsFrame
<1> QED  BY <1>1, <1>4

LEMMA FollowsBeginBlock ==
  ASSUME NEW F, Following(F), BeginBlock, ~past'
  PROVE  Follows(ast', stack', F, index')
<1>1. /\ Is(Opening) /\ stack' = Append(stack, Frame("expr", index, <<>>)) /\ Looks(1)
      /\ index' = index + 1 /\ ast' = ast
  BY BeginBlockIs DEF Takes
<1>2. /\ Input /\ index \in Nat /\ index <= Len(tokens) /\ IsSeq(stack)
      /\ Follows(ast, stack, F, index)
  BY DEF Following, Legal
<1>3. IsWord(index + 1, Opening)  BY <1>1, <1>2, Reading
<1>4. FrameCovers(Frame("expr", index, <<>>), F, index + 1)  BY <1>2, <1>3, FramesBegin
<1>5. Follows(ast, Append(stack, Frame("expr", index, <<>>)), F, index + 1)
  BY <1>2, <1>4, FollowsFrame
<1> QED  BY <1>1, <1>5

LEMMA FollowsStatement ==
  ASSUME NEW F, Following(F), Statement
  PROVE  Follows(ast', stack', F, index')
<1>1. /\ stack' = Append(stack, Frame("binary_expr", index, <<>>))
      /\ index' = index /\ ast' = ast
  BY DEF Statement
<1>2. /\ index \in Nat /\ index <= Len(tokens) /\ IsSeq(stack) /\ Follows(ast, stack, F, index)
  BY DEF Following, Legal
<1>3. FrameCovers(Frame("binary_expr", index, <<>>), F, index)  BY <1>2, FramesBegin
<1>4. Follows(ast, Append(stack, Frame("binary_expr", index, <<>>)), F, index)
  BY <1>2, <1>3, FollowsFrame
<1> QED  BY <1>1, <1>4

(* Texts that are freed where they are read.                               *)
LEMMA FollowsFreed ==
  ASSUME NEW F, Following(F), NEW G, \A y \in 1 .. index : y \in F <=> y \in G
  PROVE  Following(F) /\ Follows(ast, stack, G, index)
BY FollowsOther DEF Following

LEMMA FollowsLeaf ==
  ASSUME NEW F, Input, Legal(stack), index \in Nat, Follows(ast, stack, F, index),
         WantsOperand, NEW e, NEW j, Meant(e, F, index, j)
  PROVE  Follows(ast, WithOperand(stack, e), F, j)
<1>1. stack # <<>> /\ Top.fn = "binary_expr" /\ Len(Top.got) # 1
  BY DEF WantsOperand, Running
<1> DEFINE f == Over(stack)
<1>2. /\ FrameCovers(f, F, index) /\ Follows(ast, Under(stack), F, f.from) /\ LegalFrame(f)
  BY <1>1, FollowsTop, LegalPop
<1>3. f.fn = "binary_expr" /\ Len(f.got) # 1  BY <1>1, TopIs
<1> HIDE DEF f
<1>4. FrameCovers(Frame(f.fn, f.from, Extended(f.got, e)), F, j)
  BY <1>2, <1>3, FrameOperand
<1> QED  BY <1>1, <1>2, <1>4, FollowsOperand DEF f

LEMMA FollowsLiteral ==
  ASSUME NEW F, Following(F), CharLiteral \/ Number, ~past'
  PROVE  /\ Follows(ast', stack', F \union {index + 1}, index') /\ index' = index + 1
         /\ HasText(index + 1) /\ index + 1 <= Len(tokens)
         /\ freed' = Append(freed, index + 1)
<1> DEFINE G == F \union {index + 1}
<1>1. /\ WantsOperand /\ index' = index + 1 /\ ast' = ast /\ freed' = Append(freed, index + 1)
      /\ \E n \in {1, 2} : Looks(n)
      /\ \/ Is("CHAR_LITERAL") /\ stack' = WithOperand(stack, Char(current_token.text))
         \/ Is("NUMBER") /\ stack' = WithOperand(stack, Num(Spelling[current_token.text]))
  BY DEF CharLiteral, Number, Takes
<1>2. /\ Input /\ index \in Nat /\ Legal(stack) /\ \A y \in F : y \in 1 .. index
  BY DEF Following
<1>3. /\ current_token = tokens[index + 1] /\ index + 1 <= Len(tokens)
      /\ \A w : Is(w) <=> IsWord(index + 1, w)
  BY <1>1, <1>2, Reading
<1>4. \A y \in 1 .. index : y \in F <=> y \in G  BY <1>2
<1>5. index + 1 \in G  OBVIOUS
<1> HIDE DEF G
<1>6. Follows(ast, stack, G, index)  BY <1>4, FollowsFreed
<1>7. /\ IsWord(index + 1, "NUMBER") =>
           Meant(Num(Spelling[tokens[index + 1].text]), G, index, index + 1)
      /\ IsWord(index + 1, "CHAR_LITERAL") => Meant(Char(tokens[index + 1].text), G, index, index + 1)
  BY <1>2, <1>5, LiteralMeant
<1>8. PICK e : stack' = WithOperand(stack, e) /\ Meant(e, G, index, index + 1)
  BY <1>1, <1>3, <1>7
<1>9. Follows(ast, WithOperand(stack, e), G, index + 1)  BY <1>1, <1>2, <1>6, <1>8, FollowsLeaf
<1>10. HasText(index + 1)
  <2>1. IsWord(index + 1, "CHAR_LITERAL") \/ IsWord(index + 1, "NUMBER")  BY <1>1, <1>3
  <2> QED  BY <2>1 DEF HasText, IsWord, WithText
<1> QED  BY <1>1, <1>3, <1>8, <1>9, <1>10 DEF G

LEMMA FollowsHex ==
  ASSUME NEW F, Following(F), HexNumber, ~past'
  PROVE  /\ Follows(ast', stack', F \union {index + 1, index + 2}, index') /\ index' = index + 2
         /\ HasText(index + 1) /\ HasText(index + 2) /\ index + 2 <= Len(tokens)
         /\ freed' = freed \o <<index + 1, index + 2>>
<1> DEFINE G == F \union {index + 1, index + 2}
           digits == TokenAt(index + 1).text
           v == IF digits \in HexDigits THEN Spelling[digits] ELSE "unset"
<1>1. /\ WantsOperand /\ index' = index + 2 /\ ast' = ast /\ Looks(2)
      /\ freed' = freed \o <<index + 1, index + 2>>
      /\ Is("NUMBER") /\ current_token.text = "0"
      /\ TokenAt(index + 1).type = "IDENTIFIER" /\ digits \in HexDigits \union HexWrong
      /\ stack' = WithOperand(stack, Num(v))
  BY DEF HexNumber, IsHexadecimal, IsZero, Takes
<1>2. /\ Input /\ index \in Nat /\ Legal(stack) /\ \A y \in F : y \in 1 .. index
  BY DEF Following
<1>3. /\ current_token = tokens[index + 1] /\ index + 2 <= Len(tokens)
      /\ TokenAt(index + 1) = tokens[index + 2]
      /\ \A w : Is(w) <=> IsWord(index + 1, w)
  BY <1>1, <1>2, Reading
<1>4. \A y \in 1 .. index : y \in F <=> y \in G  BY <1>2
<1>5. index + 1 \in G /\ index + 2 \in G  OBVIOUS
<1>6. /\ IsWord(index + 1, "NUMBER") /\ tokens[index + 1].text = "0"
      /\ IsWord(index + 2, "IDENTIFIER") /\ digits = tokens[index + 2].text
  BY <1>1, <1>3 DEF IsWord
<1> HIDE DEF G, digits
<1>7. Follows(ast, stack, G, index)  BY <1>4, FollowsFreed
<1>8. Meant(Num(v), G, index, index + 2)  BY <1>1, <1>2, <1>5, <1>6, HexMeant
<1> HIDE DEF v
<1>9. Follows(ast, WithOperand(stack, Num(v)), G, index + 2)
  BY <1>1, <1>2, <1>7, <1>8, FollowsLeaf
<1>10. HasText(index + 1) /\ HasText(index + 2)
  BY <1>6 DEF HasText, IsWord, WithText
<1> QED  BY <1>1, <1>3, <1>9, <1>10 DEF G

LEMMA FollowsBegin ==
  ASSUME NEW F, Following(F), BeginAlternative, ~past'
  PROVE  Follows(ast', stack', F, index')
<1> DEFINE w == current_token.type
           fn == Alternative[w]
<1>1. /\ w \in DOMAIN Alternative /\ Looks(1)
      /\ stack' = Append(stack, Frame(fn, index, <<index + 1>>))
      /\ index' = index + 1 /\ ast' = ast
  BY DEF BeginAlternative, Takes
<1>2. /\ Input /\ index \in Nat /\ index <= Len(tokens) /\ IsSeq(stack)
      /\ Follows(ast, stack, F, index) /\ \A y \in F : y \in 1 .. index
  BY DEF Following, Legal
<1>3. IsWord(index + 1, w)
  <2>1. Is(w)  BY DEF Is
  <2> HIDE DEF w
  <2> QED  BY <1>1, <1>2, <2>1, Reading
<1> HIDE DEF w
<1>4. fn \in DOMAIN Needs /\ Needs[fn][1] = w /\ w \in NeededWords
  BY <1>1, AlternativeIs
<1>5. index + 1 \notin F  BY <1>2
<1> HIDE DEF fn
<1>6. FrameCovers(Frame(fn, index, <<index + 1>>), F, index + 1)
  BY <1>2, <1>3, <1>4, <1>5, FrameToken
<1>7. Follows(ast, Append(stack, Frame(fn, index, <<index + 1>>)), F, index + 1)
  BY <1>2, <1>6, FollowsFrame
<1> QED  BY <1>1, <1>7

LEMMA FollowsGoOn ==
  ASSUME NEW F, Following(F), GoOn, ~past'
  PROVE  Follows(ast', stack', F, index')
<1>1. PICK l \in Longer :
        /\ GoesOn(l)
        /\ stack' = Append(Below, Frame(l[3], Top.from, Append(Top.got, index + 1)))
        /\ Looks(1) /\ index' = index + 1 /\ ast' = ast
  BY DEF GoOn, Takes
<1>2. stack # <<>> /\ Len(Top.got) = Len(Needs[Top.fn]) /\ Top.fn = l[1] /\ Is(l[2])
  BY <1>1 DEF GoesOn, Complete, Running
<1>3. /\ Input /\ index \in Nat /\ Legal(stack) /\ Follows(ast, stack, F, index)
  BY DEF Following
<1>4. IsWord(index + 1, l[2])  BY <1>1, <1>2, <1>3, Reading
<1>5. /\ FrameCovers(Top, F, index) /\ Follows(ast, Below, F, Top.from) /\ LegalFrame(Top)
      /\ IsSeq(Below)
  BY <1>2, <1>3, TopIs, FollowsTop, LegalPop
<1> DEFINE more == Append(Top.got, index + 1)
<1>6. FrameCovers(Frame(l[3], Top.from, more), F, index + 1)
  BY <1>2, <1>4, <1>5, FrameLonger
<1> HIDE DEF more
<1>7. Follows(ast, Append(Below, Frame(l[3], Top.from, more)), F, index + 1)
  BY <1>5, <1>6, FollowsFrame
<1> QED  BY <1>1, <1>7 DEF more

LEMMA FollowsAlternative ==
  ASSUME NEW F, Following(F), EndOfAlternative
  PROVE  Follows(ast', stack', F, index')
<1>1. /\ stack # <<>> /\ Top.fn \in DOMAIN Needs \ {"fn", "arg"}
      /\ Len(Top.got) = Len(Needs[Top.fn])
      /\ stack' = WithOperand(Below, Expression(Top.fn, Top.got))
      /\ index' = index /\ ast' = ast
  BY DEF EndOfAlternative, Complete, Running
<1>2. /\ Input /\ index \in Nat /\ Legal(stack) /\ Follows(ast, stack, F, index)
  BY DEF Following
<1>3. Below # <<>> /\ Legal(Below) /\ Waits(Caller, Top.fn) /\ LegalFrame(Caller)
  BY <1>1, <1>2, Positions
<1>4. Top.fn \in Alternatives  BY <1>1, NeedsAre DEF Alternatives
<1>5. Caller.fn = "binary_expr" /\ Len(Caller.got) # 1  BY <1>3, <1>4, WaitsFor
<1>6. /\ FrameCovers(Top, F, index) /\ Follows(ast, Below, F, Top.from)
  BY <1>1, <1>2, TopIs, FollowsTop
<1>7. Caller = Over(Below)  BY DEF Caller, Over
<1>8. /\ FrameCovers(Caller, F, Top.from) /\ Follows(ast, Under(Below), F, Caller.from)
  BY <1>3, <1>6, <1>7, FollowsTop
<1> DEFINE e == Expression(Top.fn, Top.got)
<1>9. Meant(e, F, Top.from, index)
  <2>1. ItemsCover(Needs[Top.fn], Top.got, F, Top.from, index)  BY <1>1, <1>6 DEF FrameCovers
  <2> QED  BY <1>1, <1>2, <1>4, <2>1, AlternativeMeant
<1> HIDE DEF e
<1>10. FrameCovers(Frame(Caller.fn, Caller.from, Extended(Caller.got, e)), F, index)
  BY <1>2, <1>3, <1>5, <1>8, <1>9, FrameOperand
<1>11. Follows(ast, WithOperand(Below, e), F, index)
  BY <1>3, <1>7, <1>8, <1>10, FollowsOperand
<1> QED  BY <1>1, <1>11 DEF e

LEMMA FollowsOperator ==
  ASSUME NEW F, Following(F), Operator, ~past'
  PROVE  Follows(ast', stack', F, index')
<1> DEFINE w == current_token.type
           f == Over(stack)
<1>1. /\ stack # <<>> /\ Top.fn = "binary_expr" /\ Len(Top.got) = 1
      /\ w \in DOMAIN BinaryTag /\ Looks(1)
      /\ stack' = Given(stack, w) /\ index' = index + 1 /\ ast' = ast
  BY DEF Operator, HasOperand, Running, Takes
<1>2. /\ Input /\ index \in Nat /\ Legal(stack) /\ Follows(ast, stack, F, index)
  BY DEF Following
<1>3. IsWord(index + 1, w)
  <2>1. Is(w)  BY DEF Is
  <2> HIDE DEF w
  <2> QED  BY <1>1, <1>2, <2>1, Reading
<1> HIDE DEF w
<1>4. /\ FrameCovers(f, F, index) /\ Follows(ast, Under(stack), F, f.from) /\ LegalFrame(f)
  BY <1>1, <1>2, FollowsTop, LegalPop
<1>5. f = Top  BY TopIs
<1> HIDE DEF f
<1>6. FrameCovers(Frame(f.fn, f.from, Append(f.got, w)), F, index + 1)
  BY <1>1, <1>3, <1>4, <1>5, FrameOperator
<1>7. Follows(ast, Given(stack, w), F, index + 1)
  BY <1>1, <1>2, <1>4, <1>6, FollowsGiven DEF f
<1> QED  BY <1>1, <1>7

(* An expression is whole.                                                 *)
LEMMA WholeMeant ==
  ASSUME NEW F, Following(F), IsWhole
  PROVE  /\ stack # <<>> /\ Top.fn = "binary_expr" /\ Below # <<>> /\ Legal(Below)
         /\ LegalFrame(Caller) /\ Waits(Caller, "binary_expr") /\ Caller = Over(Below)
         /\ FrameCovers(Caller, F, Top.from) /\ Follows(ast, Under(Below), F, Caller.from)
         /\ Meant(Top.got[1], F, Top.from, index)
         /\ Input /\ index \in Nat
<1>1. /\ stack # <<>> /\ Top.fn = "binary_expr" /\ Len(Top.got) = 1
  BY DEF IsWhole, HasOperand, Running
<1>2. /\ Input /\ index \in Nat /\ Legal(stack) /\ Follows(ast, stack, F, index)
  BY DEF Following
<1>3. Below # <<>> /\ Legal(Below) /\ Waits(Caller, "binary_expr") /\ LegalFrame(Caller)
  BY <1>1, <1>2, Positions
<1>4. /\ FrameCovers(Top, F, index) /\ Follows(ast, Below, F, Top.from)
  BY <1>1, <1>2, TopIs, FollowsTop
<1>5. Caller = Over(Below)  BY DEF Caller, Over
<1>6. /\ FrameCovers(Caller, F, Top.from) /\ Follows(ast, Under(Below), F, Caller.from)
  BY <1>3, <1>4, <1>5, FollowsTop
<1>7. Meant(Top.got[1], F, Top.from, index)
  <2>1. ChainCovers(Top.got, F, Top.from, index)  BY <1>1, <1>4 DEF FrameCovers
  <2>2. Top.got # <<>>
    <3>1. Len(<<>>) # 1  OBVIOUS
    <3> QED  BY <1>1, <3>1
  <2> QED  BY <1>1, <2>1, <2>2 DEF ChainCovers
<1> QED  BY <1>1, <1>2, <1>3, <1>5, <1>6, <1>7

LEMMA FollowsExpression ==
  ASSUME NEW F, Following(F), EndOfExpression
  PROVE  Follows(ast', stack', F, index')
<1>1. /\ IsWhole /\ Caller.fn # "expr"
      /\ stack' = Given(Below, Top.got[1]) /\ index' = index /\ ast' = ast
  BY DEF EndOfExpression
<1>2. /\ Below # <<>> /\ Legal(Below)
      /\ LegalFrame(Caller) /\ Waits(Caller, "binary_expr") /\ Caller = Over(Below)
      /\ FrameCovers(Caller, F, Top.from) /\ Follows(ast, Under(Below), F, Caller.from)
      /\ Meant(Top.got[1], F, Top.from, index)
  BY <1>1, WholeMeant
<1>3. Caller.fn \in DOMAIN Needs /\ Needs[Caller.fn][Len(Caller.got) + 1] = "binary_expr"
  <2>1. "binary_expr" \in Callees  BY DEF Callees
  <2> QED  BY <1>1, <1>2, <2>1, WaitingNeeds
<1>4. ItemCovers("binary_expr", Top.got[1], F, Top.from, index)
  <2>1. /\ Top.from \in Nat /\ index \in Nat /\ Top.from <= index /\ index <= Len(tokens)
    BY <1>2, PartsMeant
  <2> QED  BY <1>2, <2>1 DEF ItemCovers, Callees
<1> DEFINE x == Top.got[1]
<1>5. ItemCovers(Needs[Caller.fn][Len(Caller.got) + 1], x, F, Top.from, index)
  BY <1>3, <1>4
<1> HIDE DEF x
<1>6. FrameCovers(Frame(Caller.fn, Caller.from, Append(Caller.got, x)), F, index)
  BY <1>2, <1>3, <1>5, FrameItem
<1>7. Follows(ast, Given(Below, x), F, index)
  BY <1>2, <1>6, FollowsGiven
<1> QED  BY <1>1, <1>7 DEF x

LEMMA FollowsStatementEnd ==
  ASSUME NEW F, Following(F), EndOfStatement, ~past'
  PROVE  Follows(ast', stack', F, index')
<1>1. /\ IsWhole /\ Caller.fn = "expr" /\ Is(Semicolon) /\ Looks(1)
      /\ stack' = Given(Below, Top.got[1]) /\ index' = index + 1 /\ ast' = ast
  BY EndOfStatementIs DEF Takes
<1>2. /\ Below # <<>> /\ Legal(Below)
      /\ LegalFrame(Caller) /\ Caller = Over(Below)
      /\ FrameCovers(Caller, F, Top.from) /\ Follows(ast, Under(Below), F, Caller.from)
      /\ Meant(Top.got[1], F, Top.from, index) /\ Input /\ index \in Nat
  BY <1>1, WholeMeant
<1>3. IsWord(index + 1, Semicolon)  BY <1>1, <1>2, Reading
<1> DEFINE x == Top.got[1]
<1> HIDE DEF x
<1>4. FrameCovers(Frame(Caller.fn, Caller.from, Append(Caller.got, x)), F, index + 1)
  BY <1>1, <1>2, <1>3, FrameStatement DEF x
<1>5. Follows(ast, Given(Below, x), F, index + 1)
  BY <1>2, <1>4, FollowsGiven
<1> QED  BY <1>1, <1>5 DEF x

(* A call for an operand that none is given to.                            *)
LEMMA FollowsBlockEnd ==
  ASSUME NEW F, Following(F), EndOfBlock, ~past'
  PROVE  Follows(ast', stack', F, index')
<1> DEFINE u == Under(Below)
           g == Over(u)
           x == Seq2(Caller.got)
           j == index + 1
<1>1. /\ stack # <<>> /\ Top.fn = "binary_expr" /\ Top.got = <<>> /\ Caller.fn = "expr"
      /\ Is(Closing) /\ Caller.got # <<>> /\ Looks(1)
      /\ stack' = Given(SubSeq(stack, 1, Len(stack) - 2), x)
      /\ index' = j /\ ast' = ast
  BY EndOfBlockIs DEF NoStatement, WantsOperand, Running, Takes
<1>2. /\ Input /\ index \in Nat /\ Legal(stack) /\ Follows(ast, stack, F, index)
  BY DEF Following
<1>3. /\ u # <<>> /\ Legal(u) /\ Waits(g, "expr") /\ SubSeq(stack, 1, Len(stack) - 2) = u
      /\ Below # <<>> /\ Legal(Below) /\ LegalFrame(Caller)
  BY <1>1, <1>2, Positions
<1>4. FrameCovers(Top, F, index) /\ Follows(ast, Below, F, Top.from)
  BY <1>1, <1>2, TopIs, FollowsTop
<1>5. Top.from = index
  <2>1. ChainCovers(Top.got, F, Top.from, index)  BY <1>1, <1>4 DEF FrameCovers
  <2>2. Len(Top.got) = 0  BY <1>1
  <2> QED  BY <2>1, <2>2 DEF ChainCovers
<1>6. Caller = Over(Below)  BY DEF Caller, Over
<1>7. FrameCovers(Caller, F, index) /\ Follows(ast, u, F, Caller.from)
  BY <1>3, <1>4, <1>5, <1>6, FollowsTop
<1>8. IsWord(j, Closing)  BY <1>1, <1>2, Reading
<1>9. ItemCovers("expr", x, F, Caller.from, j)
  BY <1>1, <1>2, <1>3, <1>7, <1>8, BlockWhole
<1> HIDE DEF x, u, j
<1>10. FrameCovers(g, F, Caller.from) /\ Follows(ast, Under(u), F, g.from) /\ LegalFrame(g)
  BY <1>3, <1>7, FollowsTop, LegalPop
<1>11. g.fn \in DOMAIN Needs /\ Needs[g.fn][Len(g.got) + 1] = "expr"
  <2>1. "expr" \in Callees /\ "expr" # "binary_expr"  BY DEF Callees
  <2>2. g.fn # "expr"  BY <1>3, <2>1, WaitsFor
  <2> QED  BY <1>3, <1>10, <2>1, <2>2, WaitingNeeds
<1> HIDE DEF g
<1>12. FrameCovers(Frame(g.fn, g.from, Append(g.got, x)), F, j)
  BY <1>9, <1>10, <1>11, FrameItem
<1>13. Follows(ast, Given(u, x), F, j)
  BY <1>3, <1>10, <1>12, FollowsGiven DEF g
<1> QED  BY <1>1, <1>3, <1>13

LEMMA FollowsArg ==
  ASSUME NEW F, Following(F), BeginArg, ~past'
  PROVE  Follows(ast', stack', F, index')
<1>1. /\ Is("IDENTIFIER") /\ stack' = Append(stack, Frame("arg", index, <<index + 1>>))
      /\ Looks(1) /\ index' = index + 1 /\ ast' = ast
  BY DEF BeginArg, Takes
<1>2. /\ Input /\ index \in Nat /\ index <= Len(tokens) /\ IsSeq(stack)
      /\ Follows(ast, stack, F, index) /\ \A y \in F : y \in 1 .. index
  BY DEF Following, Legal
<1>3. IsWord(index + 1, "IDENTIFIER")  BY <1>1, <1>2, Reading
<1>4. "arg" \in DOMAIN Needs /\ Needs["arg"][1] = "IDENTIFIER" /\ "IDENTIFIER" \in NeededWords
  BY NeedsAre, NoNeeds DEF NeededWords
<1>5. index + 1 \notin F  BY <1>2
<1>6. FrameCovers(Frame("arg", index, <<index + 1>>), F, index + 1)
  <2> DEFINE fn == "arg"
  <2>1. /\ fn \in DOMAIN Needs /\ Needs[fn][1] \in NeededWords /\ IsWord(index + 1, Needs[fn][1])
    BY <1>3, <1>4
  <2> HIDE DEF fn
  <2>2. FrameCovers(Frame(fn, index, <<index + 1>>), F, index + 1)
    BY <1>2, <1>5, <2>1, FrameToken
  <2> QED  BY <2>2 DEF fn
<1>7. Follows(ast, Append(stack, Frame("arg", index, <<index + 1>>)), F, index + 1)
  BY <1>2, <1>6, FollowsFrame
<1> QED  BY <1>1, <1>7

(* A call that the parameters are given to.                                *)
LEMMA ArgsGiven ==
  ASSUME NEW calls, Legal(calls), calls # <<>>, NEW F, NEW i, Follows(ast, calls, F, i),
         Waits(Over(calls), "args"), NEW x, NEW j, ItemCovers("args", x, F, i, j)
  PROVE  Follows(ast, Given(calls, x), F, j)
<1> DEFINE g == Over(calls)
<1>1. FrameCovers(g, F, i) /\ Follows(ast, Under(calls), F, g.from) /\ LegalFrame(g)
  BY FollowsTop, LegalPop
<1>2. g.fn \in DOMAIN Needs /\ Needs[g.fn][Len(g.got) + 1] = "args"  BY <1>1, ArgsWanted
<1>0. g = Over(calls)  OBVIOUS
<1> HIDE DEF g
<1>3. FrameCovers(Frame(g.fn, g.from, Append(g.got, x)), F, j)
  BY <1>1, <1>2, FrameItem
<1> QED  BY <1>0, <1>1, <1>3, FollowsGiven

LEMMA FollowsNoArg ==
  ASSUME NEW F, Following(F), NoArg
  PROVE  Follows(ast', stack', F, index')
<1>1. /\ stack # <<>> /\ Top.fn = "args"
      /\ stack' = Given(Below, Top.got) /\ index' = index /\ ast' = ast
  BY DEF NoArg, Running
<1>2. /\ Legal(stack) /\ Follows(ast, stack, F, index)
  BY DEF Following
<1>3. Below # <<>> /\ Legal(Below) /\ Waits(Caller, "args")
  BY <1>1, <1>2, Positions
<1>4. Caller = Over(Below)  BY DEF Caller, Over
<1>5. FrameCovers(Top, F, index) /\ Follows(ast, Below, F, Top.from)
  BY <1>1, <1>2, TopIs, FollowsTop
<1>6. ItemCovers("args", Top.got, F, Top.from, index)  BY <1>1, <1>5, ArgsWhole
<1>7. Follows(ast, Given(Below, Top.got), F, index)  BY <1>3, <1>4, <1>5, <1>6, ArgsGiven
<1> QED  BY <1>1, <1>7

(* The parameter on top of those before it.                                *)
LEMMA ArgOnTop ==
  ASSUME NEW F, Following(F), Complete, Top.fn = "arg"
  PROVE  /\ Below # <<>> /\ Legal(Below) /\ LegalFrame(Caller) /\ Caller.fn = "args"
         /\ Caller = Over(Below)
         /\ FrameCovers(Caller, F, Top.from) /\ Follows(ast, Under(Below), F, Caller.from)
         /\ index = Top.from + 3 /\ ArgAt(Arg, F, Top.from) /\ Top.from \in Nat
         /\ SubSeq(stack, 1, Len(stack) - 2) = Under(Below)
         /\ Under(Below) # <<>> /\ Legal(Under(Below)) /\ Waits(Over(Under(Below)), "args")
<1>1. /\ stack # <<>> /\ Len(Top.got) = 3
  <2>1. stack # <<>> /\ Len(Top.got) = Len(Needs["arg"])  BY DEF Complete, Running
  <2>2. Len(Needs["arg"]) = 3  BY NeedsAre
  <2> QED  BY <2>1, <2>2
<1>2. /\ Legal(stack) /\ Follows(ast, stack, F, index)
  BY DEF Following
<1>3. Below # <<>> /\ Legal(Below) /\ LegalFrame(Caller) /\ Waits(Caller, "arg")
  BY <1>1, <1>2, Positions
<1>4. Caller.fn = "args"  BY <1>3, WaitsFor
<1>5. /\ SubSeq(stack, 1, Len(stack) - 2) = Under(Below)
      /\ Under(Below) # <<>> /\ Legal(Under(Below)) /\ Waits(Over(Under(Below)), "args")
  BY <1>1, <1>2, <1>4, Positions
<1>6. FrameCovers(Top, F, index) /\ Follows(ast, Below, F, Top.from) /\ Top.from \in Nat
  BY <1>1, <1>2, TopIs, FollowsTop
<1>7. Caller = Over(Below)  BY DEF Caller, Over
<1>8. FrameCovers(Caller, F, Top.from) /\ Follows(ast, Under(Below), F, Caller.from)
  BY <1>3, <1>6, <1>7, FollowsTop
<1>9. index = Top.from + 3 /\ ArgAt(Arg, F, Top.from)
  <2>1. /\ index = Top.from + 3
        /\ ArgAt([name |-> Top.got[1], type |-> Top.got[3]], F, Top.from)
    BY <1>1, <1>6, ArgMeant
  <2> QED  BY <2>1 DEF Arg
<1> QED  BY <1>3, <1>4, <1>5, <1>6, <1>7, <1>8, <1>9

LEMMA FollowsNextArg ==
  ASSUME NEW F, Following(F), NextArg, ~past'
  PROVE  Follows(ast', stack', F, index')
<1>1. /\ Complete /\ Top.fn = "arg" /\ Is(Comma) /\ Looks(1)
      /\ stack' = Given(Below, Arg) /\ index' = index + 1 /\ ast' = ast
  BY NextArgIs DEF Takes
<1>2. Input /\ index \in Nat  BY DEF Following
<1>3. IsWord(index + 1, Comma)  BY <1>1, <1>2, Reading
<1>4. /\ Below # <<>> /\ Legal(Below) /\ LegalFrame(Caller) /\ Caller.fn = "args"
      /\ Caller = Over(Below)
      /\ FrameCovers(Caller, F, Top.from) /\ Follows(ast, Under(Below), F, Caller.from)
      /\ index = Top.from + 3 /\ ArgAt(Arg, F, Top.from) /\ Top.from \in Nat
  BY <1>1, ArgOnTop
<1>5. index + 1 = Top.from + 4  BY <1>4
<1>6. IsWord(Top.from + 4, Comma)  BY <1>3, <1>5
<1>7. FrameCovers(Frame(Caller.fn, Caller.from, Append(Caller.got, Arg)), F, Top.from + 4)
  BY <1>4, <1>6, FrameArg
<1>8. Follows(ast, Given(Below, Arg), F, Top.from + 4)  BY <1>4, <1>7, FollowsGiven
<1> QED  BY <1>1, <1>5, <1>8

LEMMA FollowsLastArg ==
  ASSUME NEW F, Following(F), LastArg
  PROVE  Follows(ast', stack', F, index')
<1> DEFINE u == Under(Below)
           x == Append(Caller.got, Arg)
<1>1. /\ Complete /\ Top.fn = "arg"
      /\ stack' = Given(SubSeq(stack, 1, Len(stack) - 2), x)
      /\ index' = index /\ ast' = ast
  BY LastArgIs
<1>2. /\ Caller.fn = "args"
      /\ FrameCovers(Caller, F, Top.from) /\ Follows(ast, u, F, Caller.from)
      /\ index = Top.from + 3 /\ ArgAt(Arg, F, Top.from)
      /\ SubSeq(stack, 1, Len(stack) - 2) = u
      /\ u # <<>> /\ Legal(u) /\ Waits(Over(u), "args")
  BY <1>1, ArgOnTop
<1>3. ItemCovers("args", x, F, Caller.from, Top.from + 3)
  BY <1>2, ArgsWhole
<1> HIDE DEF u, x
<1>4. Follows(ast, Given(u, x), F, Top.from + 3)  BY <1>2, <1>3, ArgsGiven
<1> QED  BY <1>1, <1>2, <1>4

LEMMA FollowsFunction ==
  ASSUME NEW F, Following(F), BeginFunction
  PROVE  Follows(ast', stack', F, index') /\ index + 1 <= Len(tokens)
<1> DEFINE h == Frame("fn", index, <<index + 1>>)
           q == <<>>
<1>1. /\ stack = q /\ index < Len(tokens) /\ Is("fn")
      /\ stack' = <<h>> /\ index' = index + 1 /\ ast' = ast
  BY DEF BeginFunction, AtLoop, Takes
<1>2. /\ Input /\ index \in Nat /\ index <= Len(tokens) /\ IsSeq(stack)
      /\ Follows(ast, stack, F, index) /\ \A y \in F : y \in 1 .. index
  BY DEF Following, Legal
<1>3. Len(tokens) \in Nat /\ current_token = tokens[index + 1]
  BY <1>1, <1>2, TokenIs DEF current_token
<1>4. IsWord(index + 1, "fn") /\ index + 1 <= Len(tokens)  BY <1>1, <1>2, <1>3 DEF IsWord, Is
<1>5. "fn" \in DOMAIN Needs /\ Needs["fn"][1] = "fn" /\ "fn" \in NeededWords
  BY NeedsAre, NoNeeds DEF NeededWords
<1>6. index + 1 \notin F  BY <1>2
<1>7. FrameCovers(Frame("fn", index, <<index + 1>>), F, index + 1)
  <2> DEFINE fn == "fn"
  <2>1. /\ fn \in DOMAIN Needs /\ Needs[fn][1] \in NeededWords /\ IsWord(index + 1, Needs[fn][1])
    BY <1>4, <1>5
  <2> HIDE DEF fn
  <2>2. FrameCovers(Frame(fn, index, <<index + 1>>), F, index + 1)
    BY <1>2, <1>6, <2>1, FrameToken
  <2> QED  BY <2>2 DEF fn
<1>8. <<h>> = Append(q, h)
  <2> HIDE DEF h
  <2> QED  OBVIOUS
<1>9. IsSeq(q) /\ Follows(ast, q, F, index)  BY <1>1, <1>2
<1> HIDE DEF q
<1>10. Follows(ast, Append(q, Frame("fn", index, <<index + 1>>)), F, index + 1)
  BY <1>7, <1>9, FollowsFrame
<1> QED  BY <1>1, <1>4, <1>8, <1>10

LEMMA FollowsAppend ==
  ASSUME NEW F, Following(F), AppendFunction, ~past'
  PROVE  Follows(ast', stack', F, index')
<1> DEFINE x == Function(Top.got)
<1>1. /\ Complete /\ Top.fn = "fn" /\ Is(Semicolon) /\ Looks(1)
      /\ ast' = Append(ast, x) /\ stack' = <<>> /\ index' = index + 1
  BY AppendFunctionIs DEF Takes
<1>2. Input /\ index \in Nat /\ Legal(stack) /\ Follows(ast, stack, F, index)  BY DEF Following
<1>3. stack # <<>> /\ Len(Top.got) = 8
  <2>1. stack # <<>> /\ Len(Top.got) = Len(Needs["fn"])  BY <1>1 DEF Complete, Running
  <2>2. Len(Needs["fn"]) = 8  BY NeedsAre
  <2> QED  BY <2>1, <2>2
<1>4. IsWord(index + 1, Semicolon)  BY <1>1, <1>2, Reading
<1>5. Below = <<>>  BY <1>1, <1>2, <1>3, Positions
<1>6. FrameCovers(Top, F, index) /\ Follows(ast, Below, F, Top.from)
  BY <1>2, <1>3, TopIs, FollowsTop
<1>7. AstCovers(ast, F, Top.from)  BY <1>5, <1>6, FollowsNone
<1>8. ItemsCover(Needs["fn"], Top.got, F, Top.from, index)
  BY <1>1, <1>6, NoNeeds DEF FrameCovers
<1>9. FunctionCovers(x, F, Top.from, index + 1)  BY <1>2, <1>3, <1>4, <1>8, FunctionMeant
<1> HIDE DEF x
<1>10. AstCovers(Append(ast, x), F, index + 1)  BY <1>7, <1>9, AstMore
<1>11. Follows(Append(ast, x), <<>>, F, index + 1)  BY <1>10, FollowsNone
<1> QED  BY <1>1, <1>11

(* A call that returns NULL, and the texts that are freed with its operand. *)
LEMMA FollowsUnwind ==
  ASSUME Input, Legal(stack), stack # <<>>, NEW F, NEW j, Follows(ast, stack, F, j)
  PROVE  /\ Follows(ast, Below, F, Top.from) /\ Top.from \in Nat /\ j \in Nat
         /\ Top.from <= j /\ j <= Len(tokens)
         /\ Misses(2) => Owns(expression_delete[Top.got[1]], F, Top.from, j - 1) /\ Top.from < j
<1>1. /\ FrameCovers(Top, F, j) /\ Follows(ast, Below, F, Top.from)
      /\ Top.from \in Nat /\ j \in Nat /\ Top.from <= j /\ j <= Len(tokens)
  BY TopIs, FollowsTop
<1>2. ASSUME Misses(2)
      PROVE  Owns(expression_delete[Top.got[1]], F, Top.from, j - 1) /\ Top.from < j
  <2>1. Top.fn = "binary_expr" /\ Len(Top.got) = 2  BY <1>2 DEF Misses
  <2>2. Top.got # <<>>
    <3>1. Len(<<>>) # 2  OBVIOUS
    <3> QED  BY <2>1, <3>1
  <2>3. Meant(Top.got[1], F, Top.from, j - 1)  BY <1>1, <2>1, <2>2 DEF FrameCovers, ChainCovers
  <2> DEFINE k == j - 1
  <2>4. k < j  BY <1>1
  <2>5. Meant(Top.got[1], F, Top.from, k)  BY <2>3
  <2> HIDE DEF k
  <2>6. Owns(expression_delete[Top.got[1]], F, Top.from, k) /\ Top.from < k /\ k \in Nat
    BY <2>5 DEF Meant, Covers
  <2>7. Top.from < j  BY <1>1, <2>4, <2>6
  <2> QED  BY <2>6, <2>7 DEF k
<1> QED  BY <1>1, <1>2

-----------------------------------------------------------------------------
(* How far the parser has come.                                            *)
Ranges ==
  /\ Input
  /\ index \in 0 .. Size
  /\ abort \in BOOLEAN /\ past \in BOOLEAN /\ errors \in BOOLEAN
  /\ pc \in {"parsing", "done", "refused", "deleted", "crashed"}

Ends ==
  /\ past => index >= Len(tokens)
  /\ ~past => index <= Len(tokens)
  /\ AtLoop /\ past /\ ~abort => index > Len(tokens)
  /\ pc = "done" => ~past /\ index = Len(tokens) /\ ~abort /\ stack = <<>>

(* A step of a function: n tokens are looked at, m of them taken.          *)
Moves(n, m) ==
  /\ n \in 0 .. 2 /\ m \in 0 .. n /\ m >= n - 1
  /\ n = 0 => past' = past
  /\ n > 0 => Looks(n)
  /\ index' = index + m /\ index' \in 0 .. Size

Runs ==
  /\ UNCHANGED <<tokens, beyond>>
  /\ pc = "parsing" /\ pc' = "parsing" /\ ~abort /\ stack # <<>>

LEMMA Inside ==
  ASSUME Ranges
  PROVE  /\ index \in Nat /\ Size \in Nat /\ Len(tokens) \in Nat /\ Len(tokens) <= Size
         /\ current_token.type # "nothing" => index + 1 \in 0 .. Size
         /\ TokenAt(index + 1).type # "nothing" => index + 2 \in 0 .. Size
<1>1. /\ index \in Nat /\ index <= Size /\ Size \in Nat /\ Len(tokens) \in Nat
      /\ Len(tokens) <= Size
  <2>1. Input /\ index \in 0 .. Size  BY DEF Ranges
  <2> QED  BY <2>1, TokenIs
<1>2. \A n \in Nat : TokenAt(n).type # "nothing" => n < Size
  <2> SUFFICES ASSUME NEW n \in Nat, ~(n < Size) PROVE TokenAt(n).type = "nothing"
    OBVIOUS
  <2>1. ~(n < Len(tokens))  BY <1>1
  <2>2. TokenAt(n) = Outside  BY <2>1 DEF TokenAt
  <2>3. Outside.type = "nothing"  BY Zenon DEF Outside
  <2> QED  BY <2>2, <2>3, ZenonT(30)
<1>3. current_token.type # "nothing" => index < Size  BY <1>1, <1>2 DEF current_token
<1>4. TokenAt(index + 1).type # "nothing" => index + 1 < Size
  <2>1. index + 1 \in Nat  BY <1>1
  <2> QED  BY <1>2, <2>1
<1> QED  BY <1>1, <1>3, <1>4

(* What can be needed, and what stands before a block.                     *)
LEMMA NeedsHave ==
  ASSUME NEW fn \in DOMAIN Needs, NEW m \in 1 .. Len(Needs[fn])
  PROVE  /\ Needs[fn][m] \in NeededWords \union Callees \union {"program_type"}
         /\ Len(Needs[fn]) \in Nat
         /\ m + 1 \in 1 .. Len(Needs[fn]) /\ Needs[fn][m + 1] = "expr" =>
              Needs[fn][m] \in {")", "else", "="}
<1>1. CASE fn = "fn"
  <2>1. m \in 1 .. 8 /\ Len(Needs[fn]) = 8
        /\ Needs[fn] = <<"fn", "IDENTIFIER", "(", "args", ")", "program_type", "=", "expr">>
    BY <1>1, NeedsLen, NeedsAre
  <2> QED  BY <1>1, <2>1 DEF NeededWords, Callees
<1>2. CASE fn = "let"
  <2>1. m \in 1 .. 6 /\ Len(Needs[fn]) = 6
        /\ Needs[fn] = <<"let", "IDENTIFIER", ":", "program_type", "=", "binary_expr">>
    BY <1>2, NeedsLen, NeedsAre
  <2> QED  BY <1>2, <2>1 DEF NeededWords, Callees
<1>3. CASE fn = "if"
  <2>1. m \in 1 .. 5 /\ Len(Needs[fn]) = 5
        /\ Needs[fn] = <<"if", "(", "binary_expr", ")", "expr">>
    BY <1>3, NeedsLen, NeedsAre
  <2> QED  BY <1>3, <2>1 DEF NeededWords, Callees
<1>4. CASE fn = "if_else"
  <2>1. m \in 1 .. 7 /\ Len(Needs[fn]) = 7
        /\ Needs[fn] = <<"if", "(", "binary_expr", ")", "expr", "else", "expr">>
    BY <1>4, NeedsLen, NeedsAre
  <2> QED  BY <1>4, <2>1 DEF NeededWords, Callees
<1>5. CASE fn = "deref"
  <2>1. m \in 1 .. 2 /\ Len(Needs[fn]) = 2
        /\ Needs[fn] = <<"*", "binary_expr">>
    BY <1>5, NeedsLen, NeedsAre
  <2> QED  BY <1>5, <2>1 DEF NeededWords, Callees
<1>6. CASE fn = "deref_assign"
  <2>1. m \in 1 .. 4 /\ Len(Needs[fn]) = 4
        /\ Needs[fn] = <<"*", "binary_expr", "=", "binary_expr">>
    BY <1>6, NeedsLen, NeedsAre
  <2> QED  BY <1>6, <2>1 DEF NeededWords, Callees
<1>7. CASE fn = "return"
  <2>1. m \in 1 .. 2 /\ Len(Needs[fn]) = 2
        /\ Needs[fn] = <<"return", "binary_expr">>
    BY <1>7, NeedsLen, NeedsAre
  <2> QED  BY <1>7, <2>1 DEF NeededWords, Callees
<1>8. CASE fn = "var"
  <2>1. m \in 1 .. 1 /\ Len(Needs[fn]) = 1
        /\ Needs[fn] = <<"IDENTIFIER">>
    BY <1>8, NeedsLen, NeedsAre
  <2> QED  BY <1>8, <2>1 DEF NeededWords, Callees
<1>9. CASE fn = "func_call"
  <2>1. m \in 1 .. 3 /\ Len(Needs[fn]) = 3
        /\ Needs[fn] = <<"IDENTIFIER", "(", ")">>
    BY <1>9, NeedsLen, NeedsAre
  <2> QED  BY <1>9, <2>1 DEF NeededWords, Callees
<1>10. CASE fn = "var_assign"
  <2>1. m \in 1 .. 3 /\ Len(Needs[fn]) = 3
        /\ Needs[fn] = <<"IDENTIFIER", "=", "binary_expr">>
    BY <1>10, NeedsLen, NeedsAre
  <2> QED  BY <1>10, <2>1 DEF NeededWords, Callees
<1>11. CASE fn = "arg"
  <2>1. m \in 1 .. 3 /\ Len(Needs[fn]) = 3
        /\ Needs[fn] = <<"IDENTIFIER", ":", "program_type">>
    BY <1>11, NeedsLen, NeedsAre
  <2> QED  BY <1>11, <2>1 DEF NeededWords, Callees
<1> QED  BY <1>1, <1>2, <1>3, <1>4, <1>5, <1>6, <1>7, <1>8, <1>9, <1>10, <1>11, NeedsAre

LEMMA NeedIsWord ==
  ASSUME Legal(stack), Needing
  PROVE  Need # "nothing" /\ "nothing" \notin ProgramTypes
<1>1. /\ Top.fn \in DOMAIN Needs /\ Len(Top.got) < Len(Needs[Top.fn]) /\ LegalFrame(Top)
  BY Positions DEF Needing, Running
<1>2. Len(Top.got) \in 1 .. Len(Needs[Top.fn])  BY <1>1 DEF LegalFrame
<1>3. /\ Len(Needs[Top.fn]) \in Nat
      /\ \A k \in 1 .. Len(Needs[Top.fn]) :
           Needs[Top.fn][k] \in NeededWords \union Callees \union {"program_type"}
  <2>1. 1 \in 1 .. Len(Needs[Top.fn])  BY <1>1, NeedsAre, NeedsLen
  <2> QED  BY <1>1, <2>1, NeedsHave
<1>4. Len(Top.got) + 1 \in 1 .. Len(Needs[Top.fn])  BY <1>1, <1>2, <1>3
<1> QED  BY <1>3, <1>4 DEF Need, ProgramTypes, NeededWords, Callees

LEMMA Moved ==
  ASSUME Ranges
  PROVE  /\ current_token.type # "nothing" /\ Looks(1) /\ Takes(1) => Moves(1, 1)
         /\ current_token.type # "nothing" /\ Looks(2) /\ Takes(1) => Moves(2, 1)
         /\ TokenAt(index + 1).type # "nothing" /\ Looks(2) /\ Takes(2) => Moves(2, 2)
         /\ Looks(1) /\ index' = index => Moves(1, 0)
         /\ past' = past /\ index' = index => Moves(0, 0)
<1>1. /\ index \in Nat /\ index \in 0 .. Size
      /\ current_token.type # "nothing" => index + 1 \in 0 .. Size
      /\ TokenAt(index + 1).type # "nothing" => index + 2 \in 0 .. Size
  BY Inside DEF Ranges
<1> QED  BY <1>1 DEF Moves, Takes

Working == Runs /\ \E n \in 0 .. 2, m \in 0 .. 2 : Moves(n, m)

LEMMA WorkingIs ==
  ASSUME NEW n, NEW m, Moves(n, m), Runs
  PROVE  Working
<1>1. n \in 0 .. 2 /\ m \in 0 .. n  BY DEF Moves
<1>2. m \in 0 .. 2  BY <1>1
<1> QED  BY <1>1, <1>2 DEF Working

LEMMA RunsTakes ==
  ASSUME Ranges, Legal(stack),
         \/ Take \/ BeginBlock \/ CharLiteral \/ Number \/ HexNumber \/ BeginAlternative \/ GoOn
         \/ Operator \/ EndOfStatement \/ EndOfBlock \/ EmptyBlock \/ BeginArg \/ NextArg
         \/ AppendFunction
  PROVE  Working
<1> USE WorkingIs, Moved
<1>1. CASE Take
  <2>1. Runs /\ Looks(1) /\ Takes(1) /\ Needing /\ Fits  BY <1>1 DEF Take, Runs, Needing, Running
  <2>2. current_token.type # "nothing"  BY <2>1, NeedIsWord DEF Fits, Is
  <2> QED  BY <2>1, <2>2
<1>2. CASE BeginBlock
  <2>1. Runs /\ Looks(1) /\ Takes(1) /\ Is(Opening)
    BY <1>2, BeginBlockIs DEF Runs, Needing, Running
  <2>2. Opening # "nothing"  BY Zenon DEF Opening
  <2> QED  BY <2>1, <2>2 DEF Is
<1>3. CASE CharLiteral
  <2>1. Runs /\ Looks(1) /\ Takes(1) /\ current_token.type # "nothing"
    BY <1>3 DEF CharLiteral, Runs, WantsOperand, Running, Is
  <2> QED  BY <2>1
<1>4. CASE Number
  <2>1. Runs /\ (Looks(1) \/ Looks(2)) /\ Takes(1) /\ current_token.type # "nothing"
    BY <1>4 DEF Number, Runs, WantsOperand, Running, Is
  <2> QED  BY <2>1
<1>5. CASE HexNumber
  <2>1. Runs /\ Looks(2) /\ Takes(2) /\ TokenAt(index + 1).type # "nothing"
    BY <1>5 DEF HexNumber, IsHexadecimal, Runs, WantsOperand, Running
  <2> QED  BY <2>1
<1>6. CASE BeginAlternative
  <2>1. Runs /\ Looks(1) /\ Takes(1) /\ current_token.type \in DOMAIN Alternative
    BY <1>6 DEF BeginAlternative, Runs, WantsOperand, Running
  <2>2. current_token.type # "nothing"  BY <2>1, AlternativeIs
  <2> QED  BY <2>1, <2>2
<1>7. CASE GoOn
  <2>1. Looks(1) /\ Takes(1) /\ \E l \in Longer : GoesOn(l)
    BY <1>7 DEF GoOn
  <2>2. Runs  BY <1>7 DEF GoOn, GoesOn, Complete, Running, Runs
  <2>3. current_token.type # "nothing"
    <3>1. PICK l \in Longer : Is(l[2])  BY <2>1 DEF GoesOn
    <3>2. l[2] # "nothing"  BY LongerIs DEF NeededWords
    <3> QED  BY <3>1, <3>2 DEF Is
  <2> QED  BY <2>1, <2>2, <2>3
<1>8. CASE Operator
  <2>1. Runs /\ Looks(1) /\ Takes(1) /\ current_token.type \in DOMAIN BinaryTag
    BY <1>8 DEF Operator, HasOperand, Runs, Running
  <2>2. current_token.type # "nothing"  BY <2>1 DEF BinaryTag
  <2> QED  BY <2>1, <2>2
<1>9. CASE EndOfStatement
  <2>1. Runs /\ Looks(1) /\ Takes(1) /\ Is(Semicolon)
    BY <1>9, EndOfStatementIs DEF IsWhole, HasOperand, Runs, Running
  <2>2. Semicolon # "nothing"  BY Zenon DEF Semicolon
  <2> QED  BY <2>1, <2>2 DEF Is
<1>10. CASE EndOfBlock \/ EmptyBlock
  <2>1. Runs /\ Looks(1) /\ Takes(1) /\ Is(Closing)
    BY <1>10, EndOfBlockIs, EmptyBlockIs DEF NoStatement, WantsOperand, Runs, Running
  <2>2. Closing # "nothing"  BY Zenon DEF Closing
  <2> QED  BY <2>1, <2>2 DEF Is
<1>11. CASE BeginArg
  <2>1. Runs /\ Looks(1) /\ Takes(1) /\ current_token.type # "nothing"
    BY <1>11 DEF BeginArg, Runs, Running, Is
  <2> QED  BY <2>1
<1>12. CASE NextArg
  <2>1. Runs /\ Looks(1) /\ Takes(1) /\ Is(Comma)
    BY <1>12, NextArgIs DEF Complete, Runs, Running
  <2>2. Comma # "nothing"  BY Zenon DEF Comma
  <2> QED  BY <2>1, <2>2 DEF Is
<1>13. CASE AppendFunction
  <2>1. Runs /\ Looks(1) /\ Takes(1) /\ Is(Semicolon)
    BY <1>13, AppendFunctionIs DEF Complete, Runs, Running
  <2>2. Semicolon # "nothing"  BY Zenon DEF Semicolon
  <2> QED  BY <2>1, <2>2 DEF Is
<1> QED
  BY <1>1, <1>2, <1>3, <1>4, <1>5, <1>6, <1>7, <1>8, <1>9, <1>10, <1>11, <1>12, <1>13

LEMMA RunsOn ==
  ASSUME Ranges, Legal(stack),
         \/ Miss \/ CallFunction \/ NoBlock \/ Statement \/ EndOfAlternative \/ MissingOperand
         \/ EndOfExpression \/ OpenStatement \/ OpenBlock \/ NoArg \/ LastArg
  PROVE  Working
<1> USE WorkingIs, Moved
<1>1. CASE Miss
  <2>1. Runs /\ Looks(1) /\ index' = index  BY <1>1 DEF Miss, Runs, Needing, Running
  <2> QED  BY <2>1
<1>2. CASE CallFunction
  <2>1. Runs /\ past' = past /\ index' = index  BY <1>2 DEF CallFunction, Runs, Needing, Running
  <2> QED  BY <2>1
<1>3. CASE NoBlock
  <2>1. Runs /\ Looks(1) /\ index' = index  BY <1>3, NoBlockIs DEF Runs, Needing, Running
  <2> QED  BY <2>1
<1>4. CASE Statement
  <2>1. Runs /\ past' = past /\ index' = index  BY <1>4 DEF Statement, Runs, Running
  <2> QED  BY <2>1
<1>5. CASE EndOfAlternative
  <2>1. Runs /\ Looks(1) /\ index' = index  BY <1>5 DEF EndOfAlternative, Complete, Runs, Running
  <2> QED  BY <2>1
<1>6. CASE MissingOperand
  <2>1. Runs /\ Looks(1) /\ index' = index  BY <1>6 DEF MissingOperand, WantsOperand, Runs, Running
  <2> QED  BY <2>1
<1>7. CASE EndOfExpression
  <2>1. Runs /\ Looks(1) /\ index' = index
    BY <1>7 DEF EndOfExpression, IsWhole, HasOperand, Runs, Running
  <2> QED  BY <2>1
<1>8. CASE OpenStatement
  <2>1. Runs /\ Looks(1) /\ index' = index
    BY <1>8, OpenStatementIs DEF IsWhole, HasOperand, Runs, Running
  <2> QED  BY <2>1
<1>9. CASE OpenBlock
  <2>1. Runs /\ Looks(1) /\ index' = index
    BY <1>9, OpenBlockIs DEF NoStatement, WantsOperand, Runs, Running
  <2> QED  BY <2>1
<1>10. CASE NoArg
  <2>1. Runs /\ Looks(1) /\ index' = index  BY <1>10 DEF NoArg, Runs, Running
  <2> QED  BY <2>1
<1>11. CASE LastArg
  <2>1. Runs /\ Looks(1) /\ index' = index  BY <1>11, LastArgIs DEF Complete, Runs, Running
  <2> QED  BY <2>1
<1> QED
  BY <1>1, <1>2, <1>3, <1>4, <1>5, <1>6, <1>7, <1>8, <1>9, <1>10, <1>11

(* Inside a function the calls do not end before an error.                 *)
LEMMA Goes ==
  ASSUME NEW calls, Legal(calls), calls # <<>>
  PROVE  /\ \A x : Given(calls, x) # <<>> /\ WithOperand(calls, x) # <<>>
         /\ \A f : Append(calls, f) # <<>>
<1>1. IsSeq(calls) /\ IsSeq(Under(calls)) /\ LegalFrame(Over(calls))  BY LegalPop
<1> DEFINE f == Over(calls)
<1>2. IsFrame(f)  BY <1>1 DEF LegalFrame
<1>3. f = Over(calls)  OBVIOUS
<1>4. \A x : /\ Given(calls, x) = Append(Under(calls), Frame(f.fn, f.from, Append(f.got, x)))
             /\ WithOperand(calls, x) =
                  Append(Under(calls), Frame(f.fn, f.from, Extended(f.got, x)))
  <2> HIDE DEF f
  <2> QED  BY <1>1, <1>2, <1>3, GivenIs, WithOperandIs
<1>5. \A h : Append(Under(calls), h) # <<>> /\ Append(calls, h) # <<>>
  BY <1>1, PushedPopped
<1> QED  BY <1>4, <1>5

LEMMA GoesOnAbove ==
  ASSUME Legal(stack), stack # <<>>,
         \/ Take \/ CallFunction \/ BeginBlock \/ Statement
         \/ CharLiteral \/ Number \/ HexNumber \/ BeginAlternative \/ Operator \/ BeginArg
  PROVE  stack' # <<>>
<1>1. \/ \E x : stack' = Given(stack, x)
      \/ \E x : stack' = WithOperand(stack, x)
      \/ \E f : stack' = Append(stack, f)
  BY BeginBlockIs DEF Take, CallFunction, Statement, CharLiteral, Number, HexNumber,
     BeginAlternative, Operator, BeginArg
<1> QED  BY <1>1, Goes

LEMMA GoesOnBelow ==
  ASSUME Legal(stack), stack # <<>>,
         \/ GoOn \/ EndOfAlternative \/ EndOfExpression \/ EndOfStatement \/ EndOfBlock
         \/ NoArg \/ NextArg \/ LastArg
  PROVE  stack' # <<>>
<1>1. CASE GoOn
  <2>1. \E f : stack' = Append(Below, f)  BY <1>1 DEF GoOn
  <2>2. IsSeq(Below)  BY Positions DEF Legal
  <2> QED  BY <2>1, <2>2, PushedPopped
<1>2. CASE EndOfAlternative \/ EndOfExpression \/ EndOfStatement \/ NoArg \/ NextArg
  <2>1. Top.fn # "fn"
    BY <1>2, EndOfStatementIs, NextArgIs DEF EndOfAlternative, EndOfExpression, NoArg, IsWhole, HasOperand
  <2>2. Below # <<>> /\ Legal(Below)  BY <2>1, Positions
  <2>3. \/ \E x : stack' = Given(Below, x)
        \/ \E x : stack' = WithOperand(Below, x)
    BY <1>2, EndOfStatementIs, NextArgIs DEF EndOfAlternative, EndOfExpression, NoArg
  <2> QED  BY <2>2, <2>3, Goes
<1>3. CASE EndOfBlock \/ LastArg
  <2>1. Top.fn # "fn" /\ \E x : stack' = Given(SubSeq(stack, 1, Len(stack) - 2), x)
    BY <1>3, EndOfBlockIs, LastArgIs DEF NoStatement, WantsOperand
  <2>2. Caller.fn # "fn"
    <3>1. CASE EndOfBlock  BY <3>1, EndOfBlockIs DEF NoStatement
    <3>2. CASE LastArg
      <4>1. Top.fn = "arg"  BY <3>2, LastArgIs
      <4>2. Waits(Caller, "arg")  BY <4>1, Positions
      <4> QED  BY <4>2, WaitsFor
    <3> QED  BY <1>3, <3>1, <3>2
  <2> DEFINE u == Under(Below)
  <2>3. u # <<>> /\ Legal(u) /\ SubSeq(stack, 1, Len(stack) - 2) = u  BY <2>1, <2>2, Positions
  <2> HIDE DEF u
  <2> QED  BY <2>1, <2>3, Goes
<1> QED  BY <1>1, <1>2, <1>3

(* What aborts, and what does not.                                         *)
LEMMA GoesFlags ==
  ASSUME \/ Take \/ CallFunction \/ BeginBlock \/ Statement
         \/ CharLiteral \/ Number \/ HexNumber \/ BeginAlternative \/ Operator \/ BeginArg
         \/ GoOn \/ EndOfAlternative \/ EndOfExpression \/ EndOfStatement \/ EndOfBlock
         \/ NextArg \/ LastArg \/ AppendFunction
  PROVE  abort' = abort /\ errors' = errors
BY BeginBlockIs, EndOfStatementIs, EndOfBlockIs, NextArgIs, LastArgIs, AppendFunctionIs
   DEF Take, CallFunction, Statement, CharLiteral, Number, HexNumber, BeginAlternative, Operator,
       BeginArg, GoOn, EndOfAlternative, EndOfExpression

LEMMA NoArgFlags ==
  ASSUME NoArg
  PROVE  abort' = abort /\ errors' = (errors \/ Top.got # <<>>)
BY DEF NoArg

LEMMA StopsFlags ==
  ASSUME \/ Miss \/ NoBlock \/ MissingOperand \/ OpenStatement \/ EmptyBlock \/ OpenBlock
  PROVE  /\ abort' = TRUE /\ stack' = stack /\ ast' = ast /\ freed' = freed
         /\ errors' = TRUE \/ (errors' = errors /\ index' = index /\ (NoBlock \/ MissingOperand))
BY NoBlockIs, OpenStatementIs, EmptyBlockIs, OpenBlockIs DEF Miss, MissingOperand

-----------------------------------------------------------------------------
(* The steps, by what they do to the run.                                  *)
Advance ==
  \/ Take \/ CallFunction \/ BeginBlock \/ Statement
  \/ CharLiteral \/ Number \/ HexNumber \/ BeginAlternative \/ Operator \/ BeginArg
  \/ GoOn \/ EndOfAlternative \/ EndOfExpression \/ EndOfStatement \/ EndOfBlock
  \/ NoArg \/ NextArg \/ LastArg

Halt == Miss \/ NoBlock \/ MissingOperand \/ OpenStatement \/ EmptyBlock \/ OpenBlock

LEMMA Steps ==
  ASSUME Next
  PROVE  \/ Advance \/ Halt \/ Unwind \/ AppendFunction \/ MissingSemicolon
         \/ BeginFunction \/ NoFunction \/ Abort \/ End \/ EndBeyond \/ Crash \/ Delete
BY DEF Next, Descend, Advance, Halt

LEMMA AdvanceIs ==
  ASSUME Ranges, Legal(stack), Advance
  PROVE  Working /\ stack' # <<>> /\ abort' = abort
<1>1. Working  BY RunsTakes, RunsOn DEF Advance
<1>2. stack # <<>>  BY <1>1 DEF Working, Runs
<1> QED  BY <1>1, <1>2, GoesOnAbove, GoesOnBelow, GoesFlags, NoArgFlags DEF Advance

LEMMA HaltIs ==
  ASSUME Ranges, Legal(stack), Halt
  PROVE  /\ Working /\ abort' = TRUE /\ stack' = stack /\ ast' = ast /\ freed' = freed
         /\ errors' = TRUE \/ (errors' = errors /\ index' = index /\ (NoBlock \/ MissingOperand))
<1>1. Working  BY RunsTakes, RunsOn DEF Halt
<1> QED  BY <1>1, StopsFlags DEF Halt

LEMMA WorkingMoves ==
  ASSUME Ranges, Working
  PROVE  /\ UNCHANGED <<tokens, beyond>> /\ pc = "parsing" /\ pc' = "parsing" /\ ~abort /\ stack # <<>>
         /\ index' \in 0 .. Size /\ index <= index' /\ past' \in BOOLEAN
         /\ past => past'
         /\ past' => past \/ index' >= Len(tokens)
         /\ past' /\ AppendFunction => past \/ index' > Len(tokens)
         /\ ~past' => ~past /\ (index <= Len(tokens) => index' <= Len(tokens))
<1>1. PICK n \in 0 .. 2, m \in 0 .. 2 : Moves(n, m)  BY DEF Working
<1>2. /\ m \in 0 .. n /\ m >= n - 1
      /\ n = 0 => past' = past
      /\ n > 0 => Looks(n)
      /\ index' = index + m /\ index' \in 0 .. Size
  BY <1>1 DEF Moves
<1>3. index \in Nat /\ Len(tokens) \in Nat /\ past \in BOOLEAN  BY Inside DEF Ranges
<1>4. n \in Nat /\ m \in Nat /\ m <= n /\ n <= m + 1  BY <1>2
<1>n. n = 0 => past' = past  BY <1>2
<1>l. n > 0 => (past' <=> past \/ index + n > Len(tokens)) /\ past' \in BOOLEAN  BY <1>2 DEF Looks
<1>i. index' = index + m  BY <1>2
<1>z. n = 0 \/ n > 0  BY <1>4
<1>5. index <= index'  BY <1>3, <1>4, <1>i
<1>6. past' \in BOOLEAN /\ (past => past')
  BY <1>3, <1>n, <1>l, <1>z, ZenonT(30)
<1>7. past' => past \/ index' >= Len(tokens)
  <2>1. n > 0 /\ index + n > Len(tokens) => index' >= Len(tokens)  BY <1>3, <1>4, <1>i
  <2> QED  BY <1>n, <1>l, <1>z, <2>1, ZenonT(30)
<1>8. past' /\ AppendFunction => past \/ index' > Len(tokens)
  <2>1. AppendFunction => Looks(1) /\ index' = index + 1  BY AppendFunctionIs DEF Takes
  <2> QED  BY <2>1 DEF Looks
<1>9. ~past' => ~past /\ (index <= Len(tokens) => index' <= Len(tokens))
  <2>1. n = 0 => index' = index  BY <1>3, <1>4, <1>i
  <2>2. n > 0 /\ ~(index + n > Len(tokens)) => index' <= Len(tokens)  BY <1>3, <1>4, <1>i
  <2> QED  BY <1>n, <1>l, <1>z, <2>1, <2>2, ZenonT(30)
<1>10. index' \in 0 .. Size  BY <1>1 DEF Moves
<1> QED  BY <1>10, <1>5, <1>6, <1>7, <1>8, <1>9 DEF Working, Runs

-----------------------------------------------------------------------------
(* The steps at the ends of functions.                                     *)
LEMMA LoopIs ==
  ASSUME \/ BeginFunction \/ NoFunction \/ Abort \/ End \/ EndBeyond \/ Crash \/ Delete
  PROVE  /\ UNCHANGED <<tokens, beyond, abort, past, errors>>
         /\ BeginFunction =>
              /\ pc' = pc /\ pc = "parsing" /\ stack = <<>> /\ ~abort /\ index < Len(tokens)
              /\ Is("fn") /\ index' = index + 1 /\ stack' # <<>> /\ UNCHANGED <<ast, freed>>
         /\ ~BeginFunction => index' = index /\ stack' = stack
         /\ NoFunction \/ EndBeyond => Refuse /\ pc = "parsing" /\ stack = <<>> /\ ~abort
         /\ NoFunction => index < Len(tokens)
         /\ EndBeyond => index > Len(tokens)
         /\ Abort => pc = "parsing" /\ stack = <<>> /\ abort /\ pc' = "refused" /\ UNCHANGED <<ast, freed>>
         /\ End => /\ pc = "parsing" /\ stack = <<>> /\ ~abort /\ index = Len(tokens) /\ pc' = "done"
                   /\ UNCHANGED <<ast, freed>>
         /\ Crash => past /\ pc' = "crashed" /\ UNCHANGED <<ast, freed>>
         /\ Delete => pc = "done" /\ pc' = "deleted" /\ freed' = freed \o ast_delete(ast) /\ ast' = ast
BY DEF BeginFunction, NoFunction, Abort, End, EndBeyond, Crash, Delete, Refuse, AtLoop, Takes

LEMMA UnwindIs ==
  ASSUME Unwind
  PROVE  /\ UNCHANGED <<tokens, beyond, index, abort, ast, pc, past>>
         /\ pc = "parsing" /\ abort /\ stack # <<>> /\ stack' = Below
         /\ freed' = IF Misses(2) THEN freed \o expression_delete[Top.got[1]] ELSE freed
         /\ errors' \in BOOLEAN
         /\ errors' <=> errors \/ (Misses(0) /\ (Caller.fn = "expr" => Caller.got = <<>>))
BY DEF Unwind

LEMMA LastMissing ==
  ASSUME Ranges, MissingSemicolon
  PROVE  /\ UNCHANGED <<tokens, beyond, index, abort, ast, freed>>
         /\ pc = "parsing" /\ ~abort /\ stack' = <<>> /\ pc' = "refused" /\ errors' = TRUE
         /\ past' \in BOOLEAN /\ (past => past') /\ (past' => past \/ index >= Len(tokens))
<1>1. index \in Nat /\ Len(tokens) \in Nat /\ past \in BOOLEAN  BY Inside DEF Ranges
<1>2. /\ UNCHANGED <<tokens, beyond, index, abort, ast, freed>>
      /\ pc = "parsing" /\ ~abort /\ stack' = <<>> /\ pc' = "refused" /\ errors' = TRUE
      /\ Looks(1)
  BY MissingSemicolonIs DEF Complete, Running
<1>3. (past' <=> past \/ index + 1 > Len(tokens)) /\ past' \in BOOLEAN  BY <1>2 DEF Looks
<1>4. index + 1 > Len(tokens) => index >= Len(tokens)  BY <1>1
<1> QED  BY <1>2, <1>3, <1>4

(* No token of the program or of what lies beyond it is ever changed.      *)
LEMMA InputKept ==
  ASSUME Ranges, Legal(stack), Next
  PROVE  UNCHANGED <<tokens, beyond>>
<1>1. CASE Advance \/ Halt \/ AppendFunction
  <2>1. Working  BY <1>1, AdvanceIs, HaltIs, RunsTakes
  <2> QED  BY <2>1 DEF Working, Runs
<1>2. CASE Unwind  BY <1>2, UnwindIs
<1>3. CASE MissingSemicolon  BY <1>3, LastMissing
<1>4. CASE BeginFunction \/ NoFunction \/ Abort \/ End \/ EndBeyond \/ Crash \/ Delete
  BY <1>4, LoopIs
<1> QED  BY <1>1, <1>2, <1>3, <1>4, Steps

LEMMA RangesKept ==
  ASSUME Ranges, Ends, Legal(stack), Next
  PROVE  Ranges'
<1>1. UNCHANGED <<tokens, beyond>>  BY InputKept
<1>2. Input' /\ Size' = Size
  BY <1>1 DEF Ranges, Input, Size
<1>0. /\ index \in 0 .. Size /\ abort \in BOOLEAN /\ past \in BOOLEAN /\ errors \in BOOLEAN
      /\ pc \in {"parsing", "done", "refused", "deleted", "crashed"}
  BY DEF Ranges
<1>3. /\ index' \in 0 .. Size /\ abort' \in BOOLEAN /\ past' \in BOOLEAN /\ errors' \in BOOLEAN
      /\ pc' \in {"parsing", "done", "refused", "deleted", "crashed"}
  <2>1. CASE Advance \/ AppendFunction
    <3>1. Working  BY <2>1, AdvanceIs, RunsTakes
    <3>2. index' \in 0 .. Size /\ past' \in BOOLEAN /\ pc' = "parsing"  BY <3>1, WorkingMoves
    <3>3. abort' = abort /\ (errors' = errors \/ errors' = (errors \/ Top.got # <<>>))
      BY <2>1, GoesFlags, NoArgFlags DEF Advance
    <3>4. errors' \in BOOLEAN  BY <1>0, <3>3
    <3> QED  BY <1>0, <3>2, <3>3, <3>4
  <2>2. CASE Halt
    <3>1. Working /\ abort' = TRUE /\ (errors' = TRUE \/ errors' = errors)  BY <2>2, HaltIs
    <3>2. index' \in 0 .. Size /\ past' \in BOOLEAN /\ pc' = "parsing"  BY <3>1, WorkingMoves
    <3> QED  BY <1>0, <3>1, <3>2
  <2>3. CASE Unwind
    <3>1. UNCHANGED <<index, abort, pc, past>> /\ errors' \in BOOLEAN  BY <2>3, UnwindIs
    <3> QED  BY <1>0, <3>1
  <2>4. CASE MissingSemicolon  BY <1>0, <2>4, LastMissing
  <2>5. CASE BeginFunction
    <3>1. UNCHANGED <<abort, past, errors, pc>> /\ Is("fn") /\ index' = index + 1  BY <2>5, LoopIs
    <3>2. current_token.type # "nothing"  BY <3>1 DEF Is
    <3>3. index' \in 0 .. Size  BY <3>1, <3>2, Inside
    <3> QED  BY <1>0, <3>1, <3>3
  <2>6. CASE NoFunction \/ Abort \/ End \/ EndBeyond \/ Crash \/ Delete
    <3>1. UNCHANGED <<abort, past, errors>>  BY <2>6, LoopIs
    <3>2. index' = index
      BY <2>6 DEF NoFunction, Abort, End, EndBeyond, Crash, Delete, Refuse
    <3>3. pc' \in {"done", "refused", "deleted", "crashed"}
      BY <2>6 DEF NoFunction, Abort, End, EndBeyond, Crash, Delete, Refuse
    <3> QED  BY <1>0, <3>1, <3>2, <3>3
  <2> QED  BY <2>1, <2>2, <2>3, <2>4, <2>5, <2>6, Steps
<1> QED  BY <1>2, <1>3 DEF Ranges

LEMMA EndsKept ==
  ASSUME Ranges, Ends, Legal(stack), Next
  PROVE  Ends'
<1>1. tokens' = tokens  BY InputKept
<1>2. index \in Nat /\ Len(tokens) \in Nat /\ index' \in Nat /\ past \in BOOLEAN
  <2>1. index' \in 0 .. Size' /\ Size' \in Nat
    <3>1. Ranges'  BY RangesKept
    <3>2. UNCHANGED <<tokens, beyond>>  BY InputKept
    <3>3. Size' = Size  BY <3>2 DEF Size
    <3> QED  BY <3>1, <3>3, Inside DEF Ranges
  <2> QED  BY <2>1, Inside DEF Ranges
<1>0. /\ past => index >= Len(tokens)
      /\ ~past => index <= Len(tokens)
      /\ pc = "parsing" /\ stack = <<>> /\ past /\ ~abort => index > Len(tokens)
      /\ pc = "done" => ~past /\ index = Len(tokens) /\ ~abort /\ stack = <<>>
  BY DEF Ends, AtLoop
<1> DEFINE A == past' => index' >= Len(tokens)
           B == ~past' => index' <= Len(tokens)
           C == pc' = "parsing" /\ stack' = <<>> /\ past' /\ ~abort' => index' > Len(tokens)
           D == pc' = "done" => ~past' /\ index' = Len(tokens) /\ ~abort' /\ stack' = <<>>
<1>3. A /\ B /\ C /\ D
  <2>1. ASSUME Working
        PROVE  A /\ B /\ pc' # "done"
    <3>1. /\ pc' = "parsing" /\ index <= index' /\ (past' => past \/ index' >= Len(tokens))
          /\ ~past' => ~past /\ (index <= Len(tokens) => index' <= Len(tokens))
      BY <2>1, WorkingMoves
    <3>2. index >= Len(tokens) => index' >= Len(tokens)  BY <1>2, <3>1
    <3> QED  BY <1>0, <3>1, <3>2
  <2>2. CASE Advance \/ Halt
    <3>1. Working /\ (stack' # <<>> \/ abort')  BY <2>2, AdvanceIs, HaltIs
    <3> QED  BY <2>1, <3>1
  <2>3. CASE AppendFunction
    <3>1. Working  BY <2>3, RunsTakes
    <3>2. /\ past' => past \/ index' > Len(tokens)
          /\ index' = index + 1
      BY <2>3, <3>1, WorkingMoves, AppendFunctionIs DEF Takes
    <3>3. index >= Len(tokens) => index' > Len(tokens)  BY <1>2, <3>2
    <3>4. past' => index' > Len(tokens)  BY <1>0, <3>2, <3>3
    <3> QED  BY <2>1, <3>1, <3>4
  <2>4. CASE Unwind
    <3>1. UNCHANGED <<index, abort, pc, past>> /\ pc = "parsing" /\ abort  BY <2>4, UnwindIs
    <3> QED  BY <1>0, <3>1
  <2>5. CASE MissingSemicolon
    <3>1. /\ index' = index /\ pc' = "refused" /\ (past => past')
          /\ (past' => past \/ index >= Len(tokens))
      BY <2>5, LastMissing
    <3> QED  BY <1>0, <3>1
  <2>6. CASE BeginFunction
    <3>1. /\ UNCHANGED <<abort, past, pc>> /\ pc = "parsing" /\ stack = <<>> /\ ~abort
          /\ index < Len(tokens) /\ index' = index + 1 /\ stack' # <<>>
      BY <2>6, LoopIs
    <3>2. index' <= Len(tokens) /\ ~(index > Len(tokens))  BY <1>2, <3>1
    <3>3. ~past  BY <1>0, <3>1, <3>2
    <3> QED  BY <3>1, <3>2, <3>3
  <2>7. CASE End
    <3>1. /\ UNCHANGED <<abort, past>> /\ pc = "parsing" /\ stack = <<>> /\ ~abort
          /\ index = Len(tokens) /\ index' = index /\ stack' = stack /\ pc' = "done"
      BY <2>7, LoopIs DEF End
    <3>2. ~(index > Len(tokens)) /\ index >= Len(tokens) /\ index <= Len(tokens)  BY <1>2, <3>1
    <3>3. ~past  BY <1>0, <3>1, <3>2
    <3> QED  BY <3>1, <3>2, <3>3
  <2>8. CASE NoFunction \/ Abort \/ EndBeyond \/ Crash \/ Delete
    <3>1. UNCHANGED <<past, index>> /\ pc' \in {"refused", "deleted", "crashed"}
      BY <2>8 DEF NoFunction, Abort, EndBeyond, Crash, Delete, Refuse
    <3> QED  BY <1>0, <3>1
  <2> QED  BY <2>2, <2>3, <2>4, <2>5, <2>6, <2>7, <2>8, Steps
<1>4. (index' >= Len(tokens'))  <=> (index' >= Len(tokens))  BY <1>1
<1> QED  BY <1>1, <1>3 DEF Ends, AtLoop

-----------------------------------------------------------------------------
(* What covers what is a matter of the tokens, which stay.                 *)
LEMMA SamePlaces ==
  ASSUME UNCHANGED <<tokens, beyond>>
  PROVE  /\ Size' = Size /\ (Faithful' <=> Faithful) /\ (Input' <=> Input)
         /\ \A n : TokenAt(n)' = TokenAt(n)
         /\ \A k : HasText(k)' <=> HasText(k)
         /\ \A k, w : IsWord(k, w)' <=> IsWord(k, w)
         /\ \A s, F, i, j : Owns(s, F, i, j)' <=> Owns(s, F, i, j)
         /\ \A p, i, j : Reads(p, i, j)' <=> Reads(p, i, j)
         /\ \A s, p, F, i, j : Covers(s, p, F, i, j)' <=> Covers(s, p, F, i, j)
<1>1. Size' = Size  BY DEF Size
<1>2. \A n : TokenAt(n)' = TokenAt(n)  BY <1>1 DEF TokenAt, Outside
<1>3. \A k : HasText(k)' <=> HasText(k)  BY DEF HasText
<1>4. \A k, w : IsWord(k, w)' <=> IsWord(k, w)  BY DEF IsWord
<1>5. (Misread' <=> Misread) /\ (SpareComma' <=> SpareComma)  BY DEF Misread, Respelt, SpareComma
<1>6. Faithful' <=> Faithful  BY <1>5 DEF Faithful
<1>7. \A s, F, i, j : Owns(s, F, i, j)' <=> Owns(s, F, i, j)  BY <1>3 DEF Owns
<1>8. \A p, i, j : Reads(p, i, j)' <=> Reads(p, i, j)  BY DEF Reads
<1>9. \A s, p, F, i, j : Covers(s, p, F, i, j)' <=> Covers(s, p, F, i, j)
  BY <1>6, <1>7, <1>8 DEF Covers
<1>10. Input' <=> Input  BY DEF Input
<1> QED  BY <1>1, <1>2, <1>3, <1>4, <1>6, <1>7, <1>8, <1>9, <1>10

LEMMA SameTrees ==
  ASSUME UNCHANGED <<tokens, beyond>>
  PROVE  /\ expression_delete' = expression_delete /\ fprintf_expression' = fprintf_expression
         /\ \A f : fprintf_function(f)' = fprintf_function(f)
         /\ \A a : ast_delete(a)' = ast_delete(a)
         /\ \A e, F, i, j : Meant(e, F, i, j)' <=> Meant(e, F, i, j)
<1>1. Size' = Size /\ \A n : TokenAt(n)' = TokenAt(n)  BY SamePlaces
<1>2. expression_delete' = expression_delete  BY <1>1 DEF expression_delete, TextsOf
<1>p. \A e, printed : PrintOf(e, printed)' = PrintOf(e, printed)  BY <1>1, ZenonT(60) DEF PrintOf
<1>3. fprintf_expression' = fprintf_expression  BY <1>1, <1>p DEF fprintf_expression
<1>4. \A a : fprintf_args(a)' = fprintf_args(a)  BY <1>1 DEF fprintf_args
<1>5. \A f : fprintf_function(f)' = fprintf_function(f)  BY <1>1, <1>3, <1>4 DEF fprintf_function
<1>6. \A a : ast_delete(a)' = ast_delete(a)  BY <1>2 DEF ast_delete
<1>7. \A e, F, i, j : Meant(e, F, i, j)' <=> Meant(e, F, i, j)
  BY <1>2, <1>3, SamePlaces DEF Meant
<1> QED  BY <1>2, <1>3, <1>5, <1>6, <1>7

LEMMA Same ==
  ASSUME UNCHANGED <<tokens, beyond>>
  PROVE  \A a, c, F, j : Follows(a, c, F, j)' <=> Follows(a, c, F, j)
<1>1. Size' = Size  BY SamePlaces
<1>2. \A f, F, i, j : FunctionCovers(f, F, i, j)' <=> FunctionCovers(f, F, i, j)
  BY <1>1, SamePlaces, SameTrees DEF FunctionCovers
<1>3. \A a, F, j : AstCovers(a, F, j)' <=> AstCovers(a, F, j)  BY <1>2 DEF AstCovers
<1>4. \A a, F, p : ArgAt(a, F, p)' <=> ArgAt(a, F, p)  BY SamePlaces DEF ArgAt
<1>5. \A a, F, i : ArgsRead(a, F, i)' <=> ArgsRead(a, F, i)  BY <1>4 DEF ArgsRead
<1>6. \A n, i : Commas(n, i)' <=> Commas(n, i)  BY SamePlaces DEF Commas
<1>7. \A a, F, i, j : ArgsCover(a, F, i, j)' <=> ArgsCover(a, F, i, j)  BY <1>5, <1>6 DEF ArgsCover
<1>8. \A need, x, F, i, j : ItemCovers(need, x, F, i, j)' <=> ItemCovers(need, x, F, i, j)
  BY <1>7, SamePlaces, SameTrees DEF ItemCovers
<1>9. \A needs, got, F, i, j : ItemsCover(needs, got, F, i, j)' <=> ItemsCover(needs, got, F, i, j)
  BY <1>8 DEF ItemsCover
<1>10. \A list, F, at : Statements(list, F, at)' <=> Statements(list, F, at)
  BY SamePlaces, SameTrees DEF Statements
<1>11. \A got, F, i, j : BlockCovers(got, F, i, j)' <=> BlockCovers(got, F, i, j)
  BY <1>10 DEF BlockCovers
<1>12. \A got, F, i, j : ChainCovers(got, F, i, j)' <=> ChainCovers(got, F, i, j)
  BY SamePlaces, SameTrees DEF ChainCovers
<1>13. \A f, F, j : FrameCovers(f, F, j)' <=> FrameCovers(f, F, j)
  BY <1>5, <1>6, <1>9, <1>11, <1>12, SamePlaces DEF FrameCovers
<1>14. \A a, c, F, j : Follows(a, c, F, j)' <=> Follows(a, c, F, j)
  BY <1>3, <1>13 DEF Follows
<1> QED  BY <1>14

-----------------------------------------------------------------------------
(* What is freed: texts of tokens up to one, each of them once.            *)
FreedUpTo(s, j) ==
  /\ s \in Seq(Places)
  /\ \A a, b \in 1 .. Len(s) : a # b => s[a] # s[b]
  /\ \A a \in 1 .. Len(s) : s[a] \in 1 .. j /\ HasText(s[a])

Content ==
  ~past /\ pc \in {"parsing", "done"} =>
    \E j \in 0 .. index :
      /\ ~abort => j = index
      /\ Follows(ast, stack, RangeOf(freed), j)

FreedIs ==
  ~past =>
    /\ FreedUpTo(freed, Len(tokens))
    /\ pc \in {"parsing", "done"} => FreedUpTo(freed, index)
    /\ pc = "deleted" =>
         RangeOf(freed) = {k \in DOMAIN tokens : HasText(k)} \ Parameters

LEMMA RangeIs ==
  ASSUME NEW s, s \in Seq(Places)
  PROVE  /\ DOMAIN s = 1 .. Len(s) /\ Len(s) \in Nat
         /\ RangeOf(s) = {s[k] : k \in 1 .. Len(s)}
BY LenProperties DEF RangeOf

LEMMA FreedMore ==
  ASSUME NEW i \in Nat, NEW j \in Nat, i <= j, NEW s, FreedUpTo(s, i), NEW t, FreedUpTo(t, j),
         \A a \in 1 .. Len(t) : t[a] \notin RangeOf(s)
  PROVE  FreedUpTo(s \o t, j) /\ RangeOf(s \o t) = RangeOf(s) \union RangeOf(t)
<1> DEFINE n == Len(s)
           m == Len(t)
           c == s \o t
<1>1. /\ s \in Seq(Places) /\ t \in Seq(Places) /\ n \in Nat /\ m \in Nat
      /\ RangeOf(s) = {s[k] : k \in 1 .. n} /\ RangeOf(t) = {t[k] : k \in 1 .. m}
  BY RangeIs DEF FreedUpTo
<1>2. /\ c \in Seq(Places) /\ Len(c) = n + m
      /\ \A k \in 1 .. n + m : c[k] = IF k <= n THEN s[k] ELSE t[k - n]
  BY <1>1, ConcatProperties
<1>3. \A k \in 1 .. n + m : (k <= n => k \in 1 .. n) /\ (~(k <= n) => k - n \in 1 .. m)
  BY <1>1
<1>4. /\ \A a, b \in 1 .. n : a # b => s[a] # s[b]
      /\ \A a \in 1 .. n : s[a] \in 1 .. i /\ HasText(s[a])
      /\ \A a, b \in 1 .. m : a # b => t[a] # t[b]
      /\ \A a \in 1 .. m : t[a] \in 1 .. j /\ HasText(t[a])
  BY DEF FreedUpTo
<1>0. \A a \in 1 .. m : t[a] \notin RangeOf(s)  OBVIOUS
<1> HIDE DEF n, m, c
<1>5. ASSUME NEW a \in 1 .. n + m, NEW b \in 1 .. n + m, a # b PROVE c[a] # c[b]
  <2>1. CASE a <= n /\ b <= n  BY <1>2, <1>3, <1>4, <1>5, <2>1
  <2>2. CASE ~(a <= n) /\ ~(b <= n)
    <3>1. a - n \in 1 .. m /\ b - n \in 1 .. m /\ a - n # b - n  BY <1>1, <1>3, <1>5, <2>2
    <3> QED  BY <1>2, <1>4, <2>2, <3>1
  <2>3. CASE a <= n /\ ~(b <= n)
    <3>1. a \in 1 .. n /\ b - n \in 1 .. m  BY <1>3, <2>3
    <3>2. c[a] = s[a] /\ c[b] = t[b - n] /\ s[a] \in RangeOf(s)  BY <1>1, <1>2, <2>3, <3>1
    <3> QED  BY <1>0, <3>1, <3>2
  <2>4. CASE ~(a <= n) /\ b <= n
    <3>1. b \in 1 .. n /\ a - n \in 1 .. m  BY <1>3, <2>4
    <3>2. c[b] = s[b] /\ c[a] = t[a - n] /\ s[b] \in RangeOf(s)  BY <1>1, <1>2, <2>4, <3>1
    <3> QED  BY <1>0, <3>1, <3>2
  <2> QED  BY <2>1, <2>2, <2>3, <2>4
<1>6. ASSUME NEW a \in 1 .. n + m PROVE c[a] \in 1 .. j /\ HasText(c[a])
  <2>1. CASE a <= n
    <3>1. a \in 1 .. n /\ c[a] = s[a]  BY <1>2, <1>3, <2>1
    <3>2. s[a] \in 1 .. i /\ HasText(s[a])  BY <1>4, <3>1
    <3>3. s[a] \in 1 .. j  BY <3>2
    <3> QED  BY <3>1, <3>2, <3>3
  <2>2. CASE ~(a <= n)
    <3>1. a - n \in 1 .. m /\ c[a] = t[a - n]  BY <1>2, <1>3, <2>2
    <3> QED  BY <1>4, <3>1
  <2> QED  BY <2>1, <2>2
<1>7. FreedUpTo(c, j)  BY <1>2, <1>5, <1>6 DEF FreedUpTo
<1>8. RangeOf(c) = RangeOf(s) \union RangeOf(t)
  <2>1. RangeOf(c) = {c[k] : k \in 1 .. n + m}  BY <1>2, RangeIs
  <2>2. \A k \in 1 .. n + m : c[k] \in RangeOf(s) \union RangeOf(t)  BY <1>1, <1>2, <1>3
  <2>3. \A k \in 1 .. n : k \in 1 .. n + m /\ k <= n  BY <1>1
  <2>4. \A k \in 1 .. m : k + n \in 1 .. n + m /\ ~(k + n <= n) /\ (k + n) - n = k  BY <1>1
  <2>5. \A k \in 1 .. n : s[k] \in RangeOf(c)
    <3> SUFFICES ASSUME NEW k \in 1 .. n PROVE s[k] \in RangeOf(c)
      OBVIOUS
    <3>1. k \in 1 .. n + m /\ c[k] = s[k]  BY <1>2, <2>3
    <3> QED  BY <2>1, <3>1
  <2>6. \A k \in 1 .. m : t[k] \in RangeOf(c)
    <3> SUFFICES ASSUME NEW k \in 1 .. m PROVE t[k] \in RangeOf(c)
      OBVIOUS
    <3>1. k + n \in 1 .. n + m /\ c[k + n] = t[k]  BY <1>2, <2>4
    <3> QED  BY <2>1, <3>1
  <2> QED  BY <1>1, <2>1, <2>2, <2>5, <2>6
<1> QED  BY <1>7, <1>8 DEF c

LEMMA FreedOwned ==
  ASSUME NEW F, NEW i \in Nat, NEW j \in Nat, NEW t, Owns(t, F, i, j)
  PROVE  /\ FreedUpTo(t, j)
         /\ \A a \in 1 .. Len(t) : t[a] \notin F /\ t[a] \in i + 1 .. j
         /\ \A x : x \in RangeOf(t) <=> x \in i + 1 .. j /\ HasText(x) /\ x \notin F
<1>1. t \in Seq(Places) /\ \A a, b \in 1 .. Len(t) : a # b => t[a] # t[b]  BY DEF Owns
<1>2. \A x : (\E a \in 1 .. Len(t) : t[a] = x) <=> (x \in i + 1 .. j /\ HasText(x) /\ x \notin F)
  BY DEF Owns
<1>3. \A a \in 1 .. Len(t) : t[a] \in i + 1 .. j /\ HasText(t[a]) /\ t[a] \notin F
  <2> SUFFICES ASSUME NEW a \in 1 .. Len(t)
               PROVE  t[a] \in i + 1 .. j /\ HasText(t[a]) /\ t[a] \notin F
    OBVIOUS
  <2>1. \E b \in 1 .. Len(t) : t[b] = t[a]  OBVIOUS
  <2> QED  BY <1>2, <2>1
<1>4. \A x \in i + 1 .. j : x \in 1 .. j  OBVIOUS
<1>5. FreedUpTo(t, j)  BY <1>1, <1>3, <1>4 DEF FreedUpTo
<1>6. RangeOf(t) = {t[k] : k \in 1 .. Len(t)}  BY <1>1, RangeIs
<1>7. \A x : x \in RangeOf(t) <=> x \in i + 1 .. j /\ HasText(x) /\ x \notin F
  BY <1>2, <1>6
<1> QED  BY <1>3, <1>5, <1>7

LEMMA FreedGrows ==
  ASSUME NEW i \in Nat, NEW j \in Nat, i <= j, NEW s, FreedUpTo(s, i)
  PROVE  FreedUpTo(s, j) /\ \A y \in RangeOf(s) : y \in 1 .. i
<1>1. \A x \in 1 .. i : x \in 1 .. j  OBVIOUS
<1>2. RangeOf(s) = {s[k] : k \in 1 .. Len(s)}  BY RangeIs DEF FreedUpTo
<1> QED  BY <1>1, <1>2 DEF FreedUpTo

LEMMA FollowingNow ==
  ASSUME Ranges, Ends, Legal(stack), Content, FreedIs, ~past, ~abort, pc \in {"parsing", "done"}
  PROVE  /\ Following(RangeOf(freed)) /\ FreedUpTo(freed, index)
         /\ index \in Nat /\ index <= Len(tokens)
<1>1. index \in Nat /\ index <= Len(tokens) /\ Input  BY Inside DEF Ends, Ranges
<1>2. FreedUpTo(freed, index) /\ Follows(ast, stack, RangeOf(freed), index)  BY DEF FreedIs, Content
<1>3. \A y \in RangeOf(freed) : y \in 1 .. index  BY <1>1, <1>2, FreedGrows
<1> QED  BY <1>1, <1>2, <1>3 DEF Following

(* A step forward, and what it frees.                                      *)
LEMMA Quiet ==
  ASSUME NEW F, Following(F), ~past',
         \/ Take \/ CallFunction \/ BeginBlock \/ Statement \/ BeginAlternative \/ Operator
         \/ BeginArg \/ GoOn \/ EndOfAlternative \/ EndOfExpression \/ EndOfStatement \/ EndOfBlock
         \/ NoArg \/ NextArg \/ LastArg \/ AppendFunction \/ BeginFunction
  PROVE  Follows(ast', stack', F, index') /\ freed' = freed
<1>1. freed' = freed
  BY BeginBlockIs, EndOfStatementIs, EndOfBlockIs, NextArgIs, LastArgIs, AppendFunctionIs
     DEF Take, CallFunction, Statement, BeginAlternative, Operator, BeginArg, GoOn,
         EndOfAlternative, EndOfExpression, NoArg, BeginFunction
<1>2. Follows(ast', stack', F, index')
  BY FollowsTake, FollowsCall, FollowsBeginBlock, FollowsStatement, FollowsBegin, FollowsOperator,
     FollowsArg, FollowsGoOn, FollowsAlternative, FollowsExpression, FollowsStatementEnd,
     FollowsBlockEnd, FollowsNoArg, FollowsNextArg, FollowsLastArg, FollowsAppend, FollowsFunction
<1> QED  BY <1>1, <1>2

LEMMA OneFreed ==
  ASSUME NEW i \in Nat, HasText(i + 1), NEW s, FreedUpTo(s, i)
  PROVE  /\ FreedUpTo(Append(s, i + 1), i + 1)
         /\ RangeOf(Append(s, i + 1)) = RangeOf(s) \union {i + 1}
<1> DEFINE x == i + 1
           t == <<x>>
<1>1. x \in Places /\ x \in 1 .. x /\ x \in Nat /\ i <= x  BY DEF Places
<1>2. \A y \in RangeOf(s) : y \in 1 .. i  BY FreedGrows
<1>3. x \notin RangeOf(s)
  <2>1. x \notin 1 .. i  OBVIOUS
  <2> QED  BY <1>2, <2>1
<1>4. HasText(x)  OBVIOUS
<1> HIDE DEF x
<1>5. t \in Seq(Places) /\ Len(t) = 1 /\ t[1] = x  BY <1>1
<1>6. Append(s, x) = s \o t
  <2>1. s \in Seq(Places)  BY DEF FreedUpTo
  <2> QED  BY <1>1, <2>1
<1> HIDE DEF t
<1>7. FreedUpTo(t, x)  BY <1>1, <1>4, <1>5 DEF FreedUpTo
<1>8. RangeOf(t) = {x}
  <2>1. RangeOf(t) = {t[k] : k \in 1 .. 1}  BY <1>5, RangeIs
  <2> QED  BY <1>5, <2>1
<1>9. \A a \in 1 .. Len(t) : t[a] \notin RangeOf(s)  BY <1>3, <1>5
<1>10. FreedUpTo(s \o t, x) /\ RangeOf(s \o t) = RangeOf(s) \union RangeOf(t)
  BY <1>1, <1>7, <1>9, FreedMore
<1> QED  BY <1>6, <1>8, <1>10 DEF x

LEMMA TwoFreed ==
  ASSUME NEW i \in Nat, HasText(i + 1), HasText(i + 2), NEW s, FreedUpTo(s, i)
  PROVE  /\ FreedUpTo(s \o <<i + 1, i + 2>>, i + 2)
         /\ RangeOf(s \o <<i + 1, i + 2>>) = RangeOf(s) \union {i + 1, i + 2}
<1> DEFINE x == i + 1
           y == i + 2
           t == <<x, y>>
<1>1. /\ x \in Places /\ y \in Places /\ x \in 1 .. y /\ y \in 1 .. y /\ y \in Nat /\ i <= y /\ x # y
      /\ x \notin 1 .. i /\ y \notin 1 .. i
  BY DEF Places
<1>2. \A z \in RangeOf(s) : z \in 1 .. i  BY FreedGrows
<1>3. x \notin RangeOf(s) /\ y \notin RangeOf(s)  BY <1>1, <1>2
<1>4. HasText(x) /\ HasText(y)  OBVIOUS
<1> HIDE DEF x, y
<1>5. t \in Seq(Places) /\ Len(t) = 2 /\ t[1] = x /\ t[2] = y  BY <1>1
<1> HIDE DEF t
<1>6. \A a \in 1 .. Len(t) : a = 1 \/ a = 2  BY <1>5
<1>7. FreedUpTo(t, y)  BY <1>1, <1>4, <1>5, <1>6 DEF FreedUpTo
<1>8. RangeOf(t) = {x, y}
  <2>1. RangeOf(t) = {t[k] : k \in 1 .. 2}  BY <1>5, RangeIs
  <2> QED  BY <1>5, <2>1
<1>9. \A a \in 1 .. Len(t) : t[a] \notin RangeOf(s)  BY <1>3, <1>5, <1>6
<1>10. FreedUpTo(s \o t, y) /\ RangeOf(s \o t) = RangeOf(s) \union RangeOf(t)
  BY <1>1, <1>7, <1>9, FreedMore
<1> QED  BY <1>8, <1>10 DEF x, y, t

LEMMA Onward ==
  ASSUME Ranges, Ends, Legal(stack), Content, FreedIs, ~past',
         Advance \/ AppendFunction \/ BeginFunction
  PROVE  /\ Follows(ast', stack', RangeOf(freed'), index') /\ FreedUpTo(freed', index')
         /\ index' \in Nat /\ index <= index' /\ index' <= Len(tokens) /\ pc' = "parsing" /\ ~past
<1> DEFINE F == RangeOf(freed)
<1>1. /\ ~past /\ ~abort /\ pc = "parsing" /\ pc' = "parsing" /\ index <= index' /\ index' \in Nat
      /\ index' <= Len(tokens)
  <2>1. CASE Advance \/ AppendFunction
    <3>1. Working  BY <2>1, AdvanceIs, RunsTakes
    <3>2. index <= Len(tokens) \/ past  BY DEF Ends
    <3>3. index' \in 0 .. Size /\ Size \in Nat  BY <3>1, WorkingMoves, Inside
    <3> QED  BY <3>1, <3>2, <3>3, WorkingMoves
  <2>2. CASE BeginFunction
    <3>1. /\ past' = past /\ ~abort /\ pc = "parsing" /\ pc' = pc /\ index' = index + 1
          /\ index < Len(tokens)
      BY <2>2, LoopIs
    <3>2. index \in Nat /\ Len(tokens) \in Nat  BY Inside
    <3> QED  BY <3>1, <3>2
  <2> QED  BY <2>1, <2>2
<1>2. Following(F) /\ FreedUpTo(freed, index) /\ index \in Nat  BY <1>1, FollowingNow
<1> HIDE DEF F
<1>3. Follows(ast', stack', RangeOf(freed'), index') /\ FreedUpTo(freed', index')
  <2>1. CASE CharLiteral \/ Number
    <3>1. /\ Follows(ast', stack', F \union {index + 1}, index') /\ index' = index + 1
          /\ HasText(index + 1) /\ freed' = Append(freed, index + 1)
      BY <1>2, <2>1, FollowsLiteral
    <3>2. /\ FreedUpTo(Append(freed, index + 1), index + 1)
          /\ RangeOf(Append(freed, index + 1)) = F \union {index + 1}
      BY <1>2, <3>1, OneFreed DEF F
    <3> QED  BY <3>1, <3>2
  <2>2. CASE HexNumber
    <3>1. /\ Follows(ast', stack', F \union {index + 1, index + 2}, index') /\ index' = index + 2
          /\ HasText(index + 1) /\ HasText(index + 2) /\ freed' = freed \o <<index + 1, index + 2>>
      BY <1>2, <2>2, FollowsHex
    <3>2. /\ FreedUpTo(freed \o <<index + 1, index + 2>>, index + 2)
          /\ RangeOf(freed \o <<index + 1, index + 2>>) = F \union {index + 1, index + 2}
      BY <1>2, <3>1, TwoFreed DEF F
    <3> QED  BY <3>1, <3>2
  <2>3. CASE \/ Take \/ CallFunction \/ BeginBlock \/ Statement \/ BeginAlternative \/ Operator
             \/ BeginArg \/ GoOn \/ EndOfAlternative \/ EndOfExpression \/ EndOfStatement \/ EndOfBlock
             \/ NoArg \/ NextArg \/ LastArg \/ AppendFunction \/ BeginFunction
    <3>1. Follows(ast', stack', F, index') /\ freed' = freed  BY <1>2, <2>3, Quiet
    <3>2. FreedUpTo(freed, index')  BY <1>1, <1>2, FreedGrows
    <3> QED  BY <3>1, <3>2 DEF F
  <2> QED  BY <2>1, <2>2, <2>3 DEF Advance
<1> QED  BY <1>1, <1>3

LEMMA ContentKept ==
  ASSUME Ranges, Ends, Legal(stack), Content, FreedIs, Next
  PROVE  Content'
<1>1. UNCHANGED <<tokens, beyond>>  BY InputKept
<1>2. \A a, c, F, j : Follows(a, c, F, j)' <=> Follows(a, c, F, j)  BY <1>1, Same
<1>3. ASSUME ~past', pc' \in {"parsing", "done"}
      PROVE  \E j \in 0 .. index' :
               (~abort' => j = index') /\ Follows(ast', stack', RangeOf(freed'), j)
  <2>1. CASE Advance \/ AppendFunction \/ BeginFunction
    <3>1. Follows(ast', stack', RangeOf(freed'), index') /\ index' \in Nat
      BY <1>3, <2>1, Onward
    <3>2. index' \in 0 .. index'  BY <3>1
    <3> QED  BY <3>1, <3>2
  <2>2. CASE Halt
    <3>1. Working /\ abort' = TRUE /\ stack' = stack /\ ast' = ast /\ freed' = freed  BY <2>2, HaltIs
    <3>2. /\ ~past /\ pc = "parsing" /\ index' \in 0 .. Size /\ index <= index'
          /\ index \in Nat /\ Size \in Nat
      BY <1>3, <3>1, WorkingMoves, Inside
    <3>3. PICK j \in 0 .. index : Follows(ast, stack, RangeOf(freed), j)  BY <3>2 DEF Content
    <3>4. j \in 0 .. index'  BY <3>2
    <3> QED  BY <3>1, <3>3, <3>4
  <2>3. CASE Unwind
    <3>1. /\ UNCHANGED <<index, abort, ast, pc, past>> /\ abort /\ pc = "parsing"
          /\ stack # <<>> /\ stack' = Below
          /\ freed' = IF Misses(2) THEN freed \o expression_delete[Top.got[1]] ELSE freed
      BY <2>3, UnwindIs
    <3>2. PICK j \in 0 .. index : Follows(ast, stack, RangeOf(freed), j)  BY <1>3, <3>1 DEF Content
    <3> DEFINE F == RangeOf(freed)
               i == Top.from
               s == expression_delete[Top.got[1]]
    <3>3. /\ Follows(ast, Below, F, i) /\ i \in Nat /\ j \in Nat /\ i <= j /\ j <= Len(tokens)
          /\ Misses(2) => Owns(s, F, i, j - 1) /\ i < j
      BY <3>1, <3>2, FollowsUnwind DEF Ranges
    <3>4. index \in Nat /\ j <= index /\ Legal(Below)  BY <3>1, <3>2, Inside, Positions
    <3>5. i \in 0 .. index'  BY <3>1, <3>3, <3>4
    <3>0. FreedUpTo(freed, index)  BY <1>3, <3>1 DEF FreedIs
    <3> HIDE DEF i, s
    <3>6. Follows(ast, Below, RangeOf(freed'), i)
      <4>1. CASE ~Misses(2)
        <5>1. freed' = freed  BY <3>1, <4>1
        <5> QED  BY <3>3, <5>1
      <4>2. CASE Misses(2)
        <5> DEFINE k == j - 1
        <5>1. k \in Nat /\ k <= index /\ Owns(s, F, i, k)  BY <3>3, <3>4, <4>2
        <5>2. freed' = freed \o s  BY <3>1, <4>2 DEF s
        <5> HIDE DEF k, F
        <5>3. /\ FreedUpTo(s, k) /\ \A a \in 1 .. Len(s) : s[a] \notin F
              /\ \A x : x \in RangeOf(s) <=> x \in i + 1 .. k /\ HasText(x) /\ x \notin F
          BY <3>3, <5>1, FreedOwned
        <5>4. FreedUpTo(s, index)  BY <3>4, <5>1, <5>3, FreedGrows
        <5>5. RangeOf(freed \o s) = F \union RangeOf(s)
          BY <3>0, <3>4, <5>3, <5>4, FreedMore DEF F
        <5>6. \A y \in 1 .. i : y \in F <=> y \in F \union RangeOf(s)
          <6>1. \A y \in 1 .. i : y \notin i + 1 .. k  BY <3>3, <5>1
          <6> QED  BY <5>3, <6>1
        <5>7. Follows(ast, Below, F \union RangeOf(s), i)  BY <3>3, <3>4, <5>6, FollowsOther
        <5> QED  BY <5>2, <5>5, <5>7
      <4> QED  BY <4>1, <4>2
    <3> QED  BY <3>1, <3>5, <3>6
  <2>4. CASE End
    <3>1. /\ UNCHANGED <<abort, past, index, stack, ast, freed>> /\ pc = "parsing"
      BY <2>4, LoopIs DEF End
    <3> QED  BY <1>3, <3>1 DEF Content
  <2>5. CASE MissingSemicolon  BY <1>3, <2>5, LastMissing
  <2>6. CASE NoFunction \/ Abort \/ EndBeyond \/ Crash \/ Delete
    BY <1>3, <2>6 DEF NoFunction, Abort, EndBeyond, Crash, Delete, Refuse
  <2> QED  BY <2>1, <2>2, <2>3, <2>4, <2>5, <2>6, Steps
<1> QED  BY <1>2, <1>3 DEF Content

LEMMA ParametersAre == Parameters = ParametersOf(ast)
BY DEF Parameters, ParametersOf, NamesOf

(* The functions are deleted.                                              *)
LEMMA Deleting ==
  ASSUME Input, NEW F, F = RangeOf(freed), NEW i \in Nat, NEW j \in Nat, i <= j, AstCovers(ast, F, i),
         FreedUpTo(freed, j)
  PROVE  /\ FreedUpTo(freed \o ast_delete(ast), j)
         /\ RangeOf(freed \o ast_delete(ast)) =
              F \union {x \in 1 .. i : HasText(x) /\ x \notin F \union Parameters}
         /\ RangeOf(ast_delete(ast)) \intersect F = {}
<1> DEFINE s == ast_delete(ast)
           G == F \union Parameters
<1>1. Owns(s, G, 0, i)
  <2>1. Covers(s, fprintf_ast(ast), F \union ParametersOf(ast), 0, i)  BY AstMeant
  <2> QED  BY <2>1, ParametersAre DEF Covers
<1> HIDE DEF s, G
<1>2. /\ FreedUpTo(s, i) /\ \A a \in 1 .. Len(s) : s[a] \notin G
      /\ \A x : x \in RangeOf(s) <=> x \in 0 + 1 .. i /\ HasText(x) /\ x \notin G
  BY <1>1, FreedOwned
<1>3. FreedUpTo(s, j)  BY <1>2, FreedGrows
<1>4. \A a \in 1 .. Len(s) : s[a] \notin F  BY <1>2 DEF G
<1>5. FreedUpTo(freed \o s, j) /\ RangeOf(freed \o s) = F \union RangeOf(s)
  BY <1>3, <1>4, FreedMore
<1>z. 0 + 1 .. i = 1 .. i  OBVIOUS
<1>6. RangeOf(s) = {x \in 1 .. i : HasText(x) /\ x \notin G}  BY <1>2, <1>z
<1>7. RangeOf(s) \intersect F = {}  BY <1>6 DEF G
<1> QED  BY <1>5, <1>6, <1>7 DEF s, G

LEMMA FreedKept ==
  ASSUME Ranges, Ends, Legal(stack), Content, FreedIs, Next
  PROVE  FreedIs'
<1>1. UNCHANGED <<tokens, beyond>>  BY InputKept
<1>2. \A k : HasText(k)' <=> HasText(k)  BY <1>1, SamePlaces
<1>3. \A s, j : FreedUpTo(s, j)' <=> FreedUpTo(s, j)  BY <1>2 DEF FreedUpTo
<1>0. index \in Nat /\ Len(tokens) \in Nat /\ Input  BY Inside DEF Ranges
<1>4. ASSUME ~past'
      PROVE  /\ FreedUpTo(freed', Len(tokens))
             /\ pc' \in {"parsing", "done"} => FreedUpTo(freed', index')
             /\ pc' = "deleted" =>
                  RangeOf(freed') = {k \in DOMAIN tokens : HasText(k)} \ Parameters'
  <2>1. CASE Advance \/ AppendFunction \/ BeginFunction
    <3>1. /\ FreedUpTo(freed', index') /\ index' \in Nat /\ index' <= Len(tokens) /\ pc' = "parsing"
      BY <1>4, <2>1, Onward
    <3>2. FreedUpTo(freed', Len(tokens))  BY <1>0, <3>1, FreedGrows
    <3> QED  BY <3>1, <3>2
  <2>2. CASE Halt
    <3>1. Working /\ freed' = freed  BY <2>2, HaltIs
    <3>2. /\ ~past /\ pc = "parsing" /\ pc' = "parsing" /\ index' \in 0 .. Size /\ index <= index'
          /\ index' \in Nat
      BY <1>4, <3>1, WorkingMoves, Inside
    <3>3. FreedUpTo(freed, Len(tokens)) /\ FreedUpTo(freed, index)  BY <3>2 DEF FreedIs
    <3>4. FreedUpTo(freed, index')  BY <1>0, <3>2, <3>3, FreedGrows
    <3> QED  BY <3>1, <3>2, <3>3, <3>4
  <2>3. CASE Unwind
    <3>1. /\ UNCHANGED <<index, abort, ast, pc, past>> /\ abort /\ pc = "parsing"
          /\ stack # <<>>
          /\ freed' = IF Misses(2) THEN freed \o expression_delete[Top.got[1]] ELSE freed
      BY <2>3, UnwindIs
    <3>2. PICK j \in 0 .. index : Follows(ast, stack, RangeOf(freed), j)  BY <1>4, <3>1 DEF Content
    <3> DEFINE F == RangeOf(freed)
               i == Top.from
               s == expression_delete[Top.got[1]]
    <3>3. /\ i \in Nat /\ j \in Nat
          /\ Misses(2) => Owns(s, F, i, j - 1) /\ i < j
      BY <3>1, <3>2, FollowsUnwind DEF Ranges
    <3>4. FreedUpTo(freed, index) /\ FreedUpTo(freed, Len(tokens)) /\ j <= index /\ index <= Len(tokens)
      BY <1>0, <1>4, <3>1, <3>2 DEF FreedIs, Ends
    <3> HIDE DEF i, s
    <3>5. FreedUpTo(freed', index)
      <4>1. CASE ~Misses(2)
        <5>1. freed' = freed  BY <3>1, <4>1
        <5> QED  BY <3>4, <5>1
      <4>2. CASE Misses(2)
        <5> DEFINE k == j - 1
        <5>1. k \in Nat /\ k <= index /\ Owns(s, F, i, k)
          BY <1>0, <3>3, <3>4, <4>2
        <5>2. freed' = freed \o s  BY <3>1, <4>2 DEF s
        <5> HIDE DEF k, F
        <5>3. FreedUpTo(s, k) /\ \A a \in 1 .. Len(s) : s[a] \notin F
          BY <3>3, <5>1, FreedOwned
        <5>4. FreedUpTo(s, index)  BY <1>0, <5>1, <5>3, FreedGrows
        <5>5. FreedUpTo(freed \o s, index)
          BY <1>0, <3>4, <5>3, <5>4, FreedMore DEF F
        <5> QED  BY <5>2, <5>5
      <4> QED  BY <4>1, <4>2
    <3>6. FreedUpTo(freed', Len(tokens))  BY <1>0, <3>4, <3>5, FreedGrows
    <3> QED  BY <3>1, <3>5, <3>6
  <2>4. CASE End
    <3>1. UNCHANGED <<past, index, freed>> /\ pc = "parsing" /\ pc' = "done"
      BY <2>4, LoopIs DEF End
    <3> QED  BY <1>4, <3>1 DEF FreedIs
  <2>5. CASE MissingSemicolon
    <3>1. UNCHANGED <<index, freed>> /\ pc = "parsing" /\ pc' = "refused" /\ ~past
      BY <1>4, <2>5, LastMissing
    <3> QED  BY <3>1 DEF FreedIs
  <2>6. CASE Abort
    <3>1. UNCHANGED <<past, freed>> /\ pc' = "refused"  BY <2>6, LoopIs
    <3> QED  BY <1>4, <3>1 DEF FreedIs
  <2>7. CASE Crash  BY <1>4, <2>7, LoopIs
  <2>8. CASE NoFunction \/ EndBeyond
    <3>1. /\ past' = past /\ pc = "parsing" /\ stack = <<>> /\ ~abort /\ pc' = "refused"
          /\ freed' = freed \o ast_delete(ast)
      BY <2>8, LoopIs DEF Refuse
    <3>2. /\ Follows(ast, stack, RangeOf(freed), index) /\ FreedUpTo(freed, Len(tokens))
          /\ index <= Len(tokens)
      BY <1>4, <3>1 DEF Content, FreedIs, Ends
    <3>3. AstCovers(ast, RangeOf(freed), index)  BY <3>1, <3>2, FollowsNone
    <3>4. FreedUpTo(freed \o ast_delete(ast), Len(tokens))  BY <1>0, <3>2, <3>3, Deleting
    <3> QED  BY <3>1, <3>4
  <2>9. CASE Delete
    <3>1. /\ past' = past /\ pc = "done" /\ pc' = "deleted" /\ ast' = ast
          /\ freed' = freed \o ast_delete(ast)
      BY <2>9, LoopIs
    <3>2. /\ Follows(ast, stack, RangeOf(freed), index) /\ FreedUpTo(freed, Len(tokens))
          /\ index = Len(tokens) /\ stack = <<>>
      BY <1>4, <3>1 DEF Content, FreedIs, Ends
    <3> DEFINE F == RangeOf(freed)
               n == Len(tokens)
    <3>3. AstCovers(ast, F, n)  BY <3>2, FollowsNone
    <3>4. n \in Nat /\ n <= n  BY <1>0
    <3>5. /\ FreedUpTo(freed \o ast_delete(ast), n)
          /\ RangeOf(freed \o ast_delete(ast)) =
               F \union {x \in 1 .. n : HasText(x) /\ x \notin F \union Parameters}
      <4> HIDE DEF n
      <4>1. FreedUpTo(freed, n)  BY <3>2 DEF n
      <4> QED  BY <1>0, <3>3, <3>4, <4>1, Deleting
    <3>6. \A x \in F : x \in 1 .. n /\ HasText(x)
      <4>1. F = {freed[k] : k \in 1 .. Len(freed)}  BY <3>2, RangeIs DEF FreedUpTo
      <4> QED  BY <3>2, <4>1 DEF FreedUpTo
    <3>7. \A x \in Parameters : x \notin F  BY <1>0, <3>3, AstMeant, ParametersAre
    <3>8. DOMAIN tokens = 1 .. n  BY <1>0, LenProperties DEF Input
    <3> HIDE DEF F, n
    <3>9. F \union {x \in 1 .. n : HasText(x) /\ x \notin F \union Parameters}
            = {k \in DOMAIN tokens : HasText(k)} \ Parameters
      BY <3>6, <3>7, <3>8
    <3>10. Parameters' = Parameters  BY <3>1 DEF Parameters
    <3> QED  BY <3>1, <3>5, <3>9, <3>10 DEF n
  <2> QED  BY <2>1, <2>2, <2>3, <2>4, <2>5, <2>6, <2>7, <2>8, <2>9, Steps
<1>5. Len(tokens)' = Len(tokens)  BY <1>1
<1>6. {k \in DOMAIN tokens : HasText(k)}' = {k \in DOMAIN tokens : HasText(k)}  BY <1>1, <1>2
<1> QED  BY <1>1, <1>3, <1>4, <1>6 DEF FreedIs

-----------------------------------------------------------------------------
(* Names.                                                                  *)
Named ==
  ~past =>
     \A k \in DOMAIN ast :
       /\ IsWord(ast[k].name, "IDENTIFIER")
       /\ \A n \in DOMAIN ast[k].args : IsWord(ast[k].args[n].name, "IDENTIFIER")

LEMMA NamesFollow ==
  ASSUME Input, NEW a, NEW c, NEW F, NEW j, Follows(a, c, F, j)
  PROVE  \A k \in DOMAIN a :
           /\ IsWord(a[k].name, "IDENTIFIER")
           /\ \A n \in DOMAIN a[k].args : IsWord(a[k].args[n].name, "IDENTIFIER")
<1> DEFINE i == EndOf(c, 0, j)
<1>1. AstCovers(a, F, i)  BY DEF Follows
<1> HIDE DEF i
<1>2. /\ \A x \in ParametersOf(a) : IsWord(x, "IDENTIFIER")
      /\ \A k \in DOMAIN a : IsWord(a[k].name, "IDENTIFIER")
  BY <1>1, AstMeant
<1>3. \A k \in DOMAIN a : \A n \in DOMAIN a[k].args : a[k].args[n].name \in ParametersOf(a)
  BY DEF ParametersOf, NamesOf
<1> QED  BY <1>2, <1>3

LEMMA NamedKept ==
  ASSUME Ranges, Ends, Legal(stack), Content, FreedIs, Named, Next
  PROVE  Named'
<1>1. UNCHANGED <<tokens, beyond>>  BY InputKept
<1>2. Content'  BY ContentKept
<1>3. \A a, c, F, j : Follows(a, c, F, j)' <=> Follows(a, c, F, j)  BY <1>1, Same
<1>4. \A k, w : IsWord(k, w)' <=> IsWord(k, w)  BY <1>1, SamePlaces
<1>5. ASSUME ~past'
      PROVE  \A k \in DOMAIN ast' :
               /\ IsWord(ast'[k].name, "IDENTIFIER")
               /\ \A n \in DOMAIN ast'[k].args : IsWord(ast'[k].args[n].name, "IDENTIFIER")
  <2>1. CASE pc' \in {"parsing", "done"}
    <3>1. \E j : Follows(ast', stack', RangeOf(freed'), j)  BY <1>2, <1>3, <1>5, <2>1 DEF Content
    <3>2. Input  BY DEF Ranges
    <3> QED  BY <3>1, <3>2, NamesFollow
  <2>2. CASE pc' \notin {"parsing", "done"}
    <3>1. ast' = <<>> \/ (ast' = ast /\ ~past)
      <4>1. CASE Advance \/ Halt \/ AppendFunction
        <5>1. Working  BY <4>1, AdvanceIs, HaltIs, RunsTakes
        <5> QED  BY <2>2, <5>1 DEF Working, Runs
      <4>2. CASE Unwind  BY <2>2, <4>2, UnwindIs
      <4>3. CASE MissingSemicolon  BY <1>5, <4>3, LastMissing
      <4>4. CASE BeginFunction  BY <2>2, <4>4, LoopIs
      <4>5. CASE NoFunction \/ Abort \/ End \/ EndBeyond \/ Crash \/ Delete
        BY <1>5, <4>5 DEF NoFunction, Abort, End, EndBeyond, Crash, Delete, Refuse
      <4> QED  BY <4>1, <4>2, <4>3, <4>4, <4>5, Steps
    <3>2. DOMAIN <<>> = {}  OBVIOUS
    <3> QED  BY <3>1, <3>2 DEF Named
  <2> QED  BY <2>1, <2>2
<1> QED  BY <1>4, <1>5 DEF Named

-----------------------------------------------------------------------------
(* What is told of what is refused.                                        *)
Excused ==
  index = 0 \/ \E w \in DOMAIN BinaryTag \union {")", "else", "=", Semicolon} : IsWord(index, w)

(* A first operand is missing where one is required.                       *)
Pending == stack # <<>> /\ Misses(0) /\ (Caller.fn = "expr" => Caller.got = <<>>)

(* A comma behind the last parameter, where the ) is still to come.        *)
CommaLeft ==
  stack # <<>> /\ Top.fn = "fn" /\ Len(Top.got) = 4 /\ index > 0 /\ IsWord(index, Comma)

AtMark  == ~past /\ AtLoop /\ ~abort => index = 0 \/ IsWord(index, Semicolon)
Stopped == ~past /\ pc = "parsing" /\ abort /\ ~errors => Excused \/ Pending
Refused == ~past /\ pc = "refused" /\ ~errors => Excused
Written == ~past /\ pc \in {"parsing", "done"} /\ ~abort /\ errors => SpareComma \/ CommaLeft

Told == AtMark /\ Stopped /\ Refused /\ Written

LEMMA SpareCommaIs ==
  ASSUME NEW k \in 1 .. Len(tokens) - 1, IsWord(k, Comma), IsWord(k + 1, ")")
  PROVE  SpareComma
BY Zenon DEF SpareComma, IsWord, Comma

(* What stands before a block is no mark that ends anything.               *)
LEMMA BeforeBlock ==
  ASSUME Ranges, Legal(stack), NoBlock, NEW F, Follows(ast, stack, F, index)
  PROVE  Excused
<1> DEFINE n == Len(Top.got)
           got == Top.got
           fn == Top.fn
<1>1. stack # <<>> /\ fn \in DOMAIN Needs /\ n < Len(Needs[fn]) /\ Needs[fn][n + 1] = "expr"
  BY NoBlockIs DEF Needing, Running, Need
<1>2. FrameCovers(Top, F, index) /\ LegalFrame(Top)  BY <1>1, TopIs, FollowsTop, LegalPop
<1>3. n \in 1 .. Len(Needs[fn])  BY <1>1, <1>2 DEF LegalFrame
<1>4. ItemsCover(Needs[fn], got, F, Top.from, index)  BY <1>1, <1>2 DEF FrameCovers
<1>5. PICK at : /\ Behind(n, at, Top.from, index)
                /\ \A k \in 1 .. n : ItemCovers(Needs[fn][k], got[k], F, at[k - 1], at[k])
  BY <1>4 DEF ItemsCover
<1>6. n \in Nat /\ n \in 1 .. n /\ n + 1 \in 1 .. Len(Needs[fn])
  <2>1. Len(Needs[fn]) \in Nat  BY <1>1, <1>3, NeedsHave
  <2> QED  BY <1>1, <1>3, <2>1
<1> HIDE DEF n, fn, got
<1>7. Needs[fn][n] \in {")", "else", "="}  BY <1>1, <1>3, <1>6, NeedsHave
<1>8. ItemCovers(Needs[fn][n], got[n], F, at[n - 1], index)
  <2>1. at[n] = index  BY <1>5 DEF Behind
  <2> QED  BY <1>5, <1>6, <2>1
<1>9. IsWord(index, Needs[fn][n])
  <2> DEFINE w == Needs[fn][n]
  <2>1. w \in NeededWords  BY <1>7 DEF NeededWords
  <2> HIDE DEF w
  <2>2. ItemCovers(w, got[n], F, at[n - 1], index)  BY <1>8 DEF w
  <2>3. IsWord(index, w)  BY <2>1, <2>2, WordItem
  <2> QED  BY <2>3 DEF w
<1> QED  BY <1>7, <1>9 DEF Excused

LEMMA BehindOperator ==
  ASSUME Ranges, Legal(stack), MissingOperand, NEW F, Follows(ast, stack, F, index)
  PROVE  Excused \/ Pending
<1>1. /\ stack # <<>> /\ Top.fn = "binary_expr" /\ Len(Top.got) # 1
      /\ Top.got = <<>> => Caller.fn # "expr"
  BY DEF MissingOperand, WantsOperand, Running
<1>2. FrameCovers(Top, F, index)  BY <1>1, TopIs, FollowsTop
<1>3. CASE Top.got = <<>>
  <2>1. Misses(0)
    <3>1. Len(Top.got) = 0  BY <1>3
    <3> QED  BY <1>1, <3>1 DEF Misses
  <2> QED  BY <1>1, <1>3, <2>1 DEF Pending
<1>4. CASE Top.got # <<>>
  <2>1. ChainCovers(Top.got, F, Top.from, index)  BY <1>1, <1>2 DEF FrameCovers
  <2>2. Top.got[2] \in DOMAIN BinaryTag /\ IsWord(index, Top.got[2])
    BY <1>1, <1>4, <2>1 DEF ChainCovers
  <2> QED  BY <2>2 DEF Excused
<1> QED  BY <1>3, <1>4

LEMMA SameWords ==
  ASSUME UNCHANGED <<tokens, beyond>>
  PROVE  /\ \A k, w : IsWord(k, w)' <=> IsWord(k, w)
         /\ SpareComma' <=> SpareComma
         /\ index' = index => (Excused' <=> Excused)
<1>1. \A k, w : IsWord(k, w)' <=> IsWord(k, w)  BY SamePlaces
<1>2. SpareComma' <=> SpareComma  BY DEF SpareComma
<1>3. ASSUME index' = index PROVE Excused' <=> Excused
  <2>1. \A k, w : (k <= Len(tokens') /\ tokens'[k].type = w) <=> (k <= Len(tokens) /\ tokens[k].type = w)
    BY DEF IsWord
  <2>2. Excused' <=> (index' = 0 \/ \E w \in DOMAIN BinaryTag \union {")", "else", "=", Semicolon} :
                                      index' <= Len(tokens') /\ tokens'[index'].type = w)
    BY DEF Excused, IsWord, BinaryTag, Semicolon
  <2>3. Excused <=> (index = 0 \/ \E w \in DOMAIN BinaryTag \union {")", "else", "=", Semicolon} :
                                      index <= Len(tokens) /\ tokens[index].type = w)
    BY DEF Excused, IsWord
  <2> QED  BY <1>3, <2>2, <2>3
<1> QED  BY <1>1, <1>2, <1>3

LEMMA SamePending ==
  ASSUME stack' = stack
  PROVE  Pending' <=> Pending
<1>1. Top' = Top /\ Below' = Below  BY DEF Top, Below
<1>2. Caller' = Caller  BY <1>1 DEF Caller
<1>3. \A n : Misses(n)' <=> Misses(n)  BY <1>1 DEF Misses
<1> QED  BY <1>2, <1>3 DEF Pending

(* A function begins where none has or behind a semicolon.                 *)
LEMMA AtMarkKept ==
  ASSUME Ranges, Ends, Legal(stack), Next, AtMark
  PROVE  AtMark'
<1>1. UNCHANGED <<tokens, beyond>>  BY InputKept
<1>2. ASSUME ~past', pc' = "parsing", stack' = <<>>, ~abort'
      PROVE  index' = 0 \/ IsWord(index', Semicolon)
  <2>1. CASE Advance \/ Halt  BY <1>2, <2>1, AdvanceIs, HaltIs
  <2>2. CASE Unwind  BY <1>2, <2>2, UnwindIs
  <2>3. CASE AppendFunction
    <3>1. Is(Semicolon) /\ Looks(1) /\ index' = index + 1  BY <2>3, AppendFunctionIs DEF Takes
    <3>2. Input /\ index \in Nat  BY Inside DEF Ranges
    <3>3. IsWord(index + 1, Semicolon)  BY <1>2, <3>1, <3>2, Reading
    <3> QED  BY <3>1, <3>3
  <2>4. CASE MissingSemicolon  BY <1>2, <2>4, LastMissing
  <2>5. CASE BeginFunction  BY <1>2, <2>5, LoopIs
  <2>6. CASE NoFunction \/ Abort \/ End \/ EndBeyond \/ Crash \/ Delete
    BY <1>2, <2>6 DEF NoFunction, Abort, End, EndBeyond, Crash, Delete, Refuse
  <2> QED  BY <2>1, <2>2, <2>3, <2>4, <2>5, <2>6, Steps
<1>3. IsWord(index, Semicolon)' <=> IsWord(index', Semicolon)  BY <1>1 DEF IsWord
<1> QED  BY <1>2, <1>3 DEF AtMark, AtLoop

(* The calls return NULL.                                                  *)
LEMMA StoppedKept ==
  ASSUME Ranges, Ends, Legal(stack), Content, Next, Stopped
  PROVE  Stopped'
<1>1. UNCHANGED <<tokens, beyond>>  BY InputKept
<1>2. ASSUME ~past', pc' = "parsing", abort', ~errors'
      PROVE  Excused' \/ Pending'
  <2>1. CASE Advance
    <3>1. Working /\ abort' = abort  BY <2>1, AdvanceIs
    <3> QED  BY <1>2, <3>1 DEF Working, Runs
  <2>2. CASE Halt
    <3>1. /\ Working /\ stack' = stack /\ index' = index /\ (NoBlock \/ MissingOperand)
      BY <1>2, <2>2, HaltIs
    <3>2. ~past /\ pc = "parsing" /\ ~abort  BY <1>2, <3>1, WorkingMoves
    <3>3. Follows(ast, stack, RangeOf(freed), index)  BY <3>2 DEF Content
    <3>4. Excused \/ Pending  BY <3>1, <3>3, BeforeBlock, BehindOperator
    <3> QED  BY <1>1, <3>1, <3>4, SameWords, SamePending
  <2>3. CASE Unwind
    <3>1. /\ UNCHANGED <<index, abort, past>> /\ pc = "parsing" /\ abort /\ stack # <<>>
          /\ errors' <=> errors \/ (Misses(0) /\ (Caller.fn = "expr" => Caller.got = <<>>))
      BY <2>3, UnwindIs
    <3>2. ~errors /\ ~Pending  BY <1>2, <3>1, Zenon DEF Pending
    <3>3. Excused  BY <1>2, <3>1, <3>2 DEF Stopped
    <3> QED  BY <1>1, <3>1, <3>3, SameWords
  <2>4. CASE AppendFunction
    <3>1. Working /\ abort' = abort  BY <2>4, RunsTakes, GoesFlags
    <3> QED  BY <1>2, <3>1 DEF Working, Runs
  <2>5. CASE MissingSemicolon  BY <1>2, <2>5, LastMissing
  <2>6. CASE BeginFunction  BY <1>2, <2>6, LoopIs
  <2>7. CASE NoFunction \/ Abort \/ End \/ EndBeyond \/ Crash \/ Delete
    BY <1>2, <2>7 DEF NoFunction, Abort, End, EndBeyond, Crash, Delete, Refuse
  <2> QED  BY <2>1, <2>2, <2>3, <2>4, <2>5, <2>6, <2>7, Steps
<1> QED  BY <1>2 DEF Stopped

(* parse returns NULL.                                                     *)
LEMMA RefusedKept ==
  ASSUME Ranges, Ends, Legal(stack), Next, AtMark, Stopped, Refused
  PROVE  Refused'
<1>1. UNCHANGED <<tokens, beyond>>  BY InputKept
<1>2. ASSUME ~past', pc' = "refused", ~errors'
      PROVE  Excused'
  <2>1. CASE Advance \/ Halt \/ AppendFunction
    <3>1. Working  BY <2>1, AdvanceIs, HaltIs, RunsTakes
    <3> QED  BY <1>2, <3>1 DEF Working, Runs
  <2>2. CASE Unwind  BY <1>2, <2>2, UnwindIs
  <2>3. CASE MissingSemicolon  BY <1>2, <2>3, LastMissing
  <2>4. CASE BeginFunction  BY <1>2, <2>4, LoopIs
  <2>5. CASE NoFunction
    <3>1. UNCHANGED <<past, errors, index>> /\ pc = "parsing" /\ stack = <<>> /\ ~abort
      BY <2>5, LoopIs DEF NoFunction, Refuse
    <3>2. index = 0 \/ IsWord(index, Semicolon)  BY <1>2, <3>1 DEF AtMark, AtLoop
    <3>3. Excused  BY <3>2 DEF Excused
    <3> QED  BY <1>1, <3>1, <3>3, SameWords
  <2>6. CASE Abort
    <3>1. UNCHANGED <<past, errors, index>> /\ pc = "parsing" /\ stack = <<>> /\ abort
      BY <2>6, LoopIs DEF Abort
    <3>2. Excused  BY <1>2, <3>1 DEF Stopped, Pending
    <3> QED  BY <1>1, <3>1, <3>2, SameWords
  <2>7. CASE EndBeyond
    <3>1. past' = past /\ index > Len(tokens) /\ index \in Nat /\ Len(tokens) \in Nat
      BY <2>7, LoopIs, Inside
    <3>2. index <= Len(tokens)  BY <1>2, <3>1 DEF Ends
    <3> QED  BY <3>1, <3>2
  <2>8. CASE End \/ Crash \/ Delete  BY <1>2, <2>8 DEF End, Crash, Delete
  <2> QED  BY <2>1, <2>2, <2>3, <2>4, <2>5, <2>6, <2>7, <2>8, Steps
<1> QED  BY <1>2 DEF Refused

(* The parameters are over, and the last thing taken is a comma.           *)
LEMMA BehindComma ==
  ASSUME Ranges, NEW F, Following(F), NoArg, Top.got # <<>>
  PROVE  CommaLeft'
<1>1. /\ stack # <<>> /\ Top.fn = "args"
      /\ stack' = Given(Below, Top.got) /\ index' = index /\ UNCHANGED <<tokens, beyond>>
  BY DEF NoArg, Running
<1>2. Legal(stack) /\ Follows(ast, stack, F, index) /\ index \in Nat  BY DEF Following
<1>3. Below # <<>> /\ Legal(Below) /\ LegalFrame(Caller) /\ Waits(Caller, "args") /\ LegalFrame(Top)
  BY <1>1, <1>2, Positions
<1>4. Caller = Over(Below) /\ IsFrame(Caller) /\ IsSeq(Caller.got) /\ IsSeq(Top.got) /\ IsSeq(Below)
  BY <1>3 DEF Caller, Over, LegalFrame, Legal
<1>5. Caller.fn = "fn" /\ Len(Caller.got) = 3  BY <1>3, ArgsWanted
<1> DEFINE x == Top.got
           h == Frame(Caller.fn, Caller.from, Append(Caller.got, x))
           u == Under(Below)
<1>6. stack' = Append(u, h)
  <2> HIDE DEF x
  <2>1. Given(Below, x) = Append(u, h)  BY <1>3, <1>4, GivenIs
  <2> QED  BY <1>1, <2>1 DEF x
<1>7. IsSeq(u)  BY <1>3, LegalPop
<1>8. h.fn = "fn" /\ Len(h.got) = 4
  <2> DEFINE q == Caller.got
             y == Append(q, x)
  <2>1. h = Frame(Caller.fn, Caller.from, y)  OBVIOUS
  <2>2. IsSeq(q) /\ Len(q) = 3  BY <1>4, <1>5
  <2> HIDE DEF x, q, h
  <2>3. Len(y) = Len(q) + 1  BY <2>2, PushedPopped
  <2>4. Len(y) = 4  BY <2>2, <2>3
  <2> HIDE DEF y
  <2>5. h.fn = Caller.fn /\ h.got = y  BY <2>1, FrameIs
  <2> QED  BY <1>5, <2>4, <2>5
<1>9. stack' # <<>> /\ Top' = h
  <2> HIDE DEF h, u
  <2>1. stack' # <<>> /\ Over(stack') = h  BY <1>6, <1>7, PushedPopped
  <2> QED  BY <2>1 DEF Top, Over
<1>10. index > 0 /\ IsWord(index, Comma)
  <2> HIDE DEF x
  <2>1. FrameCovers(Top, F, index)  BY <1>1, <1>2, TopIs, FollowsTop
  <2>2. Commas(Len(x), Top.from) /\ index = Top.from + 4 * Len(x) /\ Top.from \in Nat
    BY <1>1, <2>1 DEF FrameCovers, x
  <2>3. Len(x) \in Nat /\ Len(x) > 0
    <3> DEFINE R == {x[k] : k \in DOMAIN x}
    <3>1. x \in Seq(R) /\ x # <<>>  BY <1>4 DEF IsSeq, x
    <3> HIDE DEF R
    <3> QED  BY <3>1, LenProperties, EmptySeq
  <2>4. Len(x) \in 1 .. Len(x)  BY <2>3
  <2>5. IsWord(Top.from + 4 * Len(x), Comma)  BY <2>2, <2>4 DEF Commas
  <2> QED  BY <2>2, <2>3, <2>5
<1> HIDE DEF h
<1>11. IsWord(index, Comma)' <=> IsWord(index', Comma)  BY <1>1 DEF IsWord
<1> QED  BY <1>1, <1>8, <1>9, <1>10, <1>11 DEF CommaLeft

(* The ) stands behind the comma, or nothing goes on.                      *)
LEMMA CommaClosed ==
  ASSUME Ranges, Legal(stack), CommaLeft, ~past', Advance \/ AppendFunction
  PROVE  SpareComma
<1>1. /\ stack # <<>> /\ Top.fn = "fn" /\ Len(Top.got) = 4 /\ index > 0 /\ IsWord(index, Comma)
  BY DEF CommaLeft
<1>2. Len(Needs["fn"]) = 8 /\ Needs["fn"][5] = ")"  BY NeedsAre, NeedsLen
<1>3. Need = ")"  BY <1>1, <1>2 DEF Need
<1>4. Take
  <2>1. ~(CallFunction \/ BeginBlock)  BY <1>3, BeginBlockIs DEF CallFunction
  <2>2. ~(Statement \/ BeginArg \/ NoArg)  BY <1>1 DEF Statement, BeginArg, NoArg
  <2>3. ~(CharLiteral \/ Number \/ HexNumber \/ BeginAlternative)
    BY <1>1 DEF CharLiteral, Number, HexNumber, BeginAlternative, WantsOperand
  <2>4. ~(Operator \/ EndOfExpression \/ EndOfStatement)
    BY <1>1, EndOfStatementIs DEF Operator, EndOfExpression, IsWhole, HasOperand
  <2>5. ~EndOfBlock  BY <1>1, EndOfBlockIs DEF NoStatement, WantsOperand
  <2>6. ~(NextArg \/ LastArg)  BY <1>1, NextArgIs, LastArgIs
  <2>7. ~(GoOn \/ EndOfAlternative \/ AppendFunction)
    BY <1>1, <1>2, AppendFunctionIs DEF GoOn, GoesOn, EndOfAlternative, Complete
  <2> QED  BY <2>1, <2>2, <2>3, <2>4, <2>5, <2>6, <2>7 DEF Advance
<1>5. Is(")") /\ Looks(1)  BY <1>3, <1>4 DEF Take, Fits
<1>6. Input /\ index \in Nat /\ Len(tokens) \in Nat  BY Inside DEF Ranges
<1>7. IsWord(index + 1, ")") /\ index + 1 <= Len(tokens)  BY <1>5, <1>6, Reading
<1>8. index \in 1 .. Len(tokens) - 1  BY <1>1, <1>6, <1>7
<1> QED  BY <1>1, <1>7, <1>8, SpareCommaIs

LEMMA WrittenKept ==
  ASSUME Ranges, Ends, Legal(stack), Content, FreedIs, Next, Written
  PROVE  Written'
<1>1. UNCHANGED <<tokens, beyond>>  BY InputKept
<1>2. ASSUME ~past', pc' \in {"parsing", "done"}, ~abort', errors'
      PROVE  SpareComma \/ CommaLeft'
  <2>1. CASE Advance \/ AppendFunction
    <3>1. Working /\ abort' = abort  BY <2>1, AdvanceIs, RunsTakes, GoesFlags
    <3>2. ~past /\ ~abort /\ pc = "parsing"  BY <1>2, <3>1, WorkingMoves
    <3>3. CASE errors
      <4>1. SpareComma \/ CommaLeft  BY <3>2, <3>3 DEF Written
      <4> QED  BY <1>2, <2>1, <4>1, CommaClosed
    <3>4. CASE ~errors
      <4>1. NoArg  BY <1>2, <2>1, <3>4, GoesFlags DEF Advance
      <4>2. Top.got # <<>>  BY <1>2, <3>4, <4>1, NoArgFlags, ZenonT(30)
      <4>3. Following(RangeOf(freed))  BY <3>2, FollowingNow
      <4> QED  BY <4>1, <4>2, <4>3, BehindComma
    <3> QED  BY <3>3, <3>4
  <2>2. CASE Halt  BY <1>2, <2>2, HaltIs
  <2>3. CASE Unwind  BY <1>2, <2>3, UnwindIs
  <2>4. CASE MissingSemicolon  BY <1>2, <2>4, LastMissing
  <2>5. CASE BeginFunction \/ End
    <3>1. UNCHANGED <<past, errors, abort>> /\ pc = "parsing" /\ stack = <<>>
      BY <2>5, LoopIs
    <3>2. SpareComma \/ CommaLeft  BY <1>2, <3>1 DEF Written
    <3> QED  BY <3>1, <3>2 DEF CommaLeft
  <2>6. CASE NoFunction \/ Abort \/ EndBeyond \/ Crash \/ Delete
    BY <1>2, <2>6 DEF NoFunction, Abort, EndBeyond, Crash, Delete, Refuse
  <2> QED  BY <2>1, <2>2, <2>3, <2>4, <2>5, <2>6, Steps
<1>3. SpareComma' <=> SpareComma  BY <1>1, SameWords
<1> QED  BY <1>2, <1>3 DEF Written

LEMMA ToldKept ==
  ASSUME Ranges, Ends, Legal(stack), Content, FreedIs, Next, Told
  PROVE  Told'
BY AtMarkKept, StoppedKept, RefusedKept, WrittenKept DEF Told

-----------------------------------------------------------------------------
(* The inductive invariant.                                                *)
ParseInv ==
  Ranges /\ Ends /\ Legal(stack) /\ Content /\ FreedIs /\ Named /\ Told

LEMMA ParseStarts ==
  ASSUME Init
  PROVE  ParseInv
<1>1. /\ index = 0 /\ abort = FALSE /\ stack = <<>> /\ ast = <<>> /\ pc = "parsing"
      /\ past = FALSE /\ errors = FALSE /\ freed = <<>>
  BY DEF Init
<1>2. Input
  <2>1. PICK i \in Inputs : tokens = i.tokens /\ beyond = i.beyond  BY DEF Init
  <2> QED  BY <2>1, InputsAssumption DEF Input
<1>3. Size \in Nat /\ Len(tokens) \in Nat  BY <1>2, TokenIs
<1>4. Ranges
  <2>1. 0 \in 0 .. Size  BY <1>3
  <2> QED  BY <1>1, <1>2, <2>1 DEF Ranges
<1>5. Ends
  <2>1. 0 <= Len(tokens)  BY <1>3
  <2> QED  BY <1>1, <2>1 DEF Ends, AtLoop
<1>6. Legal(stack)  BY <1>1, LegalNone
<1>7. Content
  <2>1. Follows(<<>>, <<>>, RangeOf(freed), 0)  BY AstNone, FollowsNone
  <2>2. index \in 0 .. index  BY <1>1
  <2> QED  BY <1>1, <2>1, <2>2 DEF Content
<1>8. FreedIs
  <2> DEFINE s == <<>>
  <2>1. s \in Seq(Places) /\ Len(s) = 0  BY EmptySeq
  <2>2. \A a \in 1 .. Len(s) : FALSE  BY <2>1
  <2> HIDE DEF s
  <2>3. \A j : FreedUpTo(s, j)  BY <2>1, <2>2 DEF FreedUpTo
  <2>4. freed = s  BY <1>1 DEF s
  <2> QED  BY <1>1, <2>3, <2>4 DEF FreedIs
<1>9. Named
  <2>1. DOMAIN <<>> = {}  OBVIOUS
  <2> QED  BY <1>1, <2>1 DEF Named
<1>10. Told  BY <1>1 DEF Told, AtMark, Stopped, Refused, Written
<1> QED  BY <1>4, <1>5, <1>6, <1>7, <1>8, <1>9, <1>10 DEF ParseInv

LEMMA ParseStays ==
  ASSUME ParseInv, UNCHANGED vars
  PROVE  ParseInv'
<1>1. UNCHANGED <<tokens, beyond, index, abort, stack, ast, pc, past, errors, freed>>
  BY DEF vars
<1>2. UNCHANGED <<tokens, beyond>>  BY <1>1
<1>3. Ranges'
  <2>1. Input' <=> Input  BY <1>2, SamePlaces
  <2>2. Size' = Size  BY <1>2, SamePlaces
  <2> QED  BY <1>1, <2>1, <2>2 DEF ParseInv, Ranges
<1>4. Ends'  BY <1>1 DEF ParseInv, Ends, AtLoop
<1>5. Legal(stack')  BY <1>1 DEF ParseInv
<1>6. \A a, c, F, j : Follows(a, c, F, j)' <=> Follows(a, c, F, j)  BY <1>2, Same
<1>7. Content'  BY <1>1, <1>6 DEF ParseInv, Content
<1>8. FreedIs'
  <2>1. \A k : HasText(k)' <=> HasText(k)  BY <1>2, SamePlaces
  <2>2. \A s, j : FreedUpTo(s, j)' <=> FreedUpTo(s, j)  BY <2>1 DEF FreedUpTo
  <2>3. {k \in DOMAIN tokens : HasText(k)}' = {k \in DOMAIN tokens : HasText(k)}  BY <1>1, <2>1
  <2>4. Parameters' = Parameters  BY <1>1 DEF Parameters
  <2> QED  BY <1>1, <2>2, <2>3, <2>4 DEF ParseInv, FreedIs
<1>9. \A k, w : IsWord(k, w)' <=> IsWord(k, w)  BY <1>2, SameWords
<1>10. Named'  BY <1>1, <1>9 DEF ParseInv, Named
<1>11. /\ SpareComma' <=> SpareComma
       /\ Excused' <=> Excused
       /\ Pending' <=> Pending
  BY <1>1, SameWords, SamePending
<1>12. CommaLeft' <=> CommaLeft
  <2>1. Top' = Top  BY <1>1 DEF Top
  <2>2. IsWord(index, Comma)' <=> IsWord(index', Comma)  BY <1>1 DEF IsWord
  <2>3. IsWord(index', Comma) <=> IsWord(index, Comma)  BY <1>1
  <2> QED  BY <1>1, <2>1, <2>2, <2>3 DEF CommaLeft
<1>13. IsWord(index, Semicolon)' <=> IsWord(index, Semicolon)
  <2>1. IsWord(index, Semicolon)' <=> IsWord(index', Semicolon)  BY <1>1 DEF IsWord
  <2> QED  BY <1>1, <2>1
<1>14. Told'
  <2>1. AtMark'  BY <1>1, <1>13 DEF ParseInv, Told, AtMark, AtLoop
  <2>2. Stopped'  BY <1>1, <1>11 DEF ParseInv, Told, Stopped
  <2>3. Refused'  BY <1>1, <1>11 DEF ParseInv, Told, Refused
  <2>4. Written'  BY <1>1, <1>11, <1>12 DEF ParseInv, Told, Written
  <2> QED  BY <2>1, <2>2, <2>3, <2>4 DEF Told
<1>15. Legal(stack)'  BY <1>5 DEF Legal
<1> QED  BY <1>3, <1>4, <1>7, <1>8, <1>10, <1>14, <1>15 DEF ParseInv

LEMMA ParseKept == ParseInv /\ [Next]_vars => ParseInv'
<1> SUFFICES ASSUME ParseInv, [Next]_vars PROVE ParseInv'
  OBVIOUS
<1>1. CASE Next
  <2>1. Ranges /\ Ends /\ Legal(stack) /\ Content /\ FreedIs /\ Named /\ Told  BY DEF ParseInv
  <2>2. Ranges' /\ Ends'  BY <1>1, <2>1, RangesKept, EndsKept
  <2>3. Legal(stack')  BY <1>1, <2>1, LegalKept
  <2>4. Content' /\ FreedIs'  BY <1>1, <2>1, ContentKept, FreedKept
  <2>5. Named' /\ Told'  BY <1>1, <2>1, NamedKept, ToldKept
  <2>6. Legal(stack)'  BY <2>3 DEF Legal
  <2> QED  BY <2>2, <2>4, <2>5, <2>6 DEF ParseInv
<1>2. CASE UNCHANGED vars  BY <1>2, ParseStays
<1> QED  BY <1>1, <1>2

(* What the invariant shows of the tree that is parsed.                    *)
LEMMA TreeStands ==
  ASSUME ParseInv, ~past, pc \in {"parsing", "done"}
  PROVE  \E i \in Nat : i <= Len(tokens) /\ AstCovers(ast, RangeOf(freed), i)
                        /\ (pc = "done" => i = Len(tokens))
<1>1. Ranges /\ Ends /\ Content /\ Legal(stack)  BY DEF ParseInv
<1>2. PICK j \in 0 .. index : (~abort => j = index) /\ Follows(ast, stack, RangeOf(freed), j)
  BY <1>1 DEF Content
<1> DEFINE F == RangeOf(freed)
           i == EndOf(stack, 0, j)
<1>3. AstCovers(ast, F, i)  BY <1>2 DEF Follows
<1>4. Len(tokens) \in Nat /\ index \in Nat /\ index <= Len(tokens) /\ Input
  BY <1>1, Inside DEF Ends, Ranges
<1>5. pc = "done" => i = Len(tokens)
  <2> SUFFICES ASSUME pc = "done" PROVE i = Len(tokens)
    OBVIOUS
  <2>1. stack = <<>> /\ index = Len(tokens) /\ ~abort  BY <1>1 DEF Ends
  <2>2. Len(stack) = 0  BY <2>1, NoneIsSeq
  <2> QED  BY <1>2, <2>1, <2>2 DEF EndOf
<1> HIDE DEF i, F
<1>6. i \in Nat /\ i <= Len(tokens)
  <2>1. Covers(ast_delete(ast), fprintf_ast(ast), F \union ParametersOf(ast), 0, i)
    BY <1>3, <1>4, AstMeant
  <2> QED  BY <2>1 DEF Covers
<1> QED  BY <1>3, <1>5, <1>6 DEF F

LEMMA TypesShown ==
  ASSUME ParseInv
  PROVE  TypeOK
<1>1. Ranges /\ Legal(stack) /\ Named  BY DEF ParseInv
<1>2. \A k \in DOMAIN stack :
        /\ stack[k].fn \in Fields
        /\ IF k = 1 THEN stack[k].fn = "fn" ELSE Waits(stack[k - 1], stack[k].fn)
  <2>1. DOMAIN stack = 1 .. Len(stack)  BY <1>1, LenProperties DEF Legal, IsSeq
  <2> QED  BY <1>1, <2>1 DEF Legal, LegalFrame
<1>3. ~past =>
       \A k \in DOMAIN ast :
         /\ tokens[ast[k].name].type = "IDENTIFIER"
         /\ \A n \in DOMAIN ast[k].args : tokens[ast[k].args[n].name].type = "IDENTIFIER"
  BY <1>1 DEF Named, IsWord
<1> QED  BY <1>1, <1>2, <1>3 DEF TypeOK, Ranges

LEMMA FreedShown ==
  ASSUME ParseInv
  PROVE  TextsFreedOnce
<1> SUFFICES ASSUME ~past
             PROVE  /\ \A i, j \in DOMAIN freed : i # j => freed[i] # freed[j]
                    /\ pc \in {"parsing", "done"} =>
                         RangeOf(ast_delete(ast)) \intersect RangeOf(freed) = {}
                    /\ pc = "deleted" =>
                         RangeOf(freed) = {k \in DOMAIN tokens : HasText(k)} \ Parameters
  BY DEF TextsFreedOnce
<1>1. Ranges /\ FreedIs  BY DEF ParseInv
<1>2. FreedUpTo(freed, Len(tokens))  BY <1>1 DEF FreedIs
<1>3. \A i, j \in DOMAIN freed : i # j => freed[i] # freed[j]
  <2>1. DOMAIN freed = 1 .. Len(freed)  BY <1>2, RangeIs DEF FreedUpTo
  <2> QED  BY <1>2, <2>1 DEF FreedUpTo
<1>4. ASSUME pc \in {"parsing", "done"}
      PROVE  RangeOf(ast_delete(ast)) \intersect RangeOf(freed) = {}
  <2>1. PICK i \in Nat : i <= Len(tokens) /\ AstCovers(ast, RangeOf(freed), i)
    BY <1>4, TreeStands
  <2>2. Input /\ Len(tokens) \in Nat  BY <1>1, Inside DEF Ranges
  <2> QED  BY <1>2, <2>1, <2>2, Deleting
<1> QED  BY <1>1, <1>3, <1>4 DEF FreedIs

LEMMA PrintedShown ==
  ASSUME ParseInv
  PROVE  RoundTrip
<1> SUFFICES ASSUME pc = "done", ~Misread, ~SpareComma,
                    \A k \in DOMAIN tokens : tokens[k].type # "!="
             PROVE  fprintf_ast(ast) = tokens
  BY DEF RoundTrip
<1>1. Ranges /\ Ends  BY DEF ParseInv
<1>2. ~past  BY <1>1 DEF Ends
<1>3. Input /\ Len(tokens) \in Nat  BY <1>1, Inside DEF Ranges
<1> DEFINE n == Len(tokens)
           p == fprintf_ast(ast)
<1>4. AstCovers(ast, RangeOf(freed), n)  BY <1>2, TreeStands
<1>5. Faithful  BY DEF Faithful
<1>6. Reads(p, 0, n)
  <2>1. Covers(ast_delete(ast), p, RangeOf(freed) \union ParametersOf(ast), 0, n)
    BY <1>3, <1>4, AstMeant
  <2> QED  BY <1>5, <2>1 DEF Covers
<1> HIDE DEF p
<1>7. p \in Seq(Token) /\ Len(p) = n - 0 /\ \A a \in 1 .. Len(p) : p[a] = tokens[0 + a]
  BY <1>6 DEF Reads
<1>8. tokens \in Seq(Token)  BY <1>3 DEF Input
<1>9. Len(p) = Len(tokens) /\ \A a \in 1 .. Len(p) : p[a] = tokens[a]
  <2>1. n - 0 = n /\ \A a \in 1 .. n : 0 + a = a  BY <1>3
  <2> QED  BY <1>7, <2>1
<1>10. p = tokens  BY <1>7, <1>8, <1>9, SeqEqual
<1> QED  BY <1>10 DEF p

LEMMA ErrorsShown ==
  ASSUME ParseInv
  PROVE  ErrorsExplain
<1>1. Told /\ Ends  BY DEF ParseInv
<1>2. ASSUME pc = "refused", ~past, ~errors
      PROVE  \/ index = 0
             \/ tokens[index].type \in DOMAIN BinaryTag \union {")", "else", "=", ";"}
  <2>1. Excused  BY <1>1, <1>2 DEF Told, Refused
  <2>2. CASE index = 0  BY <2>2
  <2>3. CASE \E w \in DOMAIN BinaryTag \union {")", "else", "=", Semicolon} : IsWord(index, w)
    <3>1. PICK w \in DOMAIN BinaryTag \union {")", "else", "=", Semicolon} : IsWord(index, w)
      BY <2>3
    <3>2. tokens[index].type = w  BY <3>1 DEF IsWord
    <3>3. tokens[index].type \in DOMAIN BinaryTag \union {")", "else", "=", Semicolon}
      BY <3>1, <3>2
    <3> QED  BY <3>3, Zenon DEF Semicolon
  <2> QED  BY <2>1, <2>2, <2>3 DEF Excused
<1>3. ASSUME pc = "done", errors
      PROVE  SpareComma
  <2>1. ~past /\ ~abort /\ stack = <<>>  BY <1>1, <1>3 DEF Ends
  <2>2. SpareComma \/ CommaLeft  BY <1>1, <1>3, <2>1 DEF Told, Written
  <2> QED  BY <2>1, <2>2 DEF CommaLeft
<1> QED  BY <1>2, <1>3, Zenon DEF ErrorsExplain

-----------------------------------------------------------------------------
(* Whatever the program and whatever the memory holds behind it, the       *)
(* parser is never further than the memory, a call waits for the one above *)
(* it, and a name or a parameter of the tree is the place of an identifier. *)
THEOREM ParseTypeCorrect == Spec => []TypeOK
<1>1. Init => ParseInv  BY ParseStarts
<1>2. ParseInv => TypeOK  BY TypesShown
<1> QED  BY <1>1, <1>2, ParseKept, PTL DEF Spec

(* As long as no token past the last one is read, no text is freed twice,  *)
(* by the parser on its way or with the tree, and none the tree still      *)
(* points to; and the texts left when the tree is deleted are those of the *)
(* parameters, which nobody frees.                                         *)
THEOREM ParseTextsFreedOnce == Spec => []TextsFreedOnce
<1>1. Init => ParseInv  BY ParseStarts
<1>2. ParseInv => TextsFreedOnce  BY FreedShown
<1> QED  BY <1>1, <1>2, ParseKept, PTL DEF Spec

(* The tree of an accepted program is printed as the program, except where *)
(* the parser misreads a number, skips a comma or takes != for ==.         *)
THEOREM ParseRoundTrip == Spec => []RoundTrip
<1>1. Init => ParseInv  BY ParseStarts
<1>2. ParseInv => RoundTrip  BY PrintedShown
<1> QED  BY <1>1, <1>2, ParseKept, PTL DEF Spec

(* A program is refused with an error, or where an operand, a block or a   *)
(* function is missing; and accepted without one, or with a comma behind   *)
(* its last parameter.                                                     *)
THEOREM ParseErrorsExplain == Spec => []ErrorsExplain
<1>1. Init => ParseInv  BY ParseStarts
<1>2. ParseInv => ErrorsExplain  BY ErrorsShown
<1> QED  BY <1>1, <1>2, ParseKept, PTL DEF Spec

(* A program is accepted only where its tokens end, with none taken and    *)
(* none read from what lies behind them.                                   *)
THEOREM ParseEndsInside == Spec => [](pc = "done" => ~past /\ index = Len(tokens) /\ stack = <<>>)
<1>1. Init => ParseInv  BY ParseStarts
<1>2. ParseInv => (pc = "done" => ~past /\ index = Len(tokens) /\ stack = <<>>)
  BY DEF ParseInv, Ends
<1> QED  BY <1>1, <1>2, ParseKept, PTL DEF Spec
=============================================================================
