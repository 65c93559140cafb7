-------------------------- MODULE CompileRun_proofs -------------------------
(***************************************************************************)
(* Proofs that a compiled body, run by the machine, does what the body     *)
(* means, for every set of expression trees.                               *)
(*                                                                         *)
(* First, that the recursive functions of HareSem are what their           *)
(* definitions say.  Then, for every case of compile_expr, what the cells  *)
(* it returns do on the machine when those of the parts do what they       *)
(* should.  Last, the invariants of the compiler and of the machine.       *)
(***************************************************************************)
EXTENDS CompileRun, CodeGen_proofs

-----------------------------------------------------------------------------
(* The parts of an expression are expressions, and less deep.              *)
PartOf(x, e) == x \in Expressions /\ Depth[x] < Depth[e]

LEMMA ExpressionParts ==
  ASSUME NEW e \in Expressions
  PROVE  /\ SubExprs(e) \in Seq(Expressions)
         /\ \A k \in 1 .. Len(SubExprs(e)) : PartOf(SubExprs(e)[k], e)
<1>1. SubExprs(e) \in Seq(Expressions)
  BY TreesAssumption DEF TreesAssumption
<1>2. \A k \in DOMAIN SubExprs(e) : Depth[SubExprs(e)[k]] < Depth[e]
  BY TreesAssumption DEF TreesAssumption
<1> QED  BY <1>1, <1>2, LenProperties DEF PartOf

LEMMA DepthIsNat == Depth \in [Expressions -> Nat]
BY TreesAssumption DEF TreesAssumption

LEMMA BinaryParts ==
  ASSUME NEW e \in Expressions, e.tag \in BinTags
  PROVE  /\ SubExprs(e) = <<e.lhs, e.rhs>>
         /\ PartOf(e.lhs, e) /\ PartOf(e.rhs, e)
<1>1. SubExprs(e) = <<e.lhs, e.rhs>>  BY DEF SubExprs, BinTags
<1>2. Len(SubExprs(e)) = 2 /\ SubExprs(e)[1] = e.lhs /\ SubExprs(e)[2] = e.rhs
  BY <1>1
<1>3. \A k \in 1 .. Len(SubExprs(e)) : PartOf(SubExprs(e)[k], e)
  BY ExpressionParts
<1>4. PartOf(e.lhs, e) /\ PartOf(e.rhs, e)  BY <1>2, <1>3
<1> QED  BY <1>1, <1>4

LEMMA OnePart ==
  ASSUME NEW e \in Expressions, e.tag \in {"LET_E", "ASSIGN_E", "DEREF_E", "RETURN_E"}
  PROVE  SubExprs(e) = <<e.e>> /\ PartOf(e.e, e)
<1>1. SubExprs(e) = <<e.e>>  BY DEF SubExprs, BinTags
<1>2. Len(SubExprs(e)) = 1 /\ SubExprs(e)[1] = e.e  BY <1>1
<1>3. \A k \in 1 .. Len(SubExprs(e)) : PartOf(SubExprs(e)[k], e)
  BY ExpressionParts
<1>4. PartOf(e.e, e)  BY <1>2, <1>3
<1> QED  BY <1>1, <1>4

LEMMA DerefAssignParts ==
  ASSUME NEW e \in Expressions, e.tag = "DEREF_ASSIGN_E"
  PROVE  SubExprs(e) = <<e.e1, e.e2>> /\ PartOf(e.e1, e) /\ PartOf(e.e2, e)
<1>1. SubExprs(e) = <<e.e1, e.e2>>  BY DEF SubExprs, BinTags
<1>2. Len(SubExprs(e)) = 2 /\ SubExprs(e)[1] = e.e1 /\ SubExprs(e)[2] = e.e2
  BY <1>1
<1>3. \A k \in 1 .. Len(SubExprs(e)) : PartOf(SubExprs(e)[k], e)
  BY ExpressionParts
<1>4. PartOf(e.e1, e) /\ PartOf(e.e2, e)  BY <1>2, <1>3
<1> QED  BY <1>1, <1>4

LEMMA SequenceParts ==
  ASSUME NEW e \in Expressions, e.tag = "SEQUENCE_E"
  PROVE  /\ SubExprs(e) = e.list /\ e.list \in Seq(Expressions)
         /\ \A k \in 1 .. Len(e.list) : PartOf(e.list[k], e)
<1>1. SubExprs(e) = e.list  BY DEF SubExprs, BinTags
<1> QED  BY <1>1, ExpressionParts

LEMMA IfElseParts ==
  ASSUME NEW e \in Expressions, e.tag = "IF_ELSE_E"
  PROVE  /\ SubExprs(e) = <<e.cond, e.if_body>> \o e.else_body
         /\ PartOf(e.cond, e) /\ PartOf(e.if_body, e)
         /\ Len(SubExprs(e)) = 2 + Len(e.else_body)
         /\ SubExprs(e)[1] = e.cond /\ SubExprs(e)[2] = e.if_body
         /\ Len(e.else_body) \in {0, 1}
         /\ e.else_body = <<>> <=> Len(e.else_body) = 0
         /\ Len(e.else_body) = 1 =>
              SubExprs(e)[3] = e.else_body[1] /\ PartOf(e.else_body[1], e)
<1>1. SubExprs(e) = <<e.cond, e.if_body>> \o e.else_body  BY DEF SubExprs, BinTags
<1>2. e.else_body \in Seq(Expressions) /\ Len(e.else_body) <= 1
  BY TreesAssumption DEF TreesAssumption
<1>3. Len(e.else_body) \in {0, 1} /\ (e.else_body = <<>> <=> Len(e.else_body) = 0)
  <2>1. Len(e.else_body) \in Nat  BY <1>2, LenProperties
  <2>2. e.else_body = <<>> <=> Len(e.else_body) = 0  BY <1>2, EmptySeq
  <2> DEFINE n == Len(e.else_body)
  <2>3. n \in Nat /\ n <= 1  BY <1>2, <2>1
  <2> HIDE DEF n
  <2>4. n \in {0, 1}  BY <2>3
  <2> QED  BY <2>2, <2>4 DEF n
<1> DEFINE both == <<e.cond, e.if_body>>
           S == {e.cond, e.if_body} \union Expressions
<1>4. both \in Seq(S) /\ Len(both) = 2 /\ both[1] = e.cond /\ both[2] = e.if_body
  OBVIOUS
<1>5. e.else_body \in Seq(S)  BY <1>2
<1> HIDE DEF both, S
<1>6. /\ Len(both \o e.else_body) = 2 + Len(e.else_body)
      /\ \A k \in 1 .. 2 + Len(e.else_body) :
           (both \o e.else_body)[k] = IF k <= 2 THEN both[k] ELSE e.else_body[k - 2]
  <2> DEFINE l == e.else_body
  <2>1. /\ Len(both \o l) = Len(both) + Len(l)
        /\ \A k \in 1 .. Len(both) + Len(l) :
             (both \o l)[k] = IF k <= Len(both) THEN both[k] ELSE l[k - Len(both)]
    <3>1. l \in Seq(S)  BY <1>5
    <3> HIDE DEF l
    <3> QED  BY <1>4, <3>1, ConcatProperties
  <2> HIDE DEF l
  <2>2. /\ Len(both \o l) = 2 + Len(l)
        /\ \A k \in 1 .. 2 + Len(l) :
             (both \o l)[k] = IF k <= 2 THEN both[k] ELSE l[k - 2]
    BY <1>4, <2>1
  <2> QED  BY <2>2 DEF l
<1>7. /\ Len(SubExprs(e)) = 2 + Len(e.else_body)
      /\ SubExprs(e)[1] = e.cond /\ SubExprs(e)[2] = e.if_body
      /\ Len(e.else_body) = 1 => SubExprs(e)[3] = e.else_body[1]
  <2>1. SubExprs(e) = both \o e.else_body  BY <1>1 DEF both
  <2> QED  BY <1>3, <1>4, <1>6, <2>1
<1>8. \A k \in 1 .. Len(SubExprs(e)) : PartOf(SubExprs(e)[k], e)
  BY ExpressionParts
<1>9. PartOf(e.cond, e) /\ PartOf(e.if_body, e)
      /\ (Len(e.else_body) = 1 => PartOf(e.else_body[1], e))
  BY <1>3, <1>7, <1>8
<1> QED  BY <1>1, <1>3, <1>7, <1>9

-----------------------------------------------------------------------------
(* The recursive functions of HareSem exist, and obey their definitions.   *)
(* Each is the fixpoint of one step, which looks at the parts only.        *)
LEMMA Recursive ==
  ASSUME NEW V, V # {}, NEW G \in [[Expressions -> V] -> [Expressions -> V]],
         \A f, g \in [Expressions -> V], e \in Expressions :
           (\A x \in Expressions : PartOf(x, e) => f[x] = g[x]) => G[f][e] = G[g][e]
  PROVE  \E f \in [Expressions -> V] : f = G[f]
<1>1. OnlyBelow(Expressions, V, Depth, G)  BY DEF OnlyBelow, PartOf
<1>2. RecursiveStep(Expressions, V, Depth, G)
  BY <1>1, DepthIsNat DEF RecursiveStep
<1> QED  BY <1>2, RecursionExists

(* Two functions that follow the same rule from the parts up are the same.  *)
SameRule(f, h) ==
  \A e \in Expressions :
    (\A x \in Expressions : PartOf(x, e) => f[x] = h[x]) => f[e] = h[e]

LEMMA SameEverywhere ==
  ASSUME NEW f, NEW h, SameRule(f, h)
  PROVE  \A e \in Expressions : f[e] = h[e]
<1> DEFINE bad == {e \in Expressions : f[e] # h[e]}
           T == {Depth[e] : e \in bad}
<1> SUFFICES ASSUME bad # {} PROVE FALSE
  OBVIOUS
<1>1. T \subseteq Nat /\ T # {}  BY DepthIsNat
<1>2. PICK d \in T : \A y \in T : d <= y  BY <1>1, Least
<1>3. PICK e \in bad : d = Depth[e]  BY <1>2
<1>4. ASSUME NEW x \in Expressions, PartOf(x, e)
      PROVE  f[x] = h[x]
  <2>1. Depth[x] \in Nat /\ Depth[e] \in Nat /\ Depth[x] < Depth[e]
    BY <1>3, <1>4, DepthIsNat DEF PartOf
  <2> SUFFICES ASSUME x \in bad PROVE FALSE
    OBVIOUS
  <2>2. Depth[x] \in T  OBVIOUS
  <2> HIDE DEF T
  <2> QED  BY <1>2, <1>3, <2>1, <2>2
<1> QED  BY <1>3, <1>4 DEF SameRule

HasValueStep(f, e) ==
  \/ e.tag \in BinTags \union {"CHAR_LITERAL_E", "VARIABLE_E", "DEREF_E"}
  \/ e.tag = "NUMBER_E" /\ e.value < 4096
  \/ e.tag = "SEQUENCE_E" /\ Len(e.list) = 1 /\ f[e.list[1]]
  \/ /\ e.tag = "IF_ELSE_E"
     /\ e.else_body # <<>>
     /\ f[e.if_body]
     /\ f[e.else_body[1]]

LEMMA HasValueObeys ==
  \A e \in Expressions : HasValue[e] = HasValueStep(HasValue, e)
<1> DEFINE G == [f \in [Expressions -> BOOLEAN] |->
                   [e \in Expressions |-> HasValueStep(f, e)]]
<1>1. G \in [[Expressions -> BOOLEAN] -> [Expressions -> BOOLEAN]]
  <2>1. ASSUME NEW f \in [Expressions -> BOOLEAN], NEW e \in Expressions
        PROVE  HasValueStep(f, e) \in BOOLEAN
    BY SMT DEF HasValueStep
  <2> QED  BY <2>1
<1>2. ASSUME NEW f, NEW g, NEW e \in Expressions,
             \A x \in Expressions : PartOf(x, e) => f[x] = g[x]
      PROVE  HasValueStep(f, e) = HasValueStep(g, e)
  <2>1. CASE e.tag = "SEQUENCE_E"
    <3>1. Len(e.list) = 1 => f[e.list[1]] = g[e.list[1]]
      BY <1>2, <2>1, SequenceParts DEF PartOf
    <3> QED  BY <2>1, <3>1 DEF HasValueStep, BinTags
  <2>2. CASE e.tag = "IF_ELSE_E"
    <3>1. /\ f[e.if_body] = g[e.if_body]
          /\ e.else_body # <<>> => f[e.else_body[1]] = g[e.else_body[1]]
      BY <1>2, <2>2, IfElseParts DEF PartOf
    <3> QED  BY <2>2, <3>1 DEF HasValueStep, BinTags
  <2> QED  BY <2>1, <2>2 DEF HasValueStep
<1>3. PICK f \in [Expressions -> BOOLEAN] : f = G[f]
  <2>1. \A f, g \in [Expressions -> BOOLEAN], e \in Expressions :
          (\A x \in Expressions : PartOf(x, e) => f[x] = g[x]) => G[f][e] = G[g][e]
    BY <1>2
  <2> HIDE DEF G
  <2> QED  BY <1>1, <2>1, Recursive
<1>4. f = [e \in Expressions |-> HasValueStep(f, e)]  BY <1>3
<1>5. HasValue = CHOOSE h : h = [e \in Expressions |-> HasValueStep(h, e)]
  BY Zenon DEF HasValue, HasValueStep
<1>6. HasValue = [e \in Expressions |-> HasValueStep(HasValue, e)]
  BY <1>4, <1>5
<1> QED  BY <1>6

-----------------------------------------------------------------------------
IsStatementStep(f, e) ==
  \/ e.tag \in {"LET_E", "ASSIGN_E", "DEREF_ASSIGN_E"}
  \/ /\ e.tag = "SEQUENCE_E"
     /\ \A k \in DOMAIN e.list : f[e.list[k]]
  \/ /\ e.tag = "IF_ELSE_E"
     /\ f[e.if_body]
     /\ e.else_body # <<>> => f[e.else_body[1]]

LEMMA IsStatementObeys ==
  \A e \in Expressions : IsStatement[e] = IsStatementStep(IsStatement, e)
<1> DEFINE G == [f \in [Expressions -> BOOLEAN] |->
                   [e \in Expressions |-> IsStatementStep(f, e)]]
<1>1. G \in [[Expressions -> BOOLEAN] -> [Expressions -> BOOLEAN]]
  <2>1. ASSUME NEW f \in [Expressions -> BOOLEAN], NEW e \in Expressions
        PROVE  IsStatementStep(f, e) \in BOOLEAN
    BY SMT DEF IsStatementStep
  <2> QED  BY <2>1
<1>2. ASSUME NEW f, NEW g, NEW e \in Expressions,
             \A x \in Expressions : PartOf(x, e) => f[x] = g[x]
      PROVE  IsStatementStep(f, e) = IsStatementStep(g, e)
  <2>1. CASE e.tag = "SEQUENCE_E"
    <3>1. e.list \in Seq(Expressions) /\ DOMAIN e.list = 1 .. Len(e.list)
      BY <2>1, SequenceParts, LenProperties
    <3>2. \A k \in DOMAIN e.list : f[e.list[k]] = g[e.list[k]]
      BY <1>2, <2>1, <3>1, SequenceParts DEF PartOf
    <3> QED  BY <2>1, <3>2 DEF IsStatementStep
  <2>2. CASE e.tag = "IF_ELSE_E"
    <3>1. /\ f[e.if_body] = g[e.if_body]
          /\ e.else_body # <<>> => f[e.else_body[1]] = g[e.else_body[1]]
      BY <1>2, <2>2, IfElseParts DEF PartOf
    <3> QED  BY <2>2, <3>1 DEF IsStatementStep
  <2> QED  BY <2>1, <2>2 DEF IsStatementStep
<1>3. PICK f \in [Expressions -> BOOLEAN] : f = G[f]
  <2>1. \A f, g \in [Expressions -> BOOLEAN], e \in Expressions :
          (\A x \in Expressions : PartOf(x, e) => f[x] = g[x]) => G[f][e] = G[g][e]
    BY <1>2
  <2> HIDE DEF G
  <2> QED  BY <1>1, <2>1, Recursive
<1>4. f = [e \in Expressions |-> IsStatementStep(f, e)]  BY <1>3
<1>5. IsStatement = CHOOSE h : h = [e \in Expressions |-> IsStatementStep(h, e)]
  BY Zenon DEF IsStatement, IsStatementStep
<1>6. IsStatement = [e \in Expressions |-> IsStatementStep(IsStatement, e)]
  BY <1>4, <1>5
<1> QED  BY <1>6

(* The parts of e, by number.                                              *)
LEMMA PartNumbers ==
  ASSUME NEW e \in Expressions
  PROVE  /\ Len(SubExprs(e)) \in Nat
         /\ DOMAIN SubExprs(e) = 1 .. Len(SubExprs(e))
         /\ \A k \in 1 .. Len(SubExprs(e)) :
              SubExprs(e)[k] \in Expressions /\ PartOf(SubExprs(e)[k], e)
BY ExpressionParts, LenProperties DEF PartOf

InsideStep(f, e) ==
  {e} \union UNION {f[SubExprs(e)[k]] : k \in DOMAIN SubExprs(e)}

LEMMA InsideObeys ==
  \A e \in Expressions : Inside[e] = InsideStep(Inside, e)
<1> DEFINE V == SUBSET Expressions
           G == [f \in [Expressions -> V] |->
                   [e \in Expressions |-> InsideStep(f, e)]]
<1>1. G \in [[Expressions -> V] -> [Expressions -> V]]
  <2>1. ASSUME NEW f \in [Expressions -> V], NEW e \in Expressions
        PROVE  InsideStep(f, e) \in V
    <3>1. \A k \in DOMAIN SubExprs(e) : f[SubExprs(e)[k]] \subseteq Expressions
      BY PartNumbers
    <3> QED  BY <3>1 DEF InsideStep
  <2> QED  BY <2>1
<1>2. ASSUME NEW f, NEW g, NEW e \in Expressions,
             \A x \in Expressions : PartOf(x, e) => f[x] = g[x]
      PROVE  InsideStep(f, e) = InsideStep(g, e)
  <2>1. \A k \in DOMAIN SubExprs(e) : f[SubExprs(e)[k]] = g[SubExprs(e)[k]]
    BY <1>2, PartNumbers
  <2> QED  BY <2>1 DEF InsideStep
<1>3. PICK f \in [Expressions -> V] : f = G[f]
  <2>1. \A f, g \in [Expressions -> V], e \in Expressions :
          (\A x \in Expressions : PartOf(x, e) => f[x] = g[x]) => G[f][e] = G[g][e]
    BY <1>2
  <2>2. V # {}  OBVIOUS
  <2> HIDE DEF G, V
  <2> QED  BY <1>1, <2>1, <2>2, Recursive
<1>4. f = [e \in Expressions |-> InsideStep(f, e)]  BY <1>3
<1>5. Inside = CHOOSE h : h = [e \in Expressions |-> InsideStep(h, e)]
  BY Zenon DEF Inside, InsideStep
<1>6. Inside = [e \in Expressions |-> InsideStep(Inside, e)]
  BY <1>4, <1>5
<1> QED  BY <1>6

LetsStep(f, e) ==
  (IF e.tag = "LET_E" THEN {e.var} ELSE {})
    \union UNION {f[SubExprs(e)[k]] : k \in DOMAIN SubExprs(e)}

LEMMA LetsObeys ==
  \A e \in Expressions : Lets[e] = LetsStep(Lets, e)
<1> DEFINE V == SUBSET Variables
           G == [f \in [Expressions -> V] |->
                   [e \in Expressions |-> LetsStep(f, e)]]
<1>1. G \in [[Expressions -> V] -> [Expressions -> V]]
  <2>1. ASSUME NEW f \in [Expressions -> V], NEW e \in Expressions
        PROVE  LetsStep(f, e) \in V
    <3>1. \A k \in DOMAIN SubExprs(e) : f[SubExprs(e)[k]] \subseteq Variables
      BY PartNumbers
    <3>2. e.tag = "LET_E" => e.var \in Variables  BY DEF Variables
    <3> QED  BY <3>1, <3>2 DEF LetsStep
  <2> QED  BY <2>1
<1>2. ASSUME NEW f, NEW g, NEW e \in Expressions,
             \A x \in Expressions : PartOf(x, e) => f[x] = g[x]
      PROVE  LetsStep(f, e) = LetsStep(g, e)
  <2>1. \A k \in DOMAIN SubExprs(e) : f[SubExprs(e)[k]] = g[SubExprs(e)[k]]
    BY <1>2, PartNumbers
  <2> QED  BY <2>1 DEF LetsStep
<1>3. PICK f \in [Expressions -> V] : f = G[f]
  <2>1. \A f, g \in [Expressions -> V], e \in Expressions :
          (\A x \in Expressions : PartOf(x, e) => f[x] = g[x]) => G[f][e] = G[g][e]
    BY <1>2
  <2>2. V # {}  OBVIOUS
  <2> HIDE DEF G, V
  <2> QED  BY <1>1, <2>1, <2>2, Recursive
<1>4. f = [e \in Expressions |-> LetsStep(f, e)]  BY <1>3
<1>5. Lets = CHOOSE h : h = [e \in Expressions |-> LetsStep(h, e)]
  BY Zenon DEF Lets, LetsStep
<1>6. Lets = [e \in Expressions |-> LetsStep(Lets, e)]
  BY <1>4, <1>5
<1> QED  BY <1>6

UndeclaredStep(f, e) ==
  LET parts == SubExprs(e)
  IN  Uses(e) \union
      UNION {f[parts[k]] \ UNION {Lets[parts[j]] : j \in 1 .. k - 1} :
               k \in DOMAIN parts}

LEMMA UndeclaredObeys ==
  \A e \in Expressions : Undeclared[e] = UndeclaredStep(Undeclared, e)
<1> DEFINE V == SUBSET Variables
           G == [f \in [Expressions -> V] |->
                   [e \in Expressions |-> UndeclaredStep(f, e)]]
<1>1. G \in [[Expressions -> V] -> [Expressions -> V]]
  <2>1. ASSUME NEW f \in [Expressions -> V], NEW e \in Expressions
        PROVE  UndeclaredStep(f, e) \in V
    <3>1. \A k \in DOMAIN SubExprs(e) : f[SubExprs(e)[k]] \subseteq Variables
      BY PartNumbers
    <3>2. Uses(e) \subseteq Variables  BY DEF Uses, Variables
    <3> QED  BY <3>1, <3>2 DEF UndeclaredStep
  <2> QED  BY <2>1
<1>2. ASSUME NEW f, NEW g, NEW e \in Expressions,
             \A x \in Expressions : PartOf(x, e) => f[x] = g[x]
      PROVE  UndeclaredStep(f, e) = UndeclaredStep(g, e)
  <2>1. \A k \in DOMAIN SubExprs(e) : f[SubExprs(e)[k]] = g[SubExprs(e)[k]]
    BY <1>2, PartNumbers
  <2> QED  BY <2>1 DEF UndeclaredStep
<1>3. PICK f \in [Expressions -> V] : f = G[f]
  <2>1. \A f, g \in [Expressions -> V], e \in Expressions :
          (\A x \in Expressions : PartOf(x, e) => f[x] = g[x]) => G[f][e] = G[g][e]
    BY <1>2
  <2>2. V # {}  OBVIOUS
  <2> HIDE DEF G, V
  <2> QED  BY <1>1, <2>1, <2>2, Recursive
<1>4. f = [e \in Expressions |-> UndeclaredStep(f, e)]  BY <1>3
<1>5. Undeclared = CHOOSE h : h = [e \in Expressions |-> UndeclaredStep(h, e)]
  BY Zenon DEF Undeclared, UndeclaredStep
<1>6. Undeclared = [e \in Expressions |-> UndeclaredStep(Undeclared, e)]
  BY <1>4, <1>5
<1> QED  BY <1>6

-----------------------------------------------------------------------------
(* Sums.                                                                   *)
LEMMA TotalIs ==
  ASSUME NEW d, Len(d) \in Nat
  PROVE  \E g : Adds(d, Len(d), g) /\ Total(d) = g[Len(d)]
<1> DEFINE sum == CHOOSE g : Adds(d, Len(d), g)
<1>1. Adds(d, Len(d), sum)  BY AddsExists
<1>2. Total(d) = sum[Len(d)]  BY DEF Total, Adds
<1> QED  BY <1>1, <1>2

LEMMA Listed ==
  ASSUME NEW n \in Nat, NEW F
  PROVE  LET d == [k \in 1 .. n |-> F[k]] IN
         /\ d \in Seq({F[k] : k \in 1 .. n}) /\ Len(d) = n
         /\ \A k \in 1 .. n : d[k] = F[k]
<1> DEFINE d == [k \in 1 .. n |-> F[k]]
           S == {F[k] : k \in 1 .. n}
<1>1. d \in [1 .. n -> S]  OBVIOUS
<1>2. d \in Seq(S)  BY <1>1, SeqDef
<1>3. Len(d) = n  BY <1>1, <1>2, LenProperties
<1> QED  BY <1>2, <1>3

LEMMA AddsIsNat ==
  ASSUME NEW d, NEW n \in Nat, \A k \in 1 .. n : d[k] \in Nat,
         NEW g, Adds(d, n, g)
  PROVE  \A k \in 0 .. n : g[k] \in Nat
<1> DEFINE T == {k \in 0 .. n : g[k] \notin Nat}
<1> SUFFICES ASSUME T # {} PROVE FALSE
  OBVIOUS
<1>1. PICK k \in T : \A y \in T : k <= y
  <2>1. T \subseteq Nat  OBVIOUS
  <2> QED  BY <2>1, Least
<1>2. k \in 0 .. n /\ g[k] \notin Nat
      /\ g[k] = IF k = 0 THEN 0 ELSE g[k - 1] + d[k]
  BY <1>1 DEF Adds
<1>3. k # 0  BY <1>2
<1>4. k - 1 \in 0 .. n /\ k - 1 \notin T /\ k \in 1 .. n  BY <1>1, <1>2, <1>3
<1>5. g[k - 1] \in Nat /\ d[k] \in Nat  BY <1>4
<1> QED  BY <1>2, <1>3, <1>5

LEMMA TotalIsNat ==
  ASSUME NEW d, Len(d) \in Nat, \A k \in 1 .. Len(d) : d[k] \in Nat
  PROVE  Total(d) \in Nat
<1>1. PICK g : Adds(d, Len(d), g) /\ Total(d) = g[Len(d)]  BY TotalIs
<1> DEFINE n == Len(d)
<1>2. n \in Nat /\ Adds(d, n, g) /\ \A k \in 1 .. n : d[k] \in Nat  BY <1>1
<1> HIDE DEF n
<1>3. \A k \in 0 .. n : g[k] \in Nat  BY <1>2, AddsIsNat
<1>4. n \in 0 .. n  BY <1>2
<1> QED  BY <1>1, <1>3, <1>4 DEF n

(* The lengths of the code of the parts.                                   *)
PartLens(f, e) == [k \in 1 .. Len(SubExprs(e)) |-> f[SubExprs(e)[k]]]

LEMMA PartLensAre ==
  ASSUME NEW e \in Expressions, NEW f
  PROVE  /\ Len(PartLens(f, e)) = Len(SubExprs(e))
         /\ \A k \in 1 .. Len(SubExprs(e)) : PartLens(f, e)[k] = f[SubExprs(e)[k]]
<1> DEFINE F == [k \in 1 .. Len(SubExprs(e)) |-> f[SubExprs(e)[k]]]
           n == Len(SubExprs(e))
<1>1. n \in Nat  BY PartNumbers
<1>2. PartLens(f, e) = [k \in 1 .. n |-> F[k]]  BY DEF PartLens
<1>3. \A k \in 1 .. n : F[k] = f[SubExprs(e)[k]]  OBVIOUS
<1> HIDE DEF F, n
<1>4. /\ Len(PartLens(f, e)) = n
      /\ \A k \in 1 .. n : PartLens(f, e)[k] = F[k]
  BY <1>1, <1>2, Listed
<1> QED  BY <1>3, <1>4 DEF n

CodeLenStep(f, e) == OwnCells(e) + Total(PartLens(f, e))

LEMMA CodeLenObeys ==
  /\ CodeLen \in [Expressions -> Nat]
  /\ \A e \in Expressions : CodeLen[e] = CodeLenStep(CodeLen, e)
<1> DEFINE G == [f \in [Expressions -> Nat] |->
                   [e \in Expressions |-> CodeLenStep(f, e)]]
<1>1. G \in [[Expressions -> Nat] -> [Expressions -> Nat]]
  <2>1. ASSUME NEW f \in [Expressions -> Nat], NEW e \in Expressions
        PROVE  CodeLenStep(f, e) \in Nat
    <3>1. \A k \in 1 .. Len(SubExprs(e)) : f[SubExprs(e)[k]] \in Nat
      BY PartNumbers
    <3>2. Len(SubExprs(e)) \in Nat  BY PartNumbers
    <3>3. Total(PartLens(f, e)) \in Nat  BY <3>1, <3>2, PartLensAre, TotalIsNat
    <3>4. OwnCells(e) \in Nat  BY DEF OwnCells
    <3> QED  BY <3>3, <3>4 DEF CodeLenStep
  <2> QED  BY <2>1
<1>2. ASSUME NEW f, NEW g, NEW e \in Expressions,
             \A x \in Expressions : PartOf(x, e) => f[x] = g[x]
      PROVE  CodeLenStep(f, e) = CodeLenStep(g, e)
  <2>1. \A k \in 1 .. Len(SubExprs(e)) : f[SubExprs(e)[k]] = g[SubExprs(e)[k]]
    BY <1>2, PartNumbers
  <2>2. PartLens(f, e) = PartLens(g, e)  BY <2>1 DEF PartLens
  <2> QED  BY <2>2 DEF CodeLenStep
<1>3. PICK f \in [Expressions -> Nat] : f = G[f]
  <2>1. \A f, g \in [Expressions -> Nat], e \in Expressions :
          (\A x \in Expressions : PartOf(x, e) => f[x] = g[x]) => G[f][e] = G[g][e]
    BY <1>2
  <2>2. Nat # {}  OBVIOUS
  <2> HIDE DEF G
  <2> QED  BY <1>1, <2>1, <2>2, Recursive
<1>4. f = [e \in Expressions |-> CodeLenStep(f, e)]  BY <1>3
<1>5. CodeLen = CHOOSE h : h = [e \in Expressions |-> CodeLenStep(h, e)]
  BY Zenon DEF CodeLen, CodeLenStep, PartLens
<1>6. CodeLen = [e \in Expressions |-> CodeLenStep(CodeLen, e)]
  BY <1>4, <1>5
<1>7. \A e \in Expressions : f[e] = CodeLen[e]
  <2>1. SameRule(f, CodeLen)
    <3> SUFFICES ASSUME NEW e \in Expressions,
                        \A x \in Expressions : PartOf(x, e) => f[x] = CodeLen[x]
                 PROVE  f[e] = CodeLen[e]
      BY DEF SameRule
    <3>1. CodeLenStep(f, e) = CodeLenStep(CodeLen, e)  BY <1>2
    <3> QED  BY <1>4, <1>6, <3>1
  <2> QED  BY <2>1, SameEverywhere
<1>8. CodeLen \in [Expressions -> Nat]
  <2>1. \A e \in Expressions : CodeLen[e] \in Nat  BY <1>3, <1>7
  <2> QED  BY <1>6, <2>1
<1> QED  BY <1>6, <1>8

-----------------------------------------------------------------------------
(* What an expression does to a state of the language.                     *)
LEMMA ValueSet ==
  ASSUME NEW s \in States, NEW v \in Values
  PROVE  LET t == [s EXCEPT !.val = v] IN
         t \in States /\ t.env = s.env /\ t.out = s.out /\ t.val = v
BY DEF States

LEMMA Stored ==
  ASSUME NEW s \in States, NEW n \in Variables, NEW v \in Values
  PROVE  LET t == Store(s, n, v) IN
         /\ t \in States /\ t.out = s.out
         /\ t.env = [s.env EXCEPT ![n] = v]
<1> NoValue \in Values  BY DEF Values, NoValue
<1> QED  BY DEF States, Store

LEMMA Sent ==
  ASSUME NEW s \in States, NEW d \in Values, NEW v \in Values
  PROVE  LET t == [s EXCEPT !.out = Append(@, <<d, v>>), !.val = NoValue] IN
         /\ t \in States /\ t.env = s.env
         /\ t.out = Append(s.out, <<d, v>>)
<1> DEFINE o == Append(s.out, <<d, v>>)
<1>1. NoValue \in Values  BY DEF Values, NoValue
<1>2. o \in Seq(Values \X Values)
  <2>1. s.out \in Seq(Values \X Values) /\ <<d, v>> \in Values \X Values
    BY DEF States
  <2> QED  BY <2>1
<1> HIDE DEF o
<1>3. LET t == [s EXCEPT !.out = o, !.val = NoValue] IN
      t \in States /\ t.env = s.env /\ t.out = o
  BY <1>1, <1>2 DEF States
<1> QED  BY <1>3 DEF o

LEMMA OperateIsValue ==
  ASSUME NEW tag \in BinTags, NEW l \in Values, NEW r \in Values
  PROVE  Operate(tag, l, r) \in Values
<1> USE DEF Values, NoValue
<1>1. ASSUME NEW n \in Int PROVE n % 256 \in Values
  OBVIOUS
<1>2. l + r \in Int /\ l - r \in Int /\ l * r \in Int
  OBVIOUS
<1>3. CASE tag = "ADD_E"  BY <1>1, <1>2, <1>3 DEF Operate
<1>4. CASE tag = "SUB_E"  BY <1>1, <1>2, <1>4 DEF Operate
<1>5. CASE tag = "MULT_E"
  <2>1. Operate(tag, l, r) = (l * r) % 256  BY <1>5 DEF Operate
  <2> DEFINE n == l * r
  <2>2. n \in Int  BY <1>2
  <2> HIDE DEF n
  <2>3. n % 256 \in Values  BY <2>2
  <2> QED  BY <2>1, <2>3 DEF n
<1>6. CASE tag = "DIV_E"
  <2>1. r > 0 => l \div r \in -1 .. 255
    <3> SUFFICES ASSUME r > 0 PROVE l \div r \in -1 .. 255
      OBVIOUS
    <3> DEFINE q == l \div r
               m == l % r
    <3>1. l = r * q + m /\ m \in 0 .. r - 1 /\ q \in Int
      OBVIOUS
    <3> HIDE DEF q, m
    <3>2. q >= -1
      <4> SUFFICES ASSUME q <= -2 PROVE FALSE
        BY <3>1
      <4>1. r * q <= r * (-2)  BY <3>1
      <4> QED  BY <3>1, <4>1
    <3>3. q <= 255
      <4> SUFFICES ASSUME q >= 256 PROVE FALSE
        BY <3>1
      <4>1. r * q >= r * 256  BY <3>1
      <4> QED  BY <3>1, <4>1
    <3> QED  BY <3>1, <3>2, <3>3 DEF q
  <2> QED  BY <1>6, <2>1 DEF Operate
<1>7. CASE tag \notin {"ADD_E", "SUB_E", "MULT_E", "DIV_E"}
  BY <1>7 DEF Operate, Truth, BinTags
<1> QED  BY <1>3, <1>4, <1>5, <1>6, <1>7

(* A sequence of functions, applied one behind the other.                  *)
Folds(steps, s, n, g) ==
  g = [k \in 0 .. n |-> IF k = 0 THEN s ELSE steps[k][g[k - 1]]]

LEMMA FoldsExists ==
  ASSUME NEW steps, NEW s, NEW n \in Nat
  PROVE  \E g : Folds(steps, s, n, g)
<1> DEFINE T == {m \in Nat : ~\E g : Folds(steps, s, m, g)}
<1> SUFFICES ASSUME T # {} PROVE FALSE
  OBVIOUS
<1>1. PICK m \in T : \A y \in T : m <= y  BY Least
<1>2. m # 0
  <2>1. Folds(steps, s, 0, [k \in 0 .. 0 |-> s])  BY DEF Folds
  <2> QED  BY <1>1, <2>1
<1>3. m - 1 \in Nat /\ m - 1 \notin T  BY <1>1, <1>2
<1>4. PICK g : Folds(steps, s, m - 1, g)  BY <1>3
<1> DEFINE h == [k \in 0 .. m |-> IF k = m THEN steps[m][g[m - 1]] ELSE g[k]]
<1>5. ASSUME NEW k \in 0 .. m
      PROVE  h[k] = IF k = 0 THEN s ELSE steps[k][h[k - 1]]
  <2>1. CASE k = m  BY <1>2, <1>3, <2>1
  <2>2. CASE k # m
    <3>1. k \in 0 .. m - 1 /\ (k # 0 => k - 1 \in 0 .. m - 1)  BY <1>3, <2>2
    <3>2. g[k] = IF k = 0 THEN s ELSE steps[k][g[k - 1]]
      BY <1>4, <3>1 DEF Folds
    <3> QED  BY <2>2, <3>1, <3>2
  <2> QED  BY <2>1, <2>2
<1>6. Folds(steps, s, m, h)  BY <1>5 DEF Folds
<1> QED  BY <1>1, <1>6

LEMMA InTurnIs ==
  ASSUME NEW steps, Len(steps) \in Nat, NEW s
  PROVE  \E g : Folds(steps, s, Len(steps), g) /\ InTurn(steps, s) = g[Len(steps)]
<1> DEFINE upTo == CHOOSE g : Folds(steps, s, Len(steps), g)
<1>1. Folds(steps, s, Len(steps), upTo)  BY FoldsExists
<1>2. InTurn(steps, s) = upTo[Len(steps)]  BY DEF InTurn, Folds
<1> QED  BY <1>1, <1>2

LEMMA FoldsIsState ==
  ASSUME NEW steps, NEW n \in Nat, NEW s \in States,
         \A k \in 1 .. n : steps[k] \in [States -> States],
         NEW g, Folds(steps, s, n, g)
  PROVE  \A k \in 0 .. n : g[k] \in States
<1> DEFINE T == {k \in 0 .. n : g[k] \notin States}
<1> SUFFICES ASSUME T # {} PROVE FALSE
  OBVIOUS
<1>1. PICK k \in T : \A y \in T : k <= y
  <2>1. T \subseteq Nat  OBVIOUS
  <2> QED  BY <2>1, Least
<1>2. k \in 0 .. n /\ g[k] \notin States
      /\ g[k] = IF k = 0 THEN s ELSE steps[k][g[k - 1]]
  BY <1>1 DEF Folds
<1>3. k # 0  BY <1>2
<1>4. k - 1 \in 0 .. n /\ k - 1 \notin T /\ k \in 1 .. n  BY <1>1, <1>2, <1>3
<1>5. g[k - 1] \in States /\ steps[k] \in [States -> States]  BY <1>4
<1> QED  BY <1>2, <1>3, <1>5

(* What the parts of a sequence do.                                        *)
Steps(do, e) == [k \in 1 .. Len(e.list) |-> do[e.list[k]]]

LEMMA StepsAre ==
  ASSUME NEW e \in Expressions, e.tag = "SEQUENCE_E", NEW do
  PROVE  /\ Len(Steps(do, e)) = Len(e.list) /\ Len(e.list) \in Nat
         /\ \A k \in 1 .. Len(e.list) : Steps(do, e)[k] = do[e.list[k]]
<1> DEFINE F == [k \in 1 .. Len(e.list) |-> do[e.list[k]]]
           n == Len(e.list)
<1>1. n \in Nat  BY SequenceParts, LenProperties
<1>2. Steps(do, e) = [k \in 1 .. n |-> F[k]]  BY DEF Steps
<1>3. \A k \in 1 .. n : F[k] = do[e.list[k]]  OBVIOUS
<1> HIDE DEF F, n
<1>4. /\ Len(Steps(do, e)) = n
      /\ \A k \in 1 .. n : Steps(do, e)[k] = F[k]
  BY <1>1, <1>2, Listed
<1> QED  BY <1>1, <1>3, <1>4 DEF n

LEMMA AfterIsState ==
  ASSUME NEW do \in [Expressions -> [States -> States]], NEW e \in Expressions,
         NEW s \in States
  PROVE  After(do, e, s) \in States
<1>0. \A v \in Values : [s EXCEPT !.val = v] \in States  BY ValueSet
<1>1. CASE e.tag = "NUMBER_E"
  <2>1. After(do, e, s) = [s EXCEPT !.val = e.value % 256]  BY <1>1 DEF After, BinTags
  <2>2. e.value \in Nat  BY <1>1, TreesAssumption DEF TreesAssumption
  <2>3. e.value % 256 \in Values  BY <2>2 DEF Values, NoValue
  <2> QED  BY <1>0, <2>1, <2>3
<1>2. CASE e.tag = "CHAR_LITERAL_E"
  <2>1. After(do, e, s) = [s EXCEPT !.val = e.c % 256]  BY <1>2 DEF After, BinTags
  <2>2. e.c \in -128 .. 127  BY <1>2, TreesAssumption DEF TreesAssumption
  <2>3. e.c % 256 \in Values  BY <2>2 DEF Values, NoValue
  <2> QED  BY <1>0, <2>1, <2>3
<1>3. CASE e.tag = "VARIABLE_E"
  <2>1. After(do, e, s) = [s EXCEPT !.val = s.env[e.name]]  BY <1>3 DEF After, BinTags
  <2>2. e.name \in Variables  BY <1>3 DEF Variables
  <2>3. s.env[e.name] \in Values  BY <2>2 DEF States
  <2> QED  BY <1>0, <2>1, <2>3
<1>4. CASE e.tag \in BinTags
  <2> DEFINE l == do[e.lhs][s]
             r == do[e.rhs][l]
  <2>1. After(do, e, s) = [r EXCEPT !.val = Operate(e.tag, l.val, r.val)]
    BY <1>4 DEF After, BinTags
  <2>2. e.lhs \in Expressions /\ e.rhs \in Expressions  BY <1>4, BinaryParts DEF PartOf
  <2>3. l \in States /\ r \in States  BY <2>2
  <2>4. l.val \in Values /\ r.val \in Values  BY <2>3 DEF States
  <2>5. Operate(e.tag, l.val, r.val) \in Values  BY <1>4, <2>4, OperateIsValue
  <2> HIDE DEF l, r
  <2> QED  BY <2>1, <2>3, <2>5, ValueSet
<1>5. CASE e.tag \in {"LET_E", "ASSIGN_E"}
  <2> DEFINE v == do[e.e][s]
  <2>1. After(do, e, s) = Store(v, e.var, v.val)  BY <1>5 DEF After, BinTags
  <2>2. e.e \in Expressions /\ e.var \in Variables
    BY <1>5, OnePart DEF PartOf, Variables
  <2>3. v \in States  BY <2>2
  <2>4. v.val \in Values  BY <2>3 DEF States
  <2> HIDE DEF v
  <2>5. Store(v, e.var, v.val) \in States  BY <2>2, <2>3, <2>4, Stored
  <2> QED  BY <2>1, <2>5
<1>6. CASE e.tag = "SEQUENCE_E"
  <2>1. After(do, e, s) = InTurn(Steps(do, e), s)  BY <1>6 DEF After, BinTags, Steps
  <2> DEFINE n == Len(e.list)
  <2>2. /\ Len(Steps(do, e)) = n /\ n \in Nat
        /\ \A k \in 1 .. n : Steps(do, e)[k] = do[e.list[k]]
    BY <1>6, StepsAre
  <2>3. \A k \in 1 .. n : Steps(do, e)[k] \in [States -> States]
    BY <1>6, <2>2, SequenceParts DEF PartOf
  <2>4. PICK g : Folds(Steps(do, e), s, n, g) /\ InTurn(Steps(do, e), s) = g[n]
    BY <2>2, InTurnIs
  <2> HIDE DEF n
  <2>5. \A k \in 0 .. n : g[k] \in States  BY <2>2, <2>3, <2>4, FoldsIsState
  <2>6. n \in 0 .. n  BY <2>2
  <2> QED  BY <2>1, <2>4, <2>5, <2>6
<1>7. CASE e.tag = "DEREF_ASSIGN_E"
  <2> DEFINE v == do[e.e2][s]
             d == do[e.e1][v]
  <2>1. After(do, e, s) = [d EXCEPT !.out = Append(@, <<d.val, v.val>>), !.val = NoValue]
    BY <1>7 DEF After, BinTags
  <2>2. e.e1 \in Expressions /\ e.e2 \in Expressions
    BY <1>7, DerefAssignParts DEF PartOf
  <2>3. v \in States /\ d \in States  BY <2>2
  <2>4. v.val \in Values /\ d.val \in Values  BY <2>3 DEF States
  <2> HIDE DEF v, d
  <2>5. [d EXCEPT !.out = Append(@, <<d.val, v.val>>), !.val = NoValue] \in States
    BY <2>3, <2>4, Sent
  <2> QED  BY <2>1, <2>5
<1>8. CASE e.tag = "IF_ELSE_E"
  <2> DEFINE c == do[e.cond][s]
  <2>1. After(do, e, s) = IF c.val # 0 THEN do[e.if_body][c]
                          ELSE IF e.else_body # <<>> THEN do[e.else_body[1]][c]
                          ELSE [c EXCEPT !.val = NoValue]
    BY <1>8 DEF After, BinTags
  <2>2. /\ e.cond \in Expressions /\ e.if_body \in Expressions
        /\ e.else_body # <<>> => e.else_body[1] \in Expressions
    BY <1>8, IfElseParts DEF PartOf
  <2>3. c \in States  BY <2>2
  <2>4. NoValue \in Values  BY DEF NoValue, Values
  <2>5. [c EXCEPT !.val = NoValue] \in States  BY <2>3, <2>4, ValueSet
  <2> HIDE DEF c
  <2> QED  BY <2>1, <2>2, <2>3, <2>5
<1>9. CASE ~(e.tag \in BinTags \union
              {"NUMBER_E", "CHAR_LITERAL_E", "VARIABLE_E", "LET_E", "ASSIGN_E",
               "SEQUENCE_E", "DEREF_ASSIGN_E", "IF_ELSE_E"})
  <2>1. After(do, e, s) = [s EXCEPT !.val = NoValue]  BY <1>9 DEF After
  <2>2. NoValue \in Values  BY DEF NoValue, Values
  <2> QED  BY <1>0, <2>1, <2>2
<1> QED  BY <1>1, <1>2, <1>3, <1>4, <1>5, <1>6, <1>7, <1>8, <1>9

LEMMA AfterOfParts ==
  ASSUME NEW f, NEW g, NEW e \in Expressions, NEW s,
         \A x \in Expressions : PartOf(x, e) => f[x] = g[x]
  PROVE  After(f, e, s) = After(g, e, s)
<1>1. CASE e.tag \in BinTags
  <2>1. f[e.lhs] = g[e.lhs] /\ f[e.rhs] = g[e.rhs]  BY <1>1, BinaryParts DEF PartOf
  <2> QED  BY <1>1, <2>1 DEF After, BinTags
<1>2. CASE e.tag \in {"LET_E", "ASSIGN_E"}
  <2>1. f[e.e] = g[e.e]  BY <1>2, OnePart DEF PartOf
  <2> QED  BY <1>2, <2>1 DEF After, BinTags
<1>3. CASE e.tag = "SEQUENCE_E"
  <2>1. \A k \in 1 .. Len(e.list) : f[e.list[k]] = g[e.list[k]]
    BY <1>3, SequenceParts DEF PartOf
  <2>2. Steps(f, e) = Steps(g, e)  BY <2>1 DEF Steps
  <2>3. \A do : After(do, e, s) = InTurn(Steps(do, e), s)
    BY <1>3 DEF After, BinTags, Steps
  <2> QED  BY <2>2, <2>3
<1>4. CASE e.tag = "DEREF_ASSIGN_E"
  <2>1. f[e.e1] = g[e.e1] /\ f[e.e2] = g[e.e2]  BY <1>4, DerefAssignParts DEF PartOf
  <2> QED  BY <1>4, <2>1 DEF After, BinTags
<1>5. CASE e.tag = "IF_ELSE_E"
  <2>1. /\ f[e.cond] = g[e.cond] /\ f[e.if_body] = g[e.if_body]
        /\ e.else_body # <<>> => f[e.else_body[1]] = g[e.else_body[1]]
    BY <1>5, IfElseParts DEF PartOf
  <2> QED  BY <1>5, <2>1 DEF After, BinTags
<1>6. CASE ~(e.tag \in BinTags \union
              {"LET_E", "ASSIGN_E", "SEQUENCE_E", "DEREF_ASSIGN_E", "IF_ELSE_E"})
  BY <1>6 DEF After, BinTags
<1> QED  BY <1>1, <1>2, <1>3, <1>4, <1>5, <1>6

LEMMA EvalObeys ==
  /\ Eval \in [Expressions -> [States -> States]]
  /\ \A e \in Expressions, s \in States : Eval[e][s] = After(Eval, e, s)
<1> DEFINE V == [States -> States]
           St(f, e) == [s \in States |-> After(f, e, s)]
           G == [f \in [Expressions -> V] |-> [e \in Expressions |-> St(f, e)]]
<1>1. G \in [[Expressions -> V] -> [Expressions -> V]]
  <2>1. ASSUME NEW f \in [Expressions -> V], NEW e \in Expressions
        PROVE  St(f, e) \in V
    BY AfterIsState
  <2> HIDE DEF St, V
  <2> QED  BY <2>1
<1>2. ASSUME NEW f, NEW g, NEW e \in Expressions,
             \A x \in Expressions : PartOf(x, e) => f[x] = g[x]
      PROVE  St(f, e) = St(g, e)
  <2>1. \A s \in States : After(f, e, s) = After(g, e, s)  BY <1>2, AfterOfParts
  <2> QED  BY <2>1
<1>3. PICK f \in [Expressions -> V] : f = G[f]
  <2>1. \A f, g \in [Expressions -> V], e \in Expressions :
          (\A x \in Expressions : PartOf(x, e) => f[x] = g[x]) => G[f][e] = G[g][e]
    <3> HIDE DEF St, V
    <3> QED  BY <1>2
  <2>2. V # {}
    <3>1. [s \in States |-> s] \in V  OBVIOUS
    <3> QED  BY <3>1
  <2> HIDE DEF G, V
  <2> QED  BY <1>1, <2>1, <2>2, Recursive
<1>4. f = [e \in Expressions |-> St(f, e)]
  <2> HIDE DEF St, V
  <2> QED  BY <1>3
<1>5. Eval = CHOOSE h : h = [e \in Expressions |-> [s \in States |-> After(h, e, s)]]
  BY Zenon DEF Eval
<1>6. Eval = [e \in Expressions |-> St(Eval, e)]
  BY <1>4, <1>5
<1>7. \A e \in Expressions : f[e] = Eval[e]
  <2>1. SameRule(f, Eval)
    <3> SUFFICES ASSUME NEW e \in Expressions,
                        \A x \in Expressions : PartOf(x, e) => f[x] = Eval[x]
                 PROVE  f[e] = Eval[e]
      BY DEF SameRule
    <3>1. St(f, e) = St(Eval, e)  BY <1>2
    <3> HIDE DEF St
    <3> QED  BY <1>4, <1>6, <3>1
  <2> QED  BY <2>1, SameEverywhere
<1>8. Eval \in [Expressions -> V]
  <2>1. \A e \in Expressions : Eval[e] \in V
    <3> HIDE DEF V, G, St
    <3> QED  BY <1>3, <1>7
  <2> HIDE DEF V, St
  <2> QED  BY <1>6, <2>1
<1>9. ASSUME NEW e \in Expressions, NEW s \in States
      PROVE  Eval[e][s] = After(Eval, e, s)
  <2>1. Eval[e] = St(Eval, e)
    <3> HIDE DEF St
    <3> QED  BY <1>6
  <2> QED  BY <2>1
<1> QED  BY <1>8, <1>9

-----------------------------------------------------------------------------
(* The machine as a function: the state after the one it is in.            *)
Bytes    == 0 .. 255
Statuses == {"off", "running", "halted", "underflow", "lost"}

Running ==
  [at : Nat, ws : Seq(Bytes), zp : [Bytes -> Bytes], out : Seq(Bytes \X Bytes),
   status : {"running"}]

(* What the instruction op does.                                           *)
Does(op, r, s) ==
  LET n       == Len(s.ws)
      pop(k)  == SubSeq(s.ws, 1, n - k)
      c       == s.ws[n]
      b       == s.ws[n - 1]
      byte(k) == IF s.at + k < Len(r) THEN r[s.at + k + 1].byte ELSE 0
      Next(to, stk) == [s EXCEPT !.at = to, !.ws = stk]
  IN  CASE op = "LIT"  -> Next(s.at + 2, Append(s.ws, byte(1)))
        [] op = "LIT2" -> Next(s.at + 3, s.ws \o <<byte(1), byte(2)>>)
        [] op = "LDZ"  -> Next(s.at + 1, Append(pop(1), s.zp[c]))
        [] op = "STZ"  -> [Next(s.at + 1, pop(2)) EXCEPT !.zp = [@ EXCEPT ![c] = b]]
        [] op = "DEO"  -> [Next(s.at + 1, pop(2)) EXCEPT !.out = Append(@, <<c, b>>)]
        [] op = "JMP"  -> Next(s.at + 1 + M!Signed(c), pop(1))
        [] op = "JCN"  -> Next(s.at + 1 + (IF b # 0 THEN M!Signed(c) ELSE 0), pop(2))
        [] OTHER       -> Next(s.at + 1, Append(pop(2), M!Arith(op, b, c)))

Goes(r, s) ==
  LET op == r[s.at + 1].op
  IN  IF s.at >= Len(r)                   THEN [s EXCEPT !.status = "halted"]
      ELSE IF s.at < 0 \/ op = "RAW"      THEN [s EXCEPT !.status = "lost"]
      ELSE IF Len(s.ws) < M!Arity(op)     THEN [s EXCEPT !.status = "underflow"]
      ELSE Does(op, r, s)

(* Steps forward, and what they lead to.                                   *)
Forward(s, t) == t.at > s.at \/ t.status # s.status

Closed(r, S) ==
  \A s \in S : s.status = "running" /\ Forward(s, Goes(r, s)) => Goes(r, s) \in S

Reaches(r, s, t) == \A S : s \in S /\ Closed(r, S) => t \in S

LEMMA ReachesSelf == \A r, s : Reaches(r, s, s)
BY DEF Reaches

LEMMA ReachesNext ==
  ASSUME NEW r, NEW s, s.status = "running", Forward(s, Goes(r, s))
  PROVE  Reaches(r, s, Goes(r, s))
BY DEF Reaches, Closed

LEMMA ReachesOn ==
  ASSUME NEW r, NEW s, NEW t, Reaches(r, s, t), NEW u, Reaches(r, t, u)
  PROVE  Reaches(r, s, u)
BY DEF Reaches

(* From a state that leads to another one, the machine goes forward, and   *)
(* the next state still leads there.                                       *)
LEMMA ReachesFrom ==
  ASSUME NEW r, NEW s, NEW t, Reaches(r, s, t), s # t
  PROVE  /\ s.status = "running" /\ Forward(s, Goes(r, s))
         /\ Reaches(r, Goes(r, s), t)
<1>1. s.status = "running" /\ Forward(s, Goes(r, s))
  <2> SUFFICES ASSUME ~(s.status = "running" /\ Forward(s, Goes(r, s))) PROVE FALSE
    OBVIOUS
  <2>1. Closed(r, {s})  BY DEF Closed
  <2> QED  BY <2>1 DEF Reaches
<1>2. ASSUME NEW S, Goes(r, s) \in S, Closed(r, S)
      PROVE  t \in S
  <2>1. Closed(r, S \union {s})  BY <1>2 DEF Closed
  <2> QED  BY <2>1 DEF Reaches
<1> QED  BY <1>1, <1>2 DEF Reaches

-----------------------------------------------------------------------------
(* The cells c are loaded at a.                                            *)
At(r, a, c) == \A k \in 1 .. Len(c) : a + k \in 1 .. Len(r) /\ r[a + k] = c[k]

LEMMA AtJoined ==
  ASSUME NEW c \in CodeType, NEW d \in CodeType, NEW r, NEW a \in Nat, At(r, a, c \o d)
  PROVE  /\ At(r, a, c) /\ At(r, a + Len(c), d)
         /\ Len(c \o d) = Len(c) + Len(d) /\ Len(c) \in Nat /\ Len(d) \in Nat
<1> DEFINE n == Len(c)
           m == Len(d)
           cd == c \o d
<1>1. n \in Nat /\ m \in Nat  BY LenIsNat
<1>2. /\ Len(cd) = n + m
      /\ \A k \in 1 .. n : cd[k] = c[k]
      /\ \A k \in 1 .. m : cd[n + k] = d[k]
  <2>1. /\ Len(cd) = n + m
        /\ \A k \in 1 .. n + m : cd[k] = IF k <= n THEN c[k] ELSE d[k - n]
    BY ConcatProperties DEF CodeType
  <2> HIDE DEF n, m, cd
  <2> QED  BY <1>1, <2>1
<1>3. \A k \in 1 .. Len(cd) : a + k \in 1 .. Len(r) /\ r[a + k] = cd[k]
  BY DEF At
<1> HIDE DEF n, m, cd
<1>4. \A k \in 1 .. n : a + k \in 1 .. Len(r) /\ r[a + k] = c[k]
  BY <1>1, <1>2, <1>3
<1>5. \A k \in 1 .. m : a + n + k \in 1 .. Len(r) /\ r[a + n + k] = d[k]
  <2> SUFFICES ASSUME NEW k \in 1 .. m
               PROVE  a + n + k \in 1 .. Len(r) /\ r[a + n + k] = d[k]
    OBVIOUS
  <2>1. n + k \in 1 .. Len(cd) /\ a + n + k = a + (n + k)  BY <1>1, <1>2
  <2> QED  BY <1>2, <1>3, <2>1
<1> QED  BY <1>1, <1>2, <1>4, <1>5 DEF At, n, m, cd

-----------------------------------------------------------------------------
(* The stack.                                                              *)
LEMMA Popping ==
  ASSUME NEW v \in Seq(Bytes), NEW k \in 0 .. Len(v)
  PROVE  LET w == SubSeq(v, 1, Len(v) - k) IN
         /\ w \in Seq(Bytes) /\ Len(v) \in Nat /\ Len(w) = Len(v) - k
         /\ \A j \in 1 .. Len(v) - k : w[j] = v[j]
         /\ \A j \in 1 .. Len(v) : v[j] \in Bytes
<1> DEFINE n == Len(v) - k
<1>1. Len(v) \in Nat /\ \A j \in 1 .. Len(v) : v[j] \in Bytes
  BY ElementOfSeq, LenProperties
<1>2. n \in Nat /\ n <= Len(v)  BY <1>1
<1>3. \A i \in 1 .. n : v[i] \in Bytes  BY <1>1, <1>2
<1> HIDE DEF n
<1>4. /\ SubSeq(v, 1, n) \in Seq(Bytes)
      /\ Len(SubSeq(v, 1, n)) = IF 1 <= n THEN n - 1 + 1 ELSE 0
      /\ \A i \in 1 .. n - 1 + 1 : SubSeq(v, 1, n)[i] = v[1 + i - 1]
  BY <1>2, <1>3, SubSeqProperties
<1>5. Len(SubSeq(v, 1, n)) = n
  BY <1>2, <1>4
<1>6. \A i \in 1 .. n : i \in 1 .. n - 1 + 1 /\ 1 + i - 1 = i  BY <1>2
<1>7. \A i \in 1 .. n : SubSeq(v, 1, n)[i] = v[i]
  BY <1>4, <1>6
<1> QED  BY <1>1, <1>4, <1>5, <1>7 DEF n

LEMMA PopOne ==
  ASSUME NEW w \in Seq(Bytes), NEW b \in Bytes
  PROVE  LET v == Append(w, b) IN
         /\ v \in Seq(Bytes) /\ Len(v) \in Nat /\ Len(v) >= 1 /\ v[Len(v)] = b
         /\ SubSeq(v, 1, Len(v) - 1) = w
<1> DEFINE v == Append(w, b)
<1>1. /\ v \in Seq(Bytes) /\ Len(v) = Len(w) + 1 /\ Len(w) \in Nat
      /\ v[Len(w) + 1] = b /\ \A i \in 1 .. Len(w) : v[i] = w[i]
  BY AppendProperties, LenProperties
<1> HIDE DEF v
<1> DEFINE u == SubSeq(v, 1, Len(v) - 1)
<1>2. u \in Seq(Bytes) /\ Len(u) = Len(v) - 1 /\ \A j \in 1 .. Len(v) - 1 : u[j] = v[j]
  <2>1. 1 \in 0 .. Len(v)  BY <1>1
  <2> QED  BY <1>1, <2>1, Popping
<1> HIDE DEF u
<1>3. u = w
  <2>1. Len(u) = Len(w) /\ \A j \in 1 .. Len(w) : u[j] = w[j]  BY <1>1, <1>2
  <2> QED  BY <1>2, <2>1, SeqEqual
<1> QED  BY <1>1, <1>3 DEF u, v

LEMMA PopTwo ==
  ASSUME NEW w \in Seq(Bytes), NEW b \in Bytes, NEW c \in Bytes
  PROVE  LET v == Append(Append(w, b), c) IN
         /\ v \in Seq(Bytes) /\ Len(v) \in Nat /\ Len(v) >= 2
         /\ v[Len(v)] = c /\ v[Len(v) - 1] = b
         /\ SubSeq(v, 1, Len(v) - 2) = w
<1> DEFINE x == Append(w, b)
           v == Append(x, c)
<1>1. /\ x \in Seq(Bytes) /\ Len(x) = Len(w) + 1 /\ Len(w) \in Nat
      /\ x[Len(w) + 1] = b /\ \A i \in 1 .. Len(w) : x[i] = w[i]
  BY AppendProperties, LenProperties
<1> HIDE DEF x
<1>2. /\ v \in Seq(Bytes) /\ Len(v) = Len(x) + 1 /\ Len(x) \in Nat
      /\ v[Len(x) + 1] = c /\ \A i \in 1 .. Len(x) : v[i] = x[i]
  BY <1>1, AppendProperties, LenProperties
<1> HIDE DEF v
<1> DEFINE u == SubSeq(v, 1, Len(v) - 2)
<1>3. u \in Seq(Bytes) /\ Len(u) = Len(v) - 2 /\ \A j \in 1 .. Len(v) - 2 : u[j] = v[j]
  <2>1. 2 \in 0 .. Len(v)  BY <1>1, <1>2
  <2> QED  BY <1>2, <2>1, Popping
<1> HIDE DEF u
<1>4. u = w
  <2>1. Len(u) = Len(w) /\ \A j \in 1 .. Len(w) : u[j] = w[j]  BY <1>1, <1>2, <1>3
  <2> QED  BY <1>3, <2>1, SeqEqual
<1>5. v[Len(v)] = c /\ v[Len(v) - 1] = b /\ Len(v) >= 2  BY <1>1, <1>2
<1> QED  BY <1>2, <1>4, <1>5 DEF u, v, x

LEMMA ArithIsByte ==
  ASSUME NEW op \in M!Ops2, NEW b \in Bytes, NEW c \in Bytes
  PROVE  M!Arith(op, b, c) \in Bytes
<1> USE DEF Bytes
<1>1. ASSUME NEW n \in Int PROVE n % 256 \in Bytes
  OBVIOUS
<1>2. CASE op = "ADD"
  <2>1. M!Arith(op, b, c) = (b + c) % 256  BY <1>2 DEF M!Arith
  <2> QED  BY <1>1, <2>1
<1>3. CASE op = "SUB"
  <2>1. M!Arith(op, b, c) = (b - c) % 256  BY <1>3 DEF M!Arith
  <2> QED  BY <1>1, <2>1
<1>4. CASE op = "MUL"
  <2>1. M!Arith(op, b, c) = (b * c) % 256  BY <1>4 DEF M!Arith
  <2> DEFINE n == b * c
  <2>2. n \in Int  OBVIOUS
  <2> HIDE DEF n
  <2>3. n % 256 \in Bytes  BY <2>2
  <2> QED  BY <2>1, <2>3 DEF n
<1>5. CASE op = "DIV"
  <2>1. c # 0 => b \div c \in Bytes
    <3> SUFFICES ASSUME c > 0 PROVE b \div c \in Bytes
      OBVIOUS
    <3> DEFINE q == b \div c
               m == b % c
    <3>1. b = c * q + m /\ m \in 0 .. c - 1 /\ q \in Nat
      OBVIOUS
    <3> HIDE DEF q, m
    <3>2. q <= 255
      <4> SUFFICES ASSUME q >= 256 PROVE FALSE
        BY <3>1
      <4>1. c * q >= c * 256  BY <3>1
      <4> QED  BY <3>1, <4>1
    <3> QED  BY <3>1, <3>2 DEF q
  <2> QED  BY <1>5, <2>1 DEF M!Arith
<1>6. CASE op \in {"EQU", "NEQ", "GTH", "LTH"}  BY <1>6 DEF M!Arith
<1> QED  BY <1>2, <1>3, <1>4, <1>5, <1>6 DEF M!Ops2

-----------------------------------------------------------------------------
(* The instructions.                                                       *)
Stuck(r, s) == \E t : Reaches(r, s, t) /\ t.status = "underflow"

(* t is s, further on by n cells.                                          *)
Further(s, t, n) == t \in Running /\ t.at = s.at + n

Kept(s, t) == t.zp = s.zp /\ t.out = s.out

LEMMA Fetches ==
  ASSUME NEW r \in CodeType, NEW s \in Running, NEW op \in Opcodes,
         At(r, s.at, <<Inst(op)>>), op # "RAW"
  PROVE  /\ r[s.at + 1].op = op /\ s.at < Len(r) /\ Len(r) \in Nat /\ s.at \in Nat
         /\ s.ws \in Seq(Bytes) /\ Len(s.ws) \in Nat /\ s.status = "running"
         /\ Len(s.ws) >= M!Arity(op) => Goes(r, s) = Does(op, r, s)
         /\ Len(s.ws) < M!Arity(op) => Stuck(r, s)
<1>1. s.at \in Nat /\ s.ws \in Seq(Bytes) /\ s.status = "running"  BY DEF Running
<1>2. Len(s.ws) \in Nat /\ Len(r) \in Nat  BY <1>1, LenIsNat, LenProperties
<1>3. s.at + 1 \in 1 .. Len(r) /\ r[s.at + 1] = Inst(op)
  <2>1. Len(<<Inst(op)>>) = 1 /\ <<Inst(op)>>[1] = Inst(op)  OBVIOUS
  <2> QED  BY <2>1 DEF At
<1>4. r[s.at + 1].op = op /\ s.at < Len(r)  BY <1>1, <1>2, <1>3 DEF Inst
<1>5. ~(s.at >= Len(r)) /\ ~(s.at < 0)  BY <1>1, <1>2, <1>4
<1>6. Len(s.ws) >= M!Arity(op) => Goes(r, s) = Does(op, r, s)
  <2> SUFFICES ASSUME Len(s.ws) >= M!Arity(op) PROVE Goes(r, s) = Does(op, r, s)
    OBVIOUS
  <2>1. M!Arity(op) \in Int  BY DEF M!Arity
  <2>2. ~(Len(s.ws) < M!Arity(op))  BY <1>2, <2>1
  <2> QED  BY <1>4, <1>5, <2>2 DEF Goes
<1>7. Len(s.ws) < M!Arity(op) => Stuck(r, s)
  <2> SUFFICES ASSUME Len(s.ws) < M!Arity(op) PROVE Stuck(r, s)
    OBVIOUS
  <2>1. Goes(r, s) = [s EXCEPT !.status = "underflow"]
    BY <1>4, <1>5 DEF Goes
  <2>2. Goes(r, s).status = "underflow"  BY <2>1 DEF Running
  <2>3. Forward(s, Goes(r, s))  BY <1>1, <2>2 DEF Forward
  <2>4. Reaches(r, s, Goes(r, s))  BY <1>1, <2>3, ReachesNext
  <2> QED  BY <2>2, <2>4 DEF Stuck
<1> QED  BY <1>1, <1>2, <1>4, <1>6, <1>7

LEMMA Advances ==
  ASSUME NEW r, NEW s \in Running, Goes(r, s) \in Running, Goes(r, s).at > s.at
  PROVE  Reaches(r, s, Goes(r, s))
<1>1. s.status = "running" /\ Forward(s, Goes(r, s))  BY DEF Running, Forward
<1> QED  BY <1>1, ReachesNext

LEMMA LitRuns ==
  ASSUME NEW r \in CodeType, NEW s \in Running, NEW b \in Bytes,
         At(r, s.at, <<Inst("LIT"), Raw(b)>>)
  PROVE  \E t : /\ Further(s, t, 2) /\ Reaches(r, s, t) /\ Kept(s, t)
                /\ t.ws = Append(s.ws, b)
<1>1. /\ s.at + 1 \in 1 .. Len(r) /\ r[s.at + 1] = Inst("LIT")
      /\ s.at + 2 \in 1 .. Len(r) /\ r[s.at + 2] = Raw(b)
  <2> DEFINE c == <<Inst("LIT"), Raw(b)>>
  <2>1. Len(c) = 2 /\ c[1] = Inst("LIT") /\ c[2] = Raw(b)  OBVIOUS
  <2> HIDE DEF c
  <2> QED  BY <2>1 DEF At, c
<1>2. At(r, s.at, <<Inst("LIT")>>)
  <2>1. Len(<<Inst("LIT")>>) = 1 /\ <<Inst("LIT")>>[1] = Inst("LIT")  OBVIOUS
  <2> QED  BY <1>1, <2>1 DEF At
<1>3. /\ Len(r) \in Nat /\ s.at \in Nat /\ s.ws \in Seq(Bytes) /\ Len(s.ws) \in Nat
      /\ Len(s.ws) >= M!Arity("LIT") => Goes(r, s) = Does("LIT", r, s)
  <2>1. "LIT" \in Opcodes /\ "LIT" # "RAW"  BY DEF Opcodes
  <2> QED  BY <1>2, <2>1, Fetches
<1>4. M!Arity("LIT") = 0  BY DEF M!Arity
<1>5. s.at + 1 < Len(r) /\ r[s.at + 1 + 1].byte = b
  BY <1>1, <1>3 DEF Raw
<1> DEFINE w == Append(s.ws, b)
           a == s.at + 2
           t == [s EXCEPT !.at = a, !.ws = w]
<1>6. Goes(r, s) = t  BY <1>3, <1>4, <1>5 DEF Does
<1>7. w \in Seq(Bytes) /\ a \in Nat /\ a > s.at  BY <1>3, AppendProperties
<1> HIDE DEF w, a
<1>8. t \in Running /\ t.at = a /\ t.ws = w /\ t.zp = s.zp /\ t.out = s.out
  BY <1>7 DEF Running
<1> HIDE DEF t
<1>9. Reaches(r, s, t)  BY <1>6, <1>7, <1>8, Advances
<1> QED  BY <1>8, <1>9 DEF Further, Kept, w, a

LEMMA Lit2Runs ==
  ASSUME NEW r \in CodeType, NEW s \in Running, NEW b \in Bytes, NEW c \in Bytes,
         At(r, s.at, <<Inst("LIT2"), Raw(b), Raw(c)>>)
  PROVE  \E t : Further(s, t, 3) /\ Reaches(r, s, t) /\ Kept(s, t)
<1>1. /\ s.at + 1 \in 1 .. Len(r) /\ r[s.at + 1] = Inst("LIT2")
      /\ s.at + 2 \in 1 .. Len(r) /\ r[s.at + 2] = Raw(b)
      /\ s.at + 3 \in 1 .. Len(r) /\ r[s.at + 3] = Raw(c)
  <2> DEFINE d == <<Inst("LIT2"), Raw(b), Raw(c)>>
  <2>1. Len(d) = 3 /\ d[1] = Inst("LIT2") /\ d[2] = Raw(b) /\ d[3] = Raw(c)  OBVIOUS
  <2> HIDE DEF d
  <2> QED  BY <2>1 DEF At, d
<1>2. At(r, s.at, <<Inst("LIT2")>>)
  <2>1. Len(<<Inst("LIT2")>>) = 1 /\ <<Inst("LIT2")>>[1] = Inst("LIT2")  OBVIOUS
  <2> QED  BY <1>1, <2>1 DEF At
<1>3. /\ Len(r) \in Nat /\ s.at \in Nat /\ s.ws \in Seq(Bytes) /\ Len(s.ws) \in Nat
      /\ Len(s.ws) >= M!Arity("LIT2") => Goes(r, s) = Does("LIT2", r, s)
  <2>1. "LIT2" \in Opcodes /\ "LIT2" # "RAW"  BY DEF Opcodes
  <2> QED  BY <1>2, <2>1, Fetches
<1>4. M!Arity("LIT2") = 0  BY DEF M!Arity
<1>5. /\ s.at + 1 < Len(r) /\ r[s.at + 1 + 1].byte = b
      /\ s.at + 2 < Len(r) /\ r[s.at + 2 + 1].byte = c
  <2>1. /\ s.at + 1 < Len(r) /\ s.at + 1 + 1 = s.at + 2
        /\ s.at + 2 < Len(r) /\ s.at + 2 + 1 = s.at + 3
    <3>1. s.at + 2 \in 1 .. Len(r) /\ s.at + 3 \in 1 .. Len(r)  BY <1>1
    <3>2. Len(r) \in Nat /\ s.at \in Nat  BY <1>3
    <3> QED  BY <3>1, <3>2
  <2>2. r[s.at + 2].byte = b /\ r[s.at + 3].byte = c  BY <1>1 DEF Raw
  <2> QED  BY <2>1, <2>2
<1> DEFINE w == s.ws \o <<b, c>>
           a == s.at + 3
           t == [s EXCEPT !.at = a, !.ws = w]
<1>6. Goes(r, s) = t  BY <1>3, <1>4, <1>5 DEF Does
<1>7. w \in Seq(Bytes) /\ a \in Nat /\ a > s.at
  <2>1. <<b, c>> \in Seq(Bytes)  OBVIOUS
  <2> QED  BY <1>3, <2>1, ConcatProperties
<1> HIDE DEF w, a
<1>8. t \in Running /\ t.at = a /\ t.zp = s.zp /\ t.out = s.out
  BY <1>7 DEF Running
<1> HIDE DEF t
<1>9. Reaches(r, s, t)  BY <1>6, <1>7, <1>8, Advances
<1> QED  BY <1>8, <1>9 DEF Further, Kept, a

LEMMA LdzRuns ==
  ASSUME NEW r \in CodeType, NEW s \in Running, At(r, s.at, <<Inst("LDZ")>>)
  PROVE  \/ Stuck(r, s) /\ Len(s.ws) < 1
         \/ \E t : /\ Further(s, t, 1) /\ Reaches(r, s, t) /\ Kept(s, t)
                   /\ \A w \in Seq(Bytes), b \in Bytes :
                        s.ws = Append(w, b) => t.ws = Append(w, s.zp[b])
<1>1. /\ s.at \in Nat /\ s.ws \in Seq(Bytes) /\ Len(s.ws) \in Nat
      /\ Len(s.ws) >= M!Arity("LDZ") => Goes(r, s) = Does("LDZ", r, s)
      /\ Len(s.ws) < M!Arity("LDZ") => Stuck(r, s)
  <2>1. "LDZ" \in Opcodes /\ "LDZ" # "RAW"  BY DEF Opcodes
  <2> QED  BY <2>1, Fetches
<1>2. M!Arity("LDZ") = 1  BY DEF M!Arity
<1>3. CASE Len(s.ws) < 1  BY <1>1, <1>2, <1>3
<1>4. CASE Len(s.ws) >= 1
  <2> DEFINE n == Len(s.ws)
             p == SubSeq(s.ws, 1, n - 1)
             w == Append(p, s.zp[s.ws[n]])
             a == s.at + 1
             t == [s EXCEPT !.at = a, !.ws = w]
  <2>1. Goes(r, s) = t  BY <1>1, <1>2, <1>4 DEF Does
  <2>2. p \in Seq(Bytes) /\ s.ws[n] \in Bytes
    <3>1. 1 \in 0 .. Len(s.ws) /\ n \in 1 .. Len(s.ws)  BY <1>1, <1>4
    <3> QED  BY <1>1, <3>1, Popping
  <2>3. s.zp[s.ws[n]] \in Bytes  BY <2>2 DEF Running
  <2>4. a \in Nat /\ a > s.at  BY <1>1
  <2>5. \A v \in Seq(Bytes), b \in Bytes :
          s.ws = Append(v, b) => w = Append(v, s.zp[b])
    BY PopOne
  <2>6. w \in Seq(Bytes)  BY <2>2, <2>3, AppendProperties
  <2> HIDE DEF w, a
  <2>7. t \in Running /\ t.at = a /\ t.ws = w /\ t.zp = s.zp /\ t.out = s.out
    BY <2>4, <2>6 DEF Running
  <2> HIDE DEF t
  <2>8. Reaches(r, s, t)  BY <2>1, <2>4, <2>7, Advances
  <2> QED  BY <2>5, <2>7, <2>8 DEF Further, Kept, a
<1> QED  BY <1>1, <1>3, <1>4

LEMMA ComputeRuns ==
  ASSUME NEW r \in CodeType, NEW s \in Running, NEW op \in M!Ops2,
         At(r, s.at, <<Inst(op)>>)
  PROVE  \/ Stuck(r, s) /\ Len(s.ws) < 2
         \/ \E t : /\ Further(s, t, 1) /\ Reaches(r, s, t) /\ Kept(s, t)
                   /\ \A w \in Seq(Bytes), b, c \in Bytes :
                        s.ws = Append(Append(w, b), c)
                        => t.ws = Append(w, M!Arith(op, b, c))
<1>0. /\ op \in Opcodes /\ M!Arity(op) = 2
      /\ op \notin {"RAW", "LIT", "LIT2", "LDZ", "STZ", "DEO", "JMP", "JCN"}
  <2>1. op \in Opcodes  BY DEF Opcodes, BinaryTags, BinaryInst, M!Ops2
  <2> QED  BY <2>1 DEF M!Ops2, M!Arity
<1>1. /\ s.at \in Nat /\ s.ws \in Seq(Bytes) /\ Len(s.ws) \in Nat
      /\ Len(s.ws) >= 2 => Goes(r, s) = Does(op, r, s)
      /\ Len(s.ws) < 2 => Stuck(r, s)
  BY <1>0, Fetches
<1>3. CASE Len(s.ws) < 2  BY <1>1, <1>3
<1>4. CASE Len(s.ws) >= 2
  <2> DEFINE n == Len(s.ws)
             p == SubSeq(s.ws, 1, n - 2)
             d == M!Arith(op, s.ws[n - 1], s.ws[n])
             w == Append(p, d)
             a == s.at + 1
             t == [s EXCEPT !.at = a, !.ws = w]
  <2>1. Goes(r, s) = t
    <3>1. Goes(r, s) = Does(op, r, s)  BY <1>1, <1>4
    <3> QED  BY <1>0, <3>1 DEF Does
  <2>2. p \in Seq(Bytes) /\ s.ws[n] \in Bytes /\ s.ws[n - 1] \in Bytes
    <3>1. 2 \in 0 .. Len(s.ws) /\ n \in 1 .. Len(s.ws) /\ n - 1 \in 1 .. Len(s.ws)
      BY <1>1, <1>4
    <3> QED  BY <1>1, <3>1, Popping
  <2>3. d \in Bytes  BY <2>2, ArithIsByte
  <2>4. a \in Nat /\ a > s.at  BY <1>1
  <2>5. \A v \in Seq(Bytes), b, c \in Bytes :
          s.ws = Append(Append(v, b), c) => w = Append(v, M!Arith(op, b, c))
    BY PopTwo
  <2> HIDE DEF d
  <2>6. w \in Seq(Bytes)  BY <2>2, <2>3, AppendProperties
  <2> HIDE DEF w, a
  <2>7. t \in Running /\ t.at = a /\ t.ws = w /\ t.zp = s.zp /\ t.out = s.out
    BY <2>4, <2>6 DEF Running
  <2> HIDE DEF t
  <2>8. Reaches(r, s, t)  BY <2>1, <2>4, <2>7, Advances
  <2> QED  BY <2>5, <2>7, <2>8 DEF Further, Kept, a
<1> QED  BY <1>1, <1>3, <1>4

LEMMA StzRuns ==
  ASSUME NEW r \in CodeType, NEW s \in Running, At(r, s.at, <<Inst("STZ")>>)
  PROVE  \/ Stuck(r, s) /\ Len(s.ws) < 2
         \/ \E t : /\ Further(s, t, 1) /\ Reaches(r, s, t) /\ t.out = s.out
                   /\ \A w \in Seq(Bytes), b, c \in Bytes :
                        s.ws = Append(Append(w, b), c)
                        => t.ws = w /\ t.zp = [s.zp EXCEPT ![c] = b]
<1>1. /\ s.at \in Nat /\ s.ws \in Seq(Bytes) /\ Len(s.ws) \in Nat
      /\ Len(s.ws) >= M!Arity("STZ") => Goes(r, s) = Does("STZ", r, s)
      /\ Len(s.ws) < M!Arity("STZ") => Stuck(r, s)
  <2>1. "STZ" \in Opcodes /\ "STZ" # "RAW"  BY DEF Opcodes
  <2> QED  BY <2>1, Fetches
<1>2. M!Arity("STZ") = 2  BY DEF M!Arity
<1>3. CASE Len(s.ws) < 2  BY <1>1, <1>2, <1>3
<1>4. CASE Len(s.ws) >= 2
  <2> DEFINE n == Len(s.ws)
             w == SubSeq(s.ws, 1, n - 2)
             z == [s.zp EXCEPT ![s.ws[n]] = s.ws[n - 1]]
             a == s.at + 1
             t == [s EXCEPT !.at = a, !.ws = w, !.zp = z]
  <2>2. w \in Seq(Bytes) /\ s.ws[n] \in Bytes /\ s.ws[n - 1] \in Bytes
    <3>1. 2 \in 0 .. Len(s.ws) /\ n \in 1 .. Len(s.ws) /\ n - 1 \in 1 .. Len(s.ws)
      BY <1>1, <1>4
    <3> QED  BY <1>1, <3>1, Popping
  <2>3. z \in [Bytes -> Bytes]  BY <2>2 DEF Running
  <2>4. a \in Nat /\ a > s.at  BY <1>1
  <2>5. \A v \in Seq(Bytes), b, c \in Bytes :
          s.ws = Append(Append(v, b), c) => w = v /\ z = [s.zp EXCEPT ![c] = b]
    BY PopTwo
  <2>1. Goes(r, s) = t  BY <1>1, <1>2, <1>4 DEF Does, Running
  <2> HIDE DEF w, a, z
  <2>7. t \in Running /\ t.at = a /\ t.ws = w /\ t.zp = z /\ t.out = s.out
    BY <2>2, <2>3, <2>4 DEF Running
  <2> HIDE DEF t
  <2>8. Reaches(r, s, t)  BY <2>1, <2>4, <2>7, Advances
  <2>9. Further(s, t, 1) /\ Reaches(r, s, t) /\ t.out = s.out
    BY <2>7, <2>8 DEF Further, a
  <2>10. \A v \in Seq(Bytes), b, c \in Bytes :
           s.ws = Append(Append(v, b), c) => t.ws = v /\ t.zp = [s.zp EXCEPT ![c] = b]
    BY <2>5, <2>7
  <2> QED  BY <2>9, <2>10
<1>5. Len(s.ws) < 2 \/ Len(s.ws) >= 2  BY <1>1
<1> QED  BY <1>3, <1>4, <1>5

LEMMA DeoRuns ==
  ASSUME NEW r \in CodeType, NEW s \in Running, At(r, s.at, <<Inst("DEO")>>)
  PROVE  \/ Stuck(r, s) /\ Len(s.ws) < 2
         \/ \E t : /\ Further(s, t, 1) /\ Reaches(r, s, t) /\ t.zp = s.zp
                   /\ \A w \in Seq(Bytes), b, c \in Bytes :
                        s.ws = Append(Append(w, b), c)
                        => t.ws = w /\ t.out = Append(s.out, <<c, b>>)
<1>1. /\ s.at \in Nat /\ s.ws \in Seq(Bytes) /\ Len(s.ws) \in Nat
      /\ Len(s.ws) >= M!Arity("DEO") => Goes(r, s) = Does("DEO", r, s)
      /\ Len(s.ws) < M!Arity("DEO") => Stuck(r, s)
  <2>1. "DEO" \in Opcodes /\ "DEO" # "RAW"  BY DEF Opcodes
  <2> QED  BY <2>1, Fetches
<1>2. M!Arity("DEO") = 2  BY DEF M!Arity
<1>3. CASE Len(s.ws) < 2  BY <1>1, <1>2, <1>3
<1>4. CASE Len(s.ws) >= 2
  <2> DEFINE n == Len(s.ws)
             w == SubSeq(s.ws, 1, n - 2)
             o == Append(s.out, <<s.ws[n], s.ws[n - 1]>>)
             a == s.at + 1
             t == [s EXCEPT !.at = a, !.ws = w, !.out = o]
  <2>2. w \in Seq(Bytes) /\ s.ws[n] \in Bytes /\ s.ws[n - 1] \in Bytes
    <3>1. 2 \in 0 .. Len(s.ws) /\ n \in 1 .. Len(s.ws) /\ n - 1 \in 1 .. Len(s.ws)
      BY <1>1, <1>4
    <3> QED  BY <1>1, <3>1, Popping
  <2>3. o \in Seq(Bytes \X Bytes)
    <3>1. s.out \in Seq(Bytes \X Bytes)  BY DEF Running
    <3>2. <<s.ws[n], s.ws[n - 1]>> \in Bytes \X Bytes  BY <2>2
    <3> QED  BY <3>1, <3>2, AppendProperties
  <2>4. a \in Nat /\ a > s.at  BY <1>1
  <2>5. \A v \in Seq(Bytes), b, c \in Bytes :
          s.ws = Append(Append(v, b), c) => w = v /\ o = Append(s.out, <<c, b>>)
    BY PopTwo
  <2>1. Goes(r, s) = t  BY <1>1, <1>2, <1>4 DEF Does, Running
  <2> HIDE DEF w, a, o
  <2>7. t \in Running /\ t.at = a /\ t.ws = w /\ t.zp = s.zp /\ t.out = o
    BY <2>2, <2>3, <2>4 DEF Running
  <2> HIDE DEF t
  <2>8. Reaches(r, s, t)  BY <2>1, <2>4, <2>7, Advances
  <2>9. Further(s, t, 1)  BY <2>7 DEF Further, a
  <2>10. \A v \in Seq(Bytes), b, c \in Bytes :
          s.ws = Append(Append(v, b), c) => t.ws = v /\ t.out = Append(s.out, <<c, b>>)
    BY <2>5, <2>7
  <2> QED  BY Zenon, <2>7, <2>8, <2>9, <2>10
<1>5. Len(s.ws) < 2 \/ Len(s.ws) >= 2  BY <1>1
<1> QED  BY <1>3, <1>4, <1>5

(* A jump that is short, and ahead.                                        *)
Hops == 0 .. 127

LEMMA JmpRuns ==
  ASSUME NEW r \in CodeType, NEW s \in Running, At(r, s.at, <<Inst("JMP")>>),
         NEW w \in Seq(Bytes), NEW b \in Hops, s.ws = Append(w, b)
  PROVE  \E t : Further(s, t, 1 + b) /\ Reaches(r, s, t) /\ Kept(s, t) /\ t.ws = w
<1>0. b \in Bytes /\ b \in 0 .. 127  BY DEF Bytes, Hops
<1> USE <1>0
<1>1. /\ s.at \in Nat
      /\ Len(s.ws) >= M!Arity("JMP") => Goes(r, s) = Does("JMP", r, s)
  <2>1. "JMP" \in Opcodes /\ "JMP" # "RAW"  BY DEF Opcodes
  <2> QED  BY <2>1, Fetches
<1>2. M!Arity("JMP") = 1 /\ M!Signed(b) = b
  <2>1. M!Arity("JMP") = 1  BY DEF M!Arity
  <2>2. M!Signed(b) = b  BY DEF M!Signed
  <2> QED  BY <2>1, <2>2
<1>3. s.ws[Len(s.ws)] = b /\ SubSeq(s.ws, 1, Len(s.ws) - 1) = w /\ Len(s.ws) >= 1
  BY <1>0, PopOne
<1> DEFINE a == s.at + 1 + b
           t == [s EXCEPT !.at = a, !.ws = w]
<1>4. a \in Nat /\ a > s.at /\ a = s.at + (1 + b)  BY <1>1
<1>5. Goes(r, s) = t  BY <1>1, <1>2, <1>3 DEF Does
<1> HIDE DEF a
<1>6. t \in Running /\ t.at = a /\ t.ws = w /\ t.zp = s.zp /\ t.out = s.out
  BY <1>4 DEF Running
<1> HIDE DEF t
<1>7. Reaches(r, s, t)  BY <1>4, <1>5, <1>6, Advances
<1> QED  BY <1>4, <1>6, <1>7 DEF Further, Kept

LEMMA JcnRuns ==
  ASSUME NEW r \in CodeType, NEW s \in Running, At(r, s.at, <<Inst("JCN")>>),
         NEW v \in Seq(Bytes), NEW b \in Hops, s.ws = Append(v, b)
  PROVE  \/ Stuck(r, s) /\ v = <<>>
         \/ \E t : /\ Reaches(r, s, t) /\ Kept(s, t)
                   /\ Further(s, t, 1) \/ Further(s, t, 1 + b)
                   /\ \A w \in Seq(Bytes), c \in Bytes :
                        v = Append(w, c)
                        => /\ t.ws = w
                           /\ Further(s, t, 1 + (IF c # 0 THEN b ELSE 0))
<1>0. b \in Bytes /\ b \in 0 .. 127  BY DEF Bytes, Hops
<1> USE <1>0
<1>1. /\ s.at \in Nat /\ Len(v) \in Nat
      /\ Len(s.ws) >= M!Arity("JCN") => Goes(r, s) = Does("JCN", r, s)
      /\ Len(s.ws) < M!Arity("JCN") => Stuck(r, s)
  <2>1. "JCN" \in Opcodes /\ "JCN" # "RAW"  BY DEF Opcodes
  <2>2. Len(v) \in Nat  BY LenProperties
  <2> QED  BY <2>1, <2>2, Fetches
<1>2. M!Arity("JCN") = 2 /\ M!Signed(b) = b
  <2>1. M!Arity("JCN") = 2  BY DEF M!Arity
  <2>2. M!Signed(b) = b  BY DEF M!Signed
  <2> QED  BY <2>1, <2>2
<1>3. /\ s.ws[Len(s.ws)] = b /\ Len(s.ws) = Len(v) + 1
      /\ s.ws \in Seq(Bytes)
      /\ \A i \in 1 .. Len(v) : s.ws[i] = v[i]
  <2>1. s.ws = Append(v, b)  OBVIOUS
  <2>2. /\ Append(v, b) \in Seq(Bytes) /\ Len(Append(v, b)) = Len(v) + 1
        /\ \A i \in 1 .. Len(v) : Append(v, b)[i] = v[i]
        /\ Append(v, b)[Len(v) + 1] = b
    BY <1>0, <1>1, AppendProperties
  <2> QED  BY <2>1, <2>2
<1>4. CASE v = <<>>
  <2>1. Len(v) = 0  BY <1>4
  <2> QED  BY <1>1, <1>2, <1>3, <1>4, <2>1
<1>5. CASE v # <<>>
  <2>0. Len(v) >= 1  BY <1>1, <1>5, EmptySeq
  <2> DEFINE n == Len(s.ws)
             w == SubSeq(s.ws, 1, n - 2)
             c == s.ws[n - 1]
             d == IF c # 0 THEN b ELSE 0
             a == s.at + 1 + d
             t == [s EXCEPT !.at = a, !.ws = w]
  <2>1. Goes(r, s) = t
    <3>1. Goes(r, s) = Does("JCN", r, s)  BY <1>1, <1>2, <1>3, <2>0
    <3>2. s.ws[n] = b  BY <1>3
    <3> QED  BY <1>2, <3>1, <3>2 DEF Does
  <2>2. w \in Seq(Bytes)
    <3>1. 2 \in 0 .. Len(s.ws)  BY <1>1, <1>3, <2>0
    <3> QED  BY <1>3, <3>1, Popping
  <2>3. \A u \in Seq(Bytes), e \in Bytes : v = Append(u, e) => w = u /\ c = e
    <3> SUFFICES ASSUME NEW u \in Seq(Bytes), NEW e \in Bytes, v = Append(u, e)
                 PROVE  w = u /\ c = e
      OBVIOUS
    <3>1. s.ws = Append(Append(u, e), b)  OBVIOUS
    <3> QED  BY <1>0, <3>1, PopTwo
  <2> HIDE DEF w, c
  <2>4. d \in 0 .. 127 /\ (d = 0 \/ d = b)  OBVIOUS
  <2> HIDE DEF d
  <2>5. /\ a \in Nat /\ a > s.at /\ a = s.at + (1 + d)
        /\ a = s.at + 1 \/ a = s.at + (1 + b)
    BY <1>1, <2>4
  <2> HIDE DEF a
  <2>6. t \in Running /\ t.at = a /\ t.ws = w /\ t.zp = s.zp /\ t.out = s.out
    BY <2>2, <2>5 DEF Running
  <2> HIDE DEF t
  <2>7. Reaches(r, s, t)  BY <2>1, <2>5, <2>6, Advances
  <2>8. \A u \in Seq(Bytes), e \in Bytes :
          v = Append(u, e) => t.ws = u /\ Further(s, t, 1 + (IF e # 0 THEN b ELSE 0))
    BY <2>3, <2>5, <2>6 DEF Further, d
  <2>9. Further(s, t, 1) \/ Further(s, t, 1 + b)  BY <2>5, <2>6 DEF Further
  <2> QED  BY <2>6, <2>7, <2>8, <2>9 DEF Kept
<1> QED  BY <1>4, <1>5

-----------------------------------------------------------------------------
(* The addresses of variables.                                             *)
NamesOf(L) == {L[k].name : k \in 1 .. Len(L)}

Layout(W) ==
  IsSeq(W) /\ \A k \in 1 .. Len(W) : W[k].type \in Types /\ W[k].name \in Variables

(* W has further variables behind those of L.                              *)
Extends(L, W) == Len(L) <= Len(W) /\ \A k \in 1 .. Len(L) : W[k] = L[k]

Sums(W, n, g) ==
  g = [k \in 0 .. n |-> IF k = 0 THEN 0 ELSE g[k - 1] + Size(W[k].type)]

IsFirst(W, n, k) == W[k].name = n /\ \A j \in 1 .. k - 1 : W[j].name # n

LEMMA SumsRise ==
  ASSUME NEW W, Layout(W), NEW m \in Nat, m <= Len(W), NEW g, Sums(W, m, g)
  PROVE  /\ \A k \in 0 .. m : g[k] \in Nat
         /\ \A i, k \in 0 .. m : i < k => g[i] < g[k]
<1> DEFINE Fine(k) == g[k] \in Nat /\ \A i \in 0 .. k - 1 : g[i] < g[k]
           T == {k \in 0 .. m : ~Fine(k)}
<1>1. T = {}
  <2> SUFFICES ASSUME T # {} PROVE FALSE
    OBVIOUS
  <2>1. PICK k \in T : \A y \in T : k <= y
    <3>1. T \subseteq Nat  OBVIOUS
    <3> HIDE DEF T
    <3> QED  BY <3>1, Least
  <2>2. k \in 0 .. m /\ ~Fine(k)
        /\ g[k] = IF k = 0 THEN 0 ELSE g[k - 1] + Size(W[k].type)
    BY <2>1 DEF Sums
  <2>3. k # 0  BY <2>2
  <2>4. k - 1 \in 0 .. m /\ k - 1 \notin T  BY <2>1, <2>2, <2>3
  <2>5. Fine(k - 1)  BY <2>4
  <2>6. Size(W[k].type) \in {1, 2}
    <3>1. Len(W) \in Nat  BY LenProperties DEF Layout, IsSeq
    <3>2. k \in 1 .. Len(W)  BY <2>2, <2>3, <3>1
    <3> QED  BY <3>2 DEF Layout, Types, Size
  <2>7. g[k - 1] \in Nat /\ g[k] = g[k - 1] + Size(W[k].type)  BY <2>2, <2>3, <2>5
  <2>8. g[k] \in Nat /\ g[k - 1] < g[k]  BY <2>6, <2>7
  <2>9. \A i \in 0 .. k - 1 : g[i] < g[k]
    <3> SUFFICES ASSUME NEW i \in 0 .. k - 1 PROVE g[i] < g[k]
      OBVIOUS
    <3>1. CASE i = k - 1  BY <2>8, <3>1
    <3>2. CASE i # k - 1
      <4>1. i \in 0 .. k - 1 - 1 /\ i \in 0 .. m /\ i < k  BY <2>2, <2>3, <3>2
      <4>2. g[i] < g[k - 1]  BY <2>5, <4>1
      <4>3. g[i] \in Nat
        <5>1. i \notin T  BY <2>1, <2>2, <4>1
        <5> QED  BY <4>1, <5>1
      <4> QED  BY <2>7, <2>8, <4>2, <4>3
    <3> QED  BY <3>1, <3>2
  <2> QED  BY <2>2, <2>8, <2>9
<1>2. \A k \in 0 .. m : Fine(k)  BY <1>1
<1> QED  BY <1>2

(* g sums the first l of L, h the first m of W, which begin alike.         *)
SumsAlike(L, l, g, W, m, h) ==
  /\ l \in Nat /\ m \in Nat /\ l <= m
  /\ \A k \in 1 .. l : W[k] = L[k]
  /\ Sums(L, l, g)
  /\ Sums(W, m, h)

LEMMA SumsSame ==
  ASSUME NEW L, NEW l, NEW g, NEW W, NEW m, NEW h, SumsAlike(L, l, g, W, m, h)
  PROVE  \A k \in 0 .. l : g[k] = h[k]
<1> USE DEF SumsAlike
<1> DEFINE T == {k \in 0 .. l : g[k] # h[k]}
<1> SUFFICES ASSUME T # {} PROVE FALSE
  OBVIOUS
<1>1. PICK k \in T : \A y \in T : k <= y
  <2>1. T \subseteq Nat  OBVIOUS
  <2> HIDE DEF T
  <2> QED  BY <2>1, Least
<1>2. /\ k \in 0 .. l /\ k \in 0 .. m /\ g[k] # h[k]
      /\ g[k] = IF k = 0 THEN 0 ELSE g[k - 1] + Size(L[k].type)
      /\ h[k] = IF k = 0 THEN 0 ELSE h[k - 1] + Size(W[k].type)
  BY <1>1 DEF Sums
<1>3. k # 0  BY <1>2
<1>4. k - 1 \in 0 .. l /\ k - 1 \notin T /\ k \in 1 .. l  BY <1>1, <1>2, <1>3
<1>5. g[k - 1] = h[k - 1]  BY <1>4
<1> QED  BY <1>2, <1>3, <1>4, <1>5

LEMMA SumsExists ==
  ASSUME NEW W, NEW m \in Nat
  PROVE  \E g : Sums(W, m, g)
<1> DEFINE d == [k \in 1 .. m |-> Size(W[k].type)]
<1>1. PICK g : Adds(d, m, g)  BY AddsExists
<1>2. \A k \in 0 .. m : k # 0 => d[k] = Size(W[k].type)  OBVIOUS
<1> HIDE DEF d
<1>3. Sums(W, m, g)  BY <1>1, <1>2 DEF Adds, Sums
<1> QED  BY <1>3

LEMMA AddrIs ==
  ASSUME NEW W, Layout(W), NEW n \in NamesOf(W)
  PROVE  \E f, g : /\ f \in 1 .. Len(W)
                   /\ IsFirst(W, n, f) /\ Sums(W, Len(W), g)
                   /\ Addr(W, n) = g[f - 1] % 256
<1> DEFINE T == {k \in 1 .. Len(W) : W[k].name = n}
           first == CHOOSE k \in DOMAIN W : IsFirst(W, n, k)
           sum == CHOOSE g : Sums(W, Len(W), g)
<1>1. Len(W) \in Nat /\ DOMAIN W = 1 .. Len(W)
  BY LenProperties DEF Layout, IsSeq
<1>2. first \in 1 .. Len(W) /\ IsFirst(W, n, first)
  <2>1. T \subseteq Nat /\ T # {}  BY <1>1 DEF NamesOf
  <2>2. PICK k \in T : \A y \in T : k <= y  BY <2>1, Least
  <2>3. \A j \in 1 .. k - 1 : j \notin T /\ j \in 1 .. Len(W)  BY <1>1, <2>2
  <2>4. k \in DOMAIN W /\ IsFirst(W, n, k)  BY <1>1, <2>2, <2>3 DEF IsFirst
  <2> QED  BY <1>1, <2>4
<1>3. Sums(W, Len(W), sum)  BY <1>1, SumsExists
<1>4. Addr(W, n) = sum[first - 1] % 256  BY DEF Addr, IsFirst, Sums
<1> QED  BY <1>2, <1>3, <1>4

LEMMA AddrIsByte ==
  ASSUME NEW W, Layout(W), NEW n \in NamesOf(W)
  PROVE  Addr(W, n) \in Bytes
<1> DEFINE m == Len(W)
<1>1. PICK f, g :
         f \in 1 .. m /\ Sums(W, m, g) /\ Addr(W, n) = g[f - 1] % 256
  BY AddrIs
<1>2. m \in Nat /\ m <= Len(W)  BY LenProperties DEF Layout, IsSeq
<1> HIDE DEF m
<1>3. \A k \in 0 .. m : g[k] \in Nat  BY <1>1, <1>2, SumsRise
<1>4. f - 1 \in 0 .. m  BY <1>1, <1>2
<1>5. g[f - 1] \in Nat  BY <1>3, <1>4
<1> QED  BY <1>1, <1>5 DEF Bytes

LEMMA FitsSums ==
  ASSUME NEW W, Layout(W), FitsZeroPage(W), NEW g, Sums(W, Len(W), g)
  PROVE  g[Len(W)] <= 256
<1> DEFINE F == [k \in 1 .. Len(W) |-> Size(W[k].type)]
           n == Len(W)
<1>1. n \in Nat  BY LenProperties DEF Layout, IsSeq
<1>2. Total(F) <= 256  BY DEF FitsZeroPage
<1>3. F = [k \in 1 .. n |-> F[k]] /\ \A k \in 1 .. n : F[k] = Size(W[k].type)  OBVIOUS
<1>4. Sums(W, n, g)  OBVIOUS
<1> HIDE DEF F, n
<1>5. Len(F) = n
  <2>1. Len([k \in 1 .. n |-> F[k]]) = n  BY <1>1, Listed
  <2> QED  BY <1>3, <2>1
<1>6. PICK h : Adds(F, n, h) /\ Total(F) = h[n]  BY <1>1, <1>5, TotalIs
<1>7. Sums(W, n, h)
  <2>1. \A k \in 0 .. n : k # 0 => F[k] = Size(W[k].type)  BY <1>1, <1>3
  <2> QED  BY <1>6, <2>1 DEF Adds, Sums
<1>8. \A k \in 0 .. n : g[k] = h[k]
  <2>1. SumsAlike(W, n, g, W, n, h)  BY <1>1, <1>4, <1>7 DEF SumsAlike
  <2> QED  BY <2>1, SumsSame
<1>9. n \in 0 .. n  BY <1>1
<1> QED  BY <1>2, <1>6, <1>8, <1>9 DEF n

(* While the variables have room, each has an address of its own.          *)
LEMMA AddrsApart ==
  ASSUME NEW W, Layout(W), FitsZeroPage(W), NEW p \in NamesOf(W), NEW q \in NamesOf(W)
  PROVE  /\ Addr(W, p) \in Bytes
         /\ Addr(W, p) = Addr(W, q) => p = q
<1> DEFINE m == Len(W)
<1>0. m \in Nat  BY LenProperties DEF Layout, IsSeq
<1>1. PICK f, g :
         f \in 1 .. m /\ IsFirst(W, p, f) /\ Sums(W, m, g) /\ Addr(W, p) = g[f - 1] % 256
  BY AddrIs
<1>2. PICK e, h :
         e \in 1 .. m /\ IsFirst(W, q, e) /\ Sums(W, m, h) /\ Addr(W, q) = h[e - 1] % 256
  BY AddrIs
<1>3. g[m] <= 256  BY <1>1, FitsSums
<1> HIDE DEF m
<1>4. \A k \in 0 .. m : h[k] = g[k]
  <2>1. SumsAlike(W, m, h, W, m, g)  BY <1>0, <1>1, <1>2 DEF SumsAlike
  <2> QED  BY <2>1, SumsSame
<1>5. /\ \A k \in 0 .. m : g[k] \in Nat
      /\ \A i, k \in 0 .. m : i < k => g[i] < g[k]
  <2>1. m <= Len(W)  BY <1>0 DEF m
  <2> QED  BY <1>0, <1>1, <2>1, SumsRise
<1>6. f - 1 \in 0 .. m /\ e - 1 \in 0 .. m /\ m \in 0 .. m /\ f - 1 < m /\ e - 1 < m
  BY <1>0, <1>1, <1>2
<1>7. g[f - 1] \in Bytes /\ g[e - 1] \in Bytes
  <2>1. g[m] \in Nat /\ g[f - 1] \in Nat /\ g[e - 1] \in Nat  BY <1>5, <1>6
  <2>2. g[f - 1] < g[m] /\ g[e - 1] < g[m]  BY <1>5, <1>6
  <2>3. \A a, b \in Nat : a < b /\ b <= 256 => a \in Bytes  BY DEF Bytes
  <2> QED  BY <1>3, <2>1, <2>2, <2>3
<1>8. Addr(W, p) = g[f - 1] /\ Addr(W, q) = g[e - 1]
  <2>1. \A b \in Bytes : b % 256 = b  BY DEF Bytes
  <2> QED  BY <1>1, <1>2, <1>4, <1>6, <1>7, <2>1
<1>9. g[f - 1] = g[e - 1] => f = e
  <2>1. f \in Int /\ e \in Int  BY <1>1, <1>2
  <2>2. f < e => f - 1 < e - 1  BY <2>1
  <2>3. e < f => e - 1 < f - 1  BY <2>1
  <2>4. f < e \/ e < f \/ f = e  BY <2>1
  <2>5. g[f - 1] \in Nat /\ g[e - 1] \in Nat  BY <1>5, <1>6
  <2>6. f < e => g[f - 1] < g[e - 1]  BY <1>5, <1>6, <2>2
  <2>7. e < f => g[e - 1] < g[f - 1]  BY <1>5, <1>6, <2>3
  <2> QED  BY <2>4, <2>5, <2>6, <2>7
<1> QED  BY <1>1, <1>2, <1>7, <1>8, <1>9 DEF IsFirst

(* A variable keeps its address when others are declared behind it.        *)
LEMMA AddrStays ==
  ASSUME NEW L, Layout(L), NEW W, Layout(W), Extends(L, W), NEW n \in NamesOf(L)
  PROVE  n \in NamesOf(W) /\ Addr(W, n) = Addr(L, n)
<1> DEFINE l == Len(L)
           m == Len(W)
<1>0. l \in Nat /\ m \in Nat  BY LenProperties DEF Layout, IsSeq
<1>1. PICK f, g :
         f \in 1 .. l /\ IsFirst(L, n, f) /\ Sums(L, l, g) /\ Addr(L, n) = g[f - 1] % 256
  BY AddrIs
<1>2. l <= m /\ \A k \in 1 .. l : W[k] = L[k]  BY DEF Extends
<1> HIDE DEF l
<1>3. f \in 1 .. m /\ W[f].name = n  BY <1>0, <1>1, <1>2 DEF IsFirst
<1>4. n \in NamesOf(W)  BY <1>3 DEF NamesOf
<1>5. PICK e, h :
         e \in 1 .. m /\ IsFirst(W, n, e) /\ Sums(W, m, h) /\ Addr(W, n) = h[e - 1] % 256
  BY <1>4, AddrIs
<1> HIDE DEF m
<1>6. \A k \in 0 .. l : g[k] = h[k]
  <2>1. SumsAlike(L, l, g, W, m, h)  BY <1>0, <1>1, <1>2, <1>5 DEF SumsAlike
  <2> QED  BY <2>1, SumsSame
<1>7. e = f
  <2>1. e \in Int /\ f \in Int  BY <1>1, <1>5
  <2>2. ~(f < e)
    <3> SUFFICES ASSUME f < e PROVE FALSE
      OBVIOUS
    <3>1. f \in 1 .. e - 1  BY <1>1, <1>5
    <3> QED  BY <1>3, <1>5, <3>1 DEF IsFirst
  <2>3. ~(e < f)
    <3> SUFFICES ASSUME e < f PROVE FALSE
      OBVIOUS
    <3>0. e \in Int /\ f \in Int /\ e >= 1 /\ f <= l  BY <1>0, <1>1, <1>5
    <3>1. e \in 1 .. f - 1 /\ e \in 1 .. l  BY <1>0, <3>0
    <3> QED  BY <1>1, <1>2, <1>5, <3>1 DEF IsFirst
  <2> QED  BY <2>1, <2>2, <2>3
<1>8. f - 1 \in 0 .. l  BY <1>0, <1>1
<1> QED  BY <1>1, <1>4, <1>5, <1>6, <1>7, <1>8

-----------------------------------------------------------------------------
(* What a body must not have inside, and its parts then have not either.   *)
Lacks(e) == Somewhere(MissesValue, e)

Splits(e) == Somewhere(SplitChar, e)

(* What may go wrong from s on in the cells of e: the stack is too short   *)
(* where a value is missing, or a byte of a literal is executed where a    *)
(* character has two.                                                      *)
Adrift(r, s) == \E t : Reaches(r, s, t) /\ t.status = "lost"

Trouble(e, r, s) ==
  \/ Lacks(e) /\ Stuck(r, s)
  \/ Splits(e) /\ Adrift(r, s)

Clean(e) == ~Somewhere(ReadsAtAddress, e) /\ ~Somewhere(ComparesOrEqual, e)

LEMMA InsideParts ==
  ASSUME NEW e \in Expressions
  PROVE  /\ e \in Inside[e]
         /\ \A k \in 1 .. Len(SubExprs(e)) : Inside[SubExprs(e)[k]] \subseteq Inside[e]
<1>1. Inside[e] = InsideStep(Inside, e)  BY InsideObeys
<1>2. DOMAIN SubExprs(e) = 1 .. Len(SubExprs(e))  BY PartNumbers
<1> QED  BY <1>1, <1>2 DEF InsideStep

(* x is a part of e: all of x is inside e.                                 *)
Within(x, e) == x \in Expressions /\ Inside[x] \subseteq Inside[e]

LEMMA PartsWithin ==
  ASSUME NEW e \in Expressions
  PROVE  /\ e.tag \in BinTags => Within(e.lhs, e) /\ Within(e.rhs, e)
         /\ e.tag \in {"LET_E", "ASSIGN_E", "DEREF_E", "RETURN_E"} => Within(e.e, e)
         /\ e.tag = "DEREF_ASSIGN_E" => Within(e.e1, e) /\ Within(e.e2, e)
         /\ e.tag = "SEQUENCE_E" => \A k \in 1 .. Len(e.list) : Within(e.list[k], e)
         /\ e.tag = "IF_ELSE_E" => /\ Within(e.cond, e) /\ Within(e.if_body, e)
                                   /\ Len(e.else_body) = 1 => Within(e.else_body[1], e)
<1>1. \A k \in 1 .. Len(SubExprs(e)) : Within(SubExprs(e)[k], e)
  BY InsideParts, PartNumbers DEF Within
<1>2. CASE e.tag \in BinTags
  <2>1. SubExprs(e) = <<e.lhs, e.rhs>>  BY <1>2, BinaryParts
  <2>2. Len(SubExprs(e)) = 2 /\ SubExprs(e)[1] = e.lhs /\ SubExprs(e)[2] = e.rhs  BY <2>1
  <2>3. Within(e.lhs, e) /\ Within(e.rhs, e)  BY <1>1, <2>2
  <2> QED  BY <1>2, <2>3 DEF BinTags
<1>3. CASE e.tag \in {"LET_E", "ASSIGN_E", "DEREF_E", "RETURN_E"}
  <2>1. SubExprs(e) = <<e.e>>  BY <1>3, OnePart
  <2>2. Len(SubExprs(e)) = 1 /\ SubExprs(e)[1] = e.e  BY <2>1
  <2>3. Within(e.e, e)  BY <1>1, <2>2
  <2> QED  BY <1>3, <2>3 DEF BinTags
<1>4. CASE e.tag = "DEREF_ASSIGN_E"
  <2>1. SubExprs(e) = <<e.e1, e.e2>>  BY <1>4, DerefAssignParts
  <2>2. Len(SubExprs(e)) = 2 /\ SubExprs(e)[1] = e.e1 /\ SubExprs(e)[2] = e.e2  BY <2>1
  <2>3. Within(e.e1, e) /\ Within(e.e2, e)  BY <1>1, <2>2
  <2> QED  BY <1>4, <2>3 DEF BinTags
<1>5. CASE e.tag = "SEQUENCE_E"
  <2>1. \A k \in 1 .. Len(e.list) : Within(e.list[k], e)  BY <1>1, <1>5, SequenceParts
  <2> QED  BY <1>5, <2>1 DEF BinTags
<1>6. CASE e.tag = "IF_ELSE_E"
  <2>1. /\ Len(SubExprs(e)) = 2 + Len(e.else_body)
        /\ SubExprs(e)[1] = e.cond /\ SubExprs(e)[2] = e.if_body
        /\ Len(e.else_body) \in {0, 1}
        /\ Len(e.else_body) = 1 => SubExprs(e)[3] = e.else_body[1]
    BY <1>6, IfElseParts
  <2>2. Within(e.cond, e) /\ Within(e.if_body, e)  BY <1>1, <2>1
  <2>3. Len(e.else_body) = 1 => Within(e.else_body[1], e)  BY <1>1, <2>1
  <2> QED  BY <1>6, <2>2, <2>3 DEF BinTags
<1> QED  BY <1>2, <1>3, <1>4, <1>5, <1>6

LEMMA PartsShare ==
  ASSUME NEW e, NEW x, Within(x, e)
  PROVE  /\ Lacks(x) => Lacks(e)
         /\ StaysOnTrack(e) => StaysOnTrack(x)
         /\ Clean(e) => Clean(x)
         /\ \A r, s : Trouble(x, r, s) => Trouble(e, r, s)
<1>1. \A z \in Inside[x] : z \in Inside[e]  BY DEF Within
<1>2. Splits(x) => Splits(e)  BY <1>1 DEF Splits, Somewhere
<1>3. Lacks(x) => Lacks(e)  BY <1>1 DEF Lacks, Somewhere
<1>4. \A r, s : Trouble(x, r, s) => Trouble(e, r, s)  BY <1>2, <1>3 DEF Trouble
<1> QED  BY <1>1, <1>3, <1>4 DEF StaysOnTrack, Clean, Somewhere

LEMMA SelfInside ==
  ASSUME NEW e \in Expressions
  PROVE  /\ MissesValue(e) => Lacks(e)
         /\ SplitChar(e) => Splits(e)
         /\ StaysOnTrack(e) => ~FarJump(e)
         /\ Clean(e) => ~ReadsAtAddress(e) /\ ~ComparesOrEqual(e)
<1>1. e \in Inside[e]  BY InsideParts
<1> QED  BY <1>1 DEF Lacks, Splits, StaysOnTrack, Clean, Somewhere

-----------------------------------------------------------------------------
(* What the cells of an expression should do on the machine.               *)

(* W, a layout with room for its variables, begins with L.                 *)
Fits(L, W) == Layout(L) /\ Layout(W) /\ FitsZeroPage(W) /\ Extends(L, W)

(* The machine in state s holds the variables of W and has sent what the   *)
(* state x of the language says.                                           *)
Mirrors(W, x, s) ==
  /\ x \in States
  /\ s.out = x.out
  /\ \A n \in NamesOf(W) : s.zp[Addr(W, n)] = x.env[n]

(* t is how e, compiled when the variables of L were declared, leaves the  *)
(* machine it found in s.  ok says that no variable is used undeclared.    *)
Leaves(e, L, ok, s, t) ==
  ~Lacks(e) =>
    /\ HasValue[e] => \E b \in Bytes : t.ws = Append(s.ws, b)
    /\ IsStatement[e] => t.ws = s.ws
    /\ ok /\ Clean(e) =>
         \A W, x : Fits(L, W) /\ Mirrors(W, x, s) =>
           /\ Mirrors(W, Eval[e][x], t)
           /\ HasValue[e] => t.ws = Append(s.ws, Eval[e][x].val)

(* From s the machine comes to t, n cells further on.                      *)
Comes(r, s, t, n) == Further(s, t, n) /\ Reaches(r, s, t)

Behaves(e, c, L, ok) ==
  \A r \in CodeType, s \in Running :
    At(r, s.at, c) /\ StaysOnTrack(e) =>
      \/ Trouble(e, r, s)
      \/ \E t : Comes(r, s, t, Len(c)) /\ Leaves(e, L, ok, s, t)

Good(e, c, L, ok) ==
  /\ c \in CodeType
  /\ Len(c) = CodeLen[e]
  /\ Lets[e] \subseteq NamesOf(L)
  /\ Behaves(e, c, L, ok)

LEMMA ComesOn ==
  ASSUME NEW r, NEW s \in Running, NEW t, NEW n \in Nat, Comes(r, s, t, n),
         NEW u, NEW m \in Nat, Comes(r, t, u, m)
  PROVE  Comes(r, s, u, n + m)
<1>1. s.at \in Nat  BY DEF Running
<1> QED  BY <1>1, ReachesOn DEF Comes, Further

LEMMA StuckLater ==
  ASSUME NEW r, NEW s, NEW t, Reaches(r, s, t), Stuck(r, t)
  PROVE  Stuck(r, s)
BY ReachesOn DEF Stuck

LEMMA TroubleLater ==
  ASSUME NEW r, NEW s, NEW t, Reaches(r, s, t), NEW e, Trouble(e, r, t)
  PROVE  Trouble(e, r, s)
<1>1. Stuck(r, t) => Stuck(r, s)  BY ReachesOn DEF Stuck
<1>2. Adrift(r, t) => Adrift(r, s)  BY ReachesOn DEF Adrift
<1> QED  BY <1>1, <1>2 DEF Trouble

LEMMA GoodPart ==
  ASSUME NEW e, NEW c, NEW L, NEW ok, Good(e, c, L, ok),
         NEW r \in CodeType, NEW s \in Running, At(r, s.at, c), StaysOnTrack(e)
  PROVE  \/ Trouble(e, r, s)
         \/ \E t : Comes(r, s, t, Len(c)) /\ Leaves(e, L, ok, s, t)
BY DEF Good, Behaves

(* Variables declared behind the others change nothing.                    *)
LEMMA ExtendsOn ==
  ASSUME NEW K, Layout(K), NEW L, Layout(L), Extends(K, L), NEW W, Fits(L, W)
  PROVE  Fits(K, W)
<1>1. Len(K) \in Nat /\ Len(L) \in Nat /\ Len(W) \in Nat
  BY LenProperties DEF Layout, IsSeq, Fits
<1>2. Extends(K, W)  BY <1>1 DEF Extends, Fits
<1> QED  BY <1>2 DEF Fits

LEMMA GoodStays ==
  ASSUME NEW e, NEW c, NEW K, NEW ok, Good(e, c, K, ok), Layout(K),
         NEW L, Layout(L), Extends(K, L)
  PROVE  Good(e, c, L, ok)
<1>1. Lets[e] \subseteq NamesOf(L)
  <2>1. NamesOf(K) \subseteq NamesOf(L)
    <3>1. Len(K) \in Nat /\ Len(L) \in Nat /\ Len(K) <= Len(L)
      BY LenProperties DEF Layout, IsSeq, Extends
    <3>2. \A k \in 1 .. Len(K) : k \in 1 .. Len(L) /\ L[k] = K[k]
      BY <3>1 DEF Extends
    <3> QED  BY <3>2 DEF NamesOf
  <2> QED  BY <2>1 DEF Good
<1>2. ASSUME NEW s, NEW t, Leaves(e, K, ok, s, t)
      PROVE  Leaves(e, L, ok, s, t)
  <2>1. \A W : Fits(L, W) => Fits(K, W)  BY ExtendsOn
  <2> QED  BY <1>2, <2>1 DEF Leaves
<1>3. Behaves(e, c, L, ok)
  <2> SUFFICES ASSUME NEW r \in CodeType, NEW s \in Running,
                      At(r, s.at, c), StaysOnTrack(e), ~Trouble(e, r, s)
               PROVE  \E t : Comes(r, s, t, Len(c)) /\ Leaves(e, L, ok, s, t)
    BY DEF Behaves
  <2>1. PICK t : Comes(r, s, t, Len(c)) /\ Leaves(e, K, ok, s, t)  BY GoodPart
  <2> QED  BY <1>2, <2>1
<1> QED  BY <1>1, <1>3 DEF Good

LEMMA MirrorKept ==
  ASSUME NEW W, NEW x, NEW s, Mirrors(W, x, s), NEW t, Kept(s, t),
         NEW y \in States, y.env = x.env, y.out = x.out
  PROVE  Mirrors(W, y, t)
BY DEF Mirrors, Kept

LEMMA AppendSame ==
  ASSUME NEW w \in Seq(Bytes), NEW b \in Bytes, NEW v, Append(w, b) = Append(w, v)
  PROVE  v = b
<1>1. Append(w, b)[Len(w) + 1] = b  BY AppendProperties
<1>2. Append(w, v)[Len(w) + 1] = v
  <2>1. w \in Seq(Bytes \union {v})  OBVIOUS
  <2> QED  BY <2>1, AppendProperties
<1> QED  BY <1>1, <1>2

-----------------------------------------------------------------------------
(* How many cells there are.                                               *)
LEMMA TotalSmall ==
  ASSUME NEW d, Len(d) \in 0 .. 3, \A k \in 1 .. Len(d) : d[k] \in Nat
  PROVE  /\ Len(d) = 0 => Total(d) = 0
         /\ Len(d) = 1 => Total(d) = d[1]
         /\ Len(d) = 2 => Total(d) = d[1] + d[2]
         /\ Len(d) = 3 => Total(d) = d[1] + d[2] + d[3]
<1> DEFINE n == Len(d)
<1>0. n \in Nat  OBVIOUS
<1>1. PICK g : Adds(d, n, g) /\ Total(d) = g[n]
  BY <1>0, TotalIs
<1>2. \A k \in 0 .. n : g[k] = IF k = 0 THEN 0 ELSE g[k - 1] + d[k]
  BY <1>1 DEF Adds
<1>3. g[0] = 0  BY <1>0, <1>2
<1>4. n >= 1 => g[1] = d[1] /\ d[1] \in Nat
  <2>1. n >= 1 => 1 \in 0 .. n /\ 1 \in 1 .. n  BY <1>0
  <2>2. n >= 1 => g[1] = g[1 - 1] + d[1] /\ d[1] \in Nat  BY <1>2, <2>1
  <2> QED  BY <1>3, <2>2
<1>5. n >= 2 => g[2] = d[1] + d[2] /\ d[2] \in Nat
  <2>1. n >= 2 => 2 \in 0 .. n /\ 2 \in 1 .. n /\ n >= 1  BY <1>0
  <2>2. n >= 2 => g[2] = g[2 - 1] + d[2] /\ d[2] \in Nat  BY <1>2, <2>1
  <2> QED  BY <1>4, <2>1, <2>2
<1>6. n >= 3 => g[3] = d[1] + d[2] + d[3]
  <2>1. n >= 3 => 3 \in 0 .. n /\ n >= 2  BY <1>0
  <2>2. n >= 3 => g[3] = g[3 - 1] + d[3]  BY <1>2, <2>1
  <2> QED  BY <1>5, <2>1, <2>2
<1>7. Total(d) = g[n]  BY <1>1
<1> HIDE DEF n
<1>8. (n = 0 => Total(d) = 0) /\ (n = 1 => Total(d) = d[1])
  BY <1>0, <1>3, <1>4, <1>7
<1>9. (n = 2 => Total(d) = d[1] + d[2]) /\ (n = 3 => Total(d) = d[1] + d[2] + d[3])
  BY <1>0, <1>5, <1>6, <1>7
<1> QED  BY <1>8, <1>9 DEF n

LEMMA CellCount ==
  ASSUME NEW e \in Expressions, Len(SubExprs(e)) \in 0 .. 3
  PROVE  LET n == Len(SubExprs(e)) IN
         /\ n = 0 => CodeLen[e] = OwnCells(e)
         /\ n = 1 => CodeLen[e] = OwnCells(e) + CodeLen[SubExprs(e)[1]]
         /\ n = 2 => CodeLen[e] = OwnCells(e) + (CodeLen[SubExprs(e)[1]] + CodeLen[SubExprs(e)[2]])
         /\ n = 3 => CodeLen[e] = OwnCells(e) + (CodeLen[SubExprs(e)[1]] + CodeLen[SubExprs(e)[2]]
                                                   + CodeLen[SubExprs(e)[3]])
<1> DEFINE d == PartLens(CodeLen, e)
           n == Len(SubExprs(e))
<1>1. /\ Len(d) = n
      /\ \A k \in 1 .. n : d[k] = CodeLen[SubExprs(e)[k]]
  BY PartLensAre
<1>2. \A k \in 1 .. n : d[k] \in Nat  BY <1>1, PartNumbers, CodeLenObeys
<1>3. CodeLen[e] = OwnCells(e) + Total(d)  BY CodeLenObeys DEF CodeLenStep
<1>4. OwnCells(e) \in Nat  BY DEF OwnCells
<1> HIDE DEF d
<1>5. n \in 0 .. 3 /\ Len(d) \in 0 .. 3 /\ \A k \in 1 .. Len(d) : d[k] \in Nat
  BY <1>1, <1>2
<1>6. /\ n = 0 => Total(d) = 0
      /\ n = 1 => Total(d) = d[1]
      /\ n = 2 => Total(d) = d[1] + d[2]
      /\ n = 3 => Total(d) = d[1] + d[2] + d[3]
  BY <1>1, <1>5, TotalSmall
<1> HIDE DEF n
<1>7. /\ n >= 1 => d[1] = CodeLen[SubExprs(e)[1]]
      /\ n >= 2 => d[2] = CodeLen[SubExprs(e)[2]]
      /\ n >= 3 => d[3] = CodeLen[SubExprs(e)[3]]
  <2>1. n >= 1 => 1 \in 1 .. n  BY <1>5
  <2>2. n >= 2 => 2 \in 1 .. n  BY <1>5
  <2>3. n >= 3 => 3 \in 1 .. n  BY <1>5
  <2> QED  BY <1>1, <2>1, <2>2, <2>3
<1> QED  BY <1>3, <1>4, <1>5, <1>6, <1>7 DEF n

LEMMA Beside ==
  ASSUME NEW a, NEW b
  PROVE  /\ <<a>> \o <<b>> = <<a, b>>
         /\ \A c : <<a>> \o <<b, c>> = <<a, b, c>>
<1>1. ASSUME NEW S, NEW p \in Seq(S), NEW q \in Seq(S), NEW t \in Seq(S),
             Len(t) = Len(p) + Len(q),
             \A k \in 1 .. Len(p) + Len(q) : t[k] = IF k <= Len(p) THEN p[k] ELSE q[k - Len(p)]
      PROVE  p \o q = t
  <2>1. /\ p \o q \in Seq(S) /\ Len(p \o q) = Len(p) + Len(q)
        /\ \A k \in 1 .. Len(p) + Len(q) : (p \o q)[k] = IF k <= Len(p) THEN p[k] ELSE q[k - Len(p)]
    BY <1>1, ConcatProperties
  <2>2. \A k \in 1 .. Len(p) + Len(q) : (p \o q)[k] = t[k]  BY <1>1, <2>1
  <2> QED  BY <1>1, <2>1, <2>2, SeqEqual
<1>2. <<a>> \o <<b>> = <<a, b>>
  <2> DEFINE p == <<a>>
             q == <<b>>
             t == <<a, b>>
  <2>1. p \in Seq({a, b}) /\ q \in Seq({a, b}) /\ t \in Seq({a, b})
        /\ Len(p) = 1 /\ Len(q) = 1 /\ Len(t) = 2
        /\ p[1] = a /\ q[1] = b /\ t[1] = a /\ t[2] = b
    OBVIOUS
  <2> HIDE DEF p, q, t
  <2>2. \A k \in 1 .. Len(p) + Len(q) : t[k] = IF k <= Len(p) THEN p[k] ELSE q[k - Len(p)]
    BY <2>1
  <2>3. Len(t) = Len(p) + Len(q)  BY <2>1
  <2>4. p \o q = t  BY <1>1, <2>1, <2>2, <2>3
  <2> QED  BY <2>4 DEF p, q, t
<1>3. ASSUME NEW c PROVE <<a>> \o <<b, c>> = <<a, b, c>>
  <2> DEFINE p == <<a>>
             q == <<b, c>>
             t == <<a, b, c>>
  <2>1. p \in Seq({a, b, c}) /\ q \in Seq({a, b, c}) /\ t \in Seq({a, b, c})
        /\ Len(p) = 1 /\ Len(q) = 2 /\ Len(t) = 3
        /\ p[1] = a /\ q[1] = b /\ q[2] = c /\ t[1] = a /\ t[2] = b /\ t[3] = c
    OBVIOUS
  <2> HIDE DEF p, q, t
  <2>2. \A k \in 1 .. Len(p) + Len(q) : t[k] = IF k <= Len(p) THEN p[k] ELSE q[k - Len(p)]
    BY <2>1
  <2>3. Len(t) = Len(p) + Len(q)  BY <2>1
  <2>4. p \o q = t  BY <1>1, <2>1, <2>2, <2>3
  <2> QED  BY <2>4 DEF p, q, t
<1> QED  BY <1>2, <1>3

(* Numbers below this bound have one byte in a listing.                    *)
Short == {n \in Nat : n < 4096}

(* The cells that push a byte.                                             *)
LEMMA ByteCells ==
  ASSUME NEW n \in Short
  PROVE  /\ Byte(n) = <<Inst("LIT"), Raw(n % 256)>>
         /\ Byte(n) \in CodeType /\ Len(Byte(n)) = 2
         /\ n % 256 \in Bytes
         /\ n \in Bytes => n % 256 = n
<1>0. n \in Nat /\ n < 4096  BY DEF Short
<1>1. Number(n) = <<Raw(n % 256)>>  BY <1>0 DEF Number
<1>2. Byte(n) = <<Inst("LIT"), Raw(n % 256)>>  BY <1>1, Beside DEF Byte
<1>3. Byte(n) \in CodeType  BY <1>0, ByteIsCode
<1>4. Len(Byte(n)) = 2  BY <1>2
<1>5. n % 256 \in Bytes  BY <1>0 DEF Bytes
<1>6. n \in Bytes => n % 256 = n  BY <1>0 DEF Bytes
<1> QED  BY <1>2, <1>3, <1>4, <1>5, <1>6

LEMMA PushRuns ==
  ASSUME NEW r \in CodeType, NEW s \in Running, NEW n \in Short,
         At(r, s.at, Byte(n))
  PROVE  \E t : Comes(r, s, t, 2) /\ Kept(s, t) /\ t.ws = Append(s.ws, n % 256)
<1>0. Byte(n) = <<Inst("LIT"), Raw(n % 256)>>  BY ByteCells
<1>1. At(r, s.at, <<Inst("LIT"), Raw(n % 256)>>)  BY <1>0
<1> DEFINE b == n % 256
<1>2. b \in Bytes /\ At(r, s.at, <<Inst("LIT"), Raw(b)>>)
  <2>1. b \in Bytes  BY ByteCells
  <2> QED  BY <1>1, <2>1
<1> HIDE DEF b
<1>3. PICK t : /\ Further(s, t, 2) /\ Reaches(r, s, t) /\ Kept(s, t)
               /\ t.ws = Append(s.ws, b)
  BY <1>2, LitRuns
<1> QED  BY <1>3 DEF Comes, b

LEMMA OneInst ==
  ASSUME NEW o \in Opcodes
  PROVE  <<Inst(o)>> \in CodeType /\ Len(<<Inst(o)>>) = 1
BY InstIsCode

LEMMA NoParts ==
  ASSUME NEW e \in Expressions, SubExprs(e) = <<>>
  PROVE  /\ CodeLen[e] = OwnCells(e)
         /\ Lets[e] = IF e.tag = "LET_E" THEN {e.var} ELSE {}
<1>1. Len(SubExprs(e)) = 0  OBVIOUS
<1>2. CodeLen[e] = OwnCells(e)  BY <1>1, CellCount
<1>3. Lets[e] = LetsStep(Lets, e)  BY LetsObeys
<1>4. DOMAIN SubExprs(e) = {}  OBVIOUS
<1> QED  BY <1>2, <1>3, <1>4 DEF LetsStep

-----------------------------------------------------------------------------
(* One lemma per case of compile_expr.                                     *)
LEMMA NumberGood ==
  ASSUME NEW e \in Expressions, e.tag = "NUMBER_E", NEW L, NEW ok
  PROVE  Good(e, Literal(e.value), L, ok)
<1> DEFINE v == e.value
           c == Literal(v)
<1>1. v \in Nat  BY TreesAssumption DEF TreesAssumption
<1>2. SubExprs(e) = <<>>  BY DEF SubExprs, BinTags
<1>3. OwnCells(e) = IF v < 4096 THEN 2 ELSE 3  BY DEF OwnCells, BinTags
<1>4. HasValue[e] <=> v < 4096
  <2>1. HasValue[e] = HasValueStep(HasValue, e)  BY HasValueObeys
  <2> QED  BY <2>1 DEF HasValueStep, BinTags
<1>5. ~IsStatement[e]
  <2>1. IsStatement[e] = IsStatementStep(IsStatement, e)  BY IsStatementObeys
  <2> QED  BY <2>1 DEF IsStatementStep
<1>6. c \in CodeType  BY <1>1, LiteralIsCode
<1>7. CodeLen[e] = OwnCells(e) /\ Lets[e] = {}
  <2>1. CodeLen[e] = OwnCells(e) /\ Lets[e] = IF e.tag = "LET_E" THEN {e.var} ELSE {}
    BY <1>2, NoParts
  <2> QED  BY <2>1
<1>8. \A x \in States : /\ Eval[e][x] \in States
                        /\ Eval[e][x].env = x.env /\ Eval[e][x].out = x.out
                        /\ Eval[e][x].val = v % 256
  <2> SUFFICES ASSUME NEW x \in States
               PROVE  /\ Eval[e][x] \in States
                      /\ Eval[e][x].env = x.env /\ Eval[e][x].out = x.out
                      /\ Eval[e][x].val = v % 256
    OBVIOUS
  <2>0. Eval[e][x] = After(Eval, e, x)  BY EvalObeys
  <2>1. Eval[e][x] = [x EXCEPT !.val = v % 256]  BY <2>0 DEF After, BinTags
  <2> DEFINE b == v % 256
  <2>2. b \in Values  BY <1>1 DEF Values, NoValue
  <2> HIDE DEF b
  <2>3. LET y == [x EXCEPT !.val = b] IN
        y \in States /\ y.env = x.env /\ y.out = x.out /\ y.val = b
    BY <2>2, ValueSet
  <2> QED  BY <2>1, <2>3 DEF b
<1>9. ASSUME NEW s, NEW t, Kept(s, t), HasValue[e] => t.ws = Append(s.ws, v % 256)
      PROVE  Leaves(e, L, ok, s, t)
  <2> HIDE DEF v, c
  <2>1. ASSUME NEW W, NEW x, Mirrors(W, x, s)
        PROVE  Mirrors(W, Eval[e][x], t)
    <3> DEFINE y == Eval[e][x]
    <3>1. x \in States  BY <2>1 DEF Mirrors
    <3>2. y \in States /\ y.env = x.env /\ y.out = x.out  BY <1>8, <3>1
    <3> HIDE DEF y
    <3>3. Mirrors(W, y, t)  BY <1>9, <2>1, <3>2, MirrorKept
    <3> QED  BY <3>3 DEF y
  <2>2. \A W, x : Mirrors(W, x, s) => Eval[e][x].val = v % 256  BY <1>8 DEF Mirrors
  <2>3. v % 256 \in Bytes  BY <1>1 DEF Bytes
  <2> QED  BY <1>5, <1>9, <2>1, <2>2, <2>3 DEF Leaves
<1>10. CASE v < 4096
  <2>1. v \in Short  BY <1>1, <1>10 DEF Short
  <2>2. c = Byte(v)  BY <1>10 DEF Literal, Byte
  <2> HIDE DEF v, c
  <2>3. Len(c) = 2  BY <2>1, <2>2, ByteCells
  <2>4. Len(c) = CodeLen[e]  BY <1>3, <1>7, <1>10, <2>3
  <2>5. Behaves(e, c, L, ok)
    <3> SUFFICES ASSUME NEW r \in CodeType, NEW s \in Running, At(r, s.at, c)
                 PROVE  \E t : Comes(r, s, t, Len(c)) /\ Leaves(e, L, ok, s, t)
      BY DEF Behaves
    <3>1. PICK t : Comes(r, s, t, 2) /\ Kept(s, t) /\ t.ws = Append(s.ws, v % 256)
      BY <2>1, <2>2, PushRuns
    <3> QED  BY <1>9, <2>3, <3>1
  <2> QED  BY <1>6, <1>7, <2>4, <2>5 DEF Good, c, v
<1>11. CASE ~(v < 4096)
  <2> DEFINE p == (v % 4096) % 256
             q == v % 256
  <2>1. p \in Bytes /\ q \in Bytes
    <3> HIDE DEF v
    <3>1. v % 4096 \in Nat  BY <1>1
    <3> DEFINE d == v % 4096
    <3> HIDE DEF d
    <3>2. d % 256 \in 0 .. 255 /\ v % 256 \in 0 .. 255  BY <1>1, <3>1 DEF d
    <3> QED  BY <3>2 DEF Bytes, d
  <2>2. Number(v) = <<Raw(p), Raw(q)>>  BY <1>11 DEF Number
  <2>8. c = <<Inst("LIT2")>> \o Number(v)  BY <1>11 DEF Literal
  <2> HIDE DEF p, q, c, v
  <2>3. c = <<Inst("LIT2")>> \o <<Raw(p), Raw(q)>>  BY <2>2, <2>8
  <2>4. c = <<Inst("LIT2"), Raw(p), Raw(q)>>  BY <2>3, Beside
  <2>5. Len(c) = 3  BY <2>4
  <2>6. Len(c) = CodeLen[e]  BY <1>3, <1>7, <1>11, <2>5
  <2>7. Behaves(e, c, L, ok)
    <3> SUFFICES ASSUME NEW r \in CodeType, NEW s \in Running, At(r, s.at, c)
                 PROVE  \E t : Comes(r, s, t, Len(c)) /\ Leaves(e, L, ok, s, t)
      BY DEF Behaves
    <3>1. PICK t : Further(s, t, 3) /\ Reaches(r, s, t) /\ Kept(s, t)
      <4>1. At(r, s.at, <<Inst("LIT2"), Raw(p), Raw(q)>>)  BY <2>4
      <4> QED  BY <2>1, <4>1, Lit2Runs
    <3>2. ~HasValue[e]  BY <1>4, <1>11
    <3> QED  BY <1>9, <2>5, <3>1, <3>2 DEF Comes
  <2> QED  BY <1>6, <1>7, <2>6, <2>7 DEF Good, c, v
<1> QED  BY <1>10, <1>11

(* The cells of a character: two if it is ASCII, or else a literal with a  *)
(* byte too many.                                                          *)
LEMMA CharCells ==
  ASSUME NEW n \in -128 .. 127
  PROVE  /\ n >= 0 => Widened(n) = n /\ n % 256 = n /\ n \in Short
         /\ n < 0 => \E h, l \in Bytes : Byte(Widened(n)) = <<Inst("LIT"), Raw(h), Raw(l)>>
<1>0. ASSUME NEW m \in Int, m < 0, m >= -128
      PROVE  m % 65536 = m + 65536
  BY <1>0
<1>1. ASSUME n >= 0 PROVE Widened(n) = n /\ n % 256 = n /\ n \in Short
  <2>1. n \in 0 .. 127  BY <1>1
  <2> QED  BY <2>1 DEF Widened, Short
<1>2. ASSUME n < 0
      PROVE  \E h, l \in Bytes : Byte(Widened(n)) = <<Inst("LIT"), Raw(h), Raw(l)>>
  <2> DEFINE v == Widened(n)
             h == (v % 4096) % 256
             l == v % 256
  <2>1. v = n + 65536 /\ v \in Nat /\ ~(v < 4096)
    <3>1. n \in Int /\ n < 0 /\ n >= -128  BY <1>2
    <3>2. n % 65536 = n + 65536  BY <1>0, <3>1
    <3> QED  BY <3>1, <3>2 DEF Widened
  <2>2. Number(v) = <<Raw(h), Raw(l)>>
    <3> HIDE DEF h, l
    <3> QED  BY <2>1 DEF Number, h, l
  <2>3. h \in Bytes /\ l \in Bytes
    <3> HIDE DEF v
    <3> DEFINE d == v % 4096
    <3>1. d \in Nat  BY <2>1
    <3> HIDE DEF d
    <3>2. d % 256 \in 0 .. 255 /\ v % 256 \in 0 .. 255  BY <2>1, <3>1
    <3> QED  BY <3>2 DEF Bytes, d
  <2>4. Byte(v) = <<Inst("LIT")>> \o Number(v)  BY DEF Byte
  <2> HIDE DEF v, h, l
  <2>5. Byte(v) = <<Inst("LIT"), Raw(h), Raw(l)>>  BY <2>2, <2>4, Beside
  <2> QED  BY <2>3, <2>5 DEF v
<1> QED  BY <1>1, <1>2

(* A literal with a byte too many: the machine comes to that byte.         *)
LEMMA SecondByteRuns ==
  ASSUME NEW r \in CodeType, NEW s \in Running, NEW h \in Bytes, NEW l \in Bytes,
         At(r, s.at, <<Inst("LIT"), Raw(h), Raw(l)>>)
  PROVE  Adrift(r, s)
<1> DEFINE c == <<Inst("LIT"), Raw(h), Raw(l)>>
<1>1. s.at \in Nat /\ Len(r) \in Nat  BY LenProperties DEF Running
<1>2. /\ s.at + 1 \in 1 .. Len(r) /\ r[s.at + 1] = Inst("LIT")
      /\ s.at + 2 \in 1 .. Len(r) /\ r[s.at + 2] = Raw(h)
      /\ s.at + 3 \in 1 .. Len(r) /\ r[s.at + 3] = Raw(l)
  <2>1. Len(c) = 3 /\ c[1] = Inst("LIT") /\ c[2] = Raw(h) /\ c[3] = Raw(l)  OBVIOUS
  <2>2. \A k \in 1 .. 3 : s.at + k \in 1 .. Len(r) /\ r[s.at + k] = c[k]
    <3> HIDE DEF c
    <3> QED  BY <2>1 DEF At, c
  <2> HIDE DEF c
  <2> QED  BY <2>1, <2>2
<1>3. PICK t : Comes(r, s, t, 2)
  <2> DEFINE d == <<Inst("LIT"), Raw(h)>>
  <2>1. Len(d) = 2 /\ d[1] = Inst("LIT") /\ d[2] = Raw(h)  OBVIOUS
  <2>2. At(r, s.at, d)
    <3> HIDE DEF d
    <3>1. \A k \in 1 .. 2 : k = 1 \/ k = 2  OBVIOUS
    <3> QED  BY <1>2, <2>1, <3>1 DEF At
  <2>3. \E t : Further(s, t, 2) /\ Reaches(r, s, t)  BY <2>2, LitRuns
  <2> QED  BY <2>3 DEF Comes
<1>4. t \in Running /\ t.at = s.at + 2 /\ Reaches(r, s, t) /\ t.status = "running"
  BY <1>3 DEF Comes, Further, Running
<1>5. Goes(r, t) = [t EXCEPT !.status = "lost"]
  <2>1. t.at \in Nat /\ t.at < Len(r) /\ t.at + 1 = s.at + 3  BY <1>1, <1>2, <1>4
  <2>2. r[t.at + 1].op = "RAW"  BY <1>2, <2>1 DEF Raw
  <2>3. ~(t.at >= Len(r))  BY <1>1, <2>1
  <2> QED  BY <2>2, <2>3 DEF Goes
<1>6. Goes(r, t).status = "lost"  BY <1>5 DEF Running
<1>7. Forward(t, Goes(r, t))  BY <1>1, <1>4, <1>6 DEF Forward
<1>8. Reaches(r, t, Goes(r, t))  BY <1>4, <1>7, ReachesNext
<1>9. Reaches(r, s, Goes(r, t))  BY <1>4, <1>8, ReachesOn
<1> QED  BY <1>6, <1>9 DEF Adrift

LEMMA CharGood ==
  ASSUME NEW e \in Expressions, e.tag = "CHAR_LITERAL_E", NEW L, NEW ok
  PROVE  Good(e, Byte(Widened(e.c)), L, ok)
<1> DEFINE v == e.c
           c == Byte(Widened(v))
<1>1. v \in -128 .. 127  BY TreesAssumption DEF TreesAssumption
<1>2. SubExprs(e) = <<>> /\ OwnCells(e) = IF v < 0 THEN 3 ELSE 2
  <2>1. SubExprs(e) = <<>>  BY DEF SubExprs, BinTags
  <2>2. OwnCells(e) = IF v < 0 THEN 3 ELSE 2  BY DEF OwnCells, BinTags
  <2> QED  BY <2>1, <2>2
<1>3. ~IsStatement[e]
  <2>1. IsStatement[e] = IsStatementStep(IsStatement, e)  BY IsStatementObeys
  <2> QED  BY <2>1 DEF IsStatementStep
<1>4. CodeLen[e] = (IF v < 0 THEN 3 ELSE 2) /\ Lets[e] = {}
  <2>1. CodeLen[e] = OwnCells(e) /\ Lets[e] = IF e.tag = "LET_E" THEN {e.var} ELSE {}
    BY <1>2, NoParts
  <2> QED  BY <1>2, <2>1
<1>5. v < 0 => Splits(e)  BY SelfInside DEF SplitChar
<1>6. \A x \in States : /\ Eval[e][x] \in States
                        /\ Eval[e][x].env = x.env /\ Eval[e][x].out = x.out
                        /\ Eval[e][x].val = v % 256
  <2> SUFFICES ASSUME NEW x \in States
               PROVE  /\ Eval[e][x] \in States
                      /\ Eval[e][x].env = x.env /\ Eval[e][x].out = x.out
                      /\ Eval[e][x].val = v % 256
    OBVIOUS
  <2> DEFINE b == v % 256
  <2>1. Eval[e][x] = [x EXCEPT !.val = b]  BY EvalObeys DEF After, BinTags
  <2>2. b \in Values  BY <1>1 DEF Values, NoValue
  <2> HIDE DEF v, b
  <2>3. Eval[e][x].val = b  BY <2>1, <2>2, ValueSet
  <2> QED  BY <2>1, <2>2, <2>3, ValueSet DEF b
<1> HIDE DEF c, v
<1>7. CASE v >= 0
  <2>1. Widened(v) = v /\ v % 256 = v /\ v \in Short /\ v \in Bytes
    <3>1. Widened(v) = v /\ v % 256 = v /\ v \in Short  BY <1>1, <1>7, CharCells
    <3>2. v \in Bytes  BY <1>1, <1>7 DEF Bytes
    <3> QED  BY <3>1, <3>2
  <2>2. c = Byte(v)  BY <2>1 DEF c
  <2>3. c \in CodeType /\ Len(c) = 2  BY <2>1, <2>2, ByteCells
  <2>4. CodeLen[e] = 2  BY <1>1, <1>4, <1>7
  <2>5. Behaves(e, c, L, ok)
    <3> SUFFICES ASSUME NEW r \in CodeType, NEW s \in Running, At(r, s.at, c)
                 PROVE  \E t : Comes(r, s, t, Len(c)) /\ Leaves(e, L, ok, s, t)
      BY DEF Behaves
    <3>1. PICK t : Comes(r, s, t, 2) /\ Kept(s, t) /\ t.ws = Append(s.ws, v)
      BY <2>1, <2>2, PushRuns
    <3>2. ASSUME NEW W, NEW x, Mirrors(W, x, s) PROVE Mirrors(W, Eval[e][x], t)
      <4>1. x \in States  BY <3>2 DEF Mirrors
      <4> DEFINE y == Eval[e][x]
      <4>2. y \in States /\ y.env = x.env /\ y.out = x.out  BY <1>6, <4>1
      <4> HIDE DEF y
      <4>3. Mirrors(W, y, t)  BY <3>1, <3>2, <4>2, MirrorKept
      <4> QED  BY <4>3 DEF y
    <3>3. \A W, x : Mirrors(W, x, s) => Eval[e][x].val = v  BY <1>6, <2>1 DEF Mirrors
    <3>4. Leaves(e, L, ok, s, t)  BY <1>3, <2>1, <3>1, <3>2, <3>3 DEF Leaves
    <3> QED  BY <2>3, <3>1, <3>4
  <2> QED  BY <1>4, <2>3, <2>4, <2>5 DEF Good, c, v
<1>8. CASE v < 0
  <2>1. PICK h \in Bytes, l \in Bytes : c = <<Inst("LIT"), Raw(h), Raw(l)>>
    BY <1>1, <1>8, CharCells DEF c
  <2>2. Len(c) = 3  BY <2>1
  <2>3. c \in CodeType
    <3>1. Widened(v) \in Nat  BY <1>1 DEF Widened
    <3> QED  BY <3>1, ByteIsCode DEF c
  <2>4. Behaves(e, c, L, ok)
    <3> SUFFICES ASSUME NEW r \in CodeType, NEW s \in Running, At(r, s.at, c)
                 PROVE  Splits(e) /\ Adrift(r, s)
      BY DEF Behaves, Trouble
    <3> QED  BY <1>5, <1>8, <2>1, SecondByteRuns
  <2>5. Len(c) = CodeLen[e] /\ Lets[e] \subseteq NamesOf(L)  BY <1>4, <1>8, <2>2
  <2> QED  BY <2>3, <2>4, <2>5 DEF Good, c, v
<1> QED  BY <1>1, <1>7, <1>8

LEMMA CallGood ==
  ASSUME NEW e \in Expressions, e.tag = "FUNCTION_CALL_E", NEW L, NEW ok
  PROVE  Good(e, <<>>, L, ok)
<1> DEFINE c == <<>>
<1>1. SubExprs(e) = <<>> /\ OwnCells(e) = 0
  <2>1. SubExprs(e) = <<>>  BY DEF SubExprs, BinTags
  <2>2. OwnCells(e) = 0  BY DEF OwnCells, BinTags
  <2> QED  BY <2>1, <2>2
<1>2. ~IsStatement[e]
  <2>1. IsStatement[e] = IsStatementStep(IsStatement, e)  BY IsStatementObeys
  <2> QED  BY <2>1 DEF IsStatementStep
<1>3. ~HasValue[e]
  <2>1. HasValue[e] = HasValueStep(HasValue, e)  BY HasValueObeys
  <2> QED  BY <2>1 DEF HasValueStep, BinTags
<1>4. CodeLen[e] = 0 /\ Lets[e] = {}
  <2>1. CodeLen[e] = OwnCells(e) /\ Lets[e] = IF e.tag = "LET_E" THEN {e.var} ELSE {}
    BY <1>1, NoParts
  <2> QED  BY <1>1, <2>1
<1>5. c \in CodeType /\ Len(c) = 0  BY EmptySeq DEF CodeType
<1>6. \A x \in States : /\ Eval[e][x] \in States
                        /\ Eval[e][x].env = x.env /\ Eval[e][x].out = x.out
  <2> SUFFICES ASSUME NEW x \in States
               PROVE  /\ Eval[e][x] \in States
                      /\ Eval[e][x].env = x.env /\ Eval[e][x].out = x.out
    OBVIOUS
  <2>1. Eval[e][x] = [x EXCEPT !.val = NoValue]  BY EvalObeys DEF After, BinTags
  <2>2. NoValue \in Values  BY DEF Values, NoValue
  <2> QED  BY <2>1, <2>2, ValueSet
<1> HIDE DEF c
<1>7. Behaves(e, c, L, ok)
  <2> SUFFICES ASSUME NEW r \in CodeType, NEW s \in Running, At(r, s.at, c)
               PROVE  \E t : Comes(r, s, t, Len(c)) /\ Leaves(e, L, ok, s, t)
    BY DEF Behaves
  <2>1. Comes(r, s, s, 0)
    <3>1. s.at \in Nat  BY DEF Running
    <3> QED  BY <3>1, ReachesSelf DEF Comes, Further
  <2>2. \A W, x : Mirrors(W, x, s) => Mirrors(W, Eval[e][x], s)
    BY <1>6, MirrorKept DEF Mirrors, Kept
  <2>3. Leaves(e, L, ok, s, s)  BY <1>2, <1>3, <2>2 DEF Leaves
  <2> QED  BY <1>5, <2>1, <2>3
<1>8. Good(e, c, L, ok)  BY <1>4, <1>5, <1>7 DEF Good
<1> QED  BY <1>8 DEF c

LEMMA VariableGood ==
  ASSUME NEW e \in Expressions, e.tag = "VARIABLE_E", NEW L, Layout(L),
         e.name \in NamesOf(L), NEW ok
  PROVE  Good(e, Byte(Addr(L, e.name)) \o <<Inst("LDZ")>>, L, ok)
<1> DEFINE n == e.name
           a == Addr(L, n)
           p == Byte(a)
           c == p \o <<Inst("LDZ")>>
<1>1. SubExprs(e) = <<>> /\ OwnCells(e) = 3
  <2>1. SubExprs(e) = <<>>  BY DEF SubExprs, BinTags
  <2>2. OwnCells(e) = 3  BY DEF OwnCells, BinTags
  <2> QED  BY <2>1, <2>2
<1>2. ~IsStatement[e]
  <2>1. IsStatement[e] = IsStatementStep(IsStatement, e)  BY IsStatementObeys
  <2> QED  BY <2>1 DEF IsStatementStep
<1>3. CodeLen[e] = 3 /\ Lets[e] = {}
  <2>1. CodeLen[e] = OwnCells(e) /\ Lets[e] = IF e.tag = "LET_E" THEN {e.var} ELSE {}
    BY <1>1, NoParts
  <2> QED  BY <1>1, <2>1
<1>4. n \in NamesOf(L) /\ n \in Variables /\ a \in Bytes
  <2>1. n \in Variables  BY DEF Variables
  <2>2. n \in NamesOf(L)  OBVIOUS
  <2> HIDE DEF n
  <2>3. a \in Bytes  BY <2>2, AddrIsByte
  <2> QED  BY <2>1, <2>2, <2>3
<1>5. \A x \in States : /\ Eval[e][x] \in States
                        /\ Eval[e][x].env = x.env /\ Eval[e][x].out = x.out
                        /\ Eval[e][x].val = x.env[n]
  <2> SUFFICES ASSUME NEW x \in States
               PROVE  /\ Eval[e][x] \in States
                      /\ Eval[e][x].env = x.env /\ Eval[e][x].out = x.out
                      /\ Eval[e][x].val = x.env[n]
    OBVIOUS
  <2>1. Eval[e][x] = [x EXCEPT !.val = x.env[n]]  BY EvalObeys DEF After, BinTags
  <2>2. x.env[n] \in Values  BY <1>4 DEF States
  <2> HIDE DEF n
  <2> QED  BY <2>1, <2>2, ValueSet
<1> HIDE DEF n
<1>6. a \in Short /\ a % 256 = a
  <2>1. a \in Short  BY <1>4 DEF Short, Bytes
  <2> HIDE DEF a
  <2> QED  BY <1>4, <2>1, ByteCells
<1>7. p \in CodeType /\ Len(p) = 2
  <2> HIDE DEF a
  <2> QED  BY <1>6, ByteCells
<1>8. "LDZ" \in Opcodes  BY DEF Opcodes
<1> DEFINE q == <<Inst("LDZ")>>
<1>9. q \in CodeType /\ Len(q) = 1  BY <1>8, OneInst
<1>10. c \in CodeType /\ Len(c) = 3
  <2> HIDE DEF p, q
  <2>1. Len(p \o q) = Len(p) + Len(q)  BY <1>7, <1>9, ConcatProperties DEF CodeType
  <2> QED  BY <1>7, <1>9, <2>1, Joined DEF q
<1>11. Behaves(e, c, L, ok)
  <2> SUFFICES ASSUME NEW r \in CodeType, NEW s \in Running, At(r, s.at, c)
               PROVE  \E t : Comes(r, s, t, 3) /\ Leaves(e, L, ok, s, t)
    BY <1>10 DEF Behaves
  <2>1. At(r, s.at, p) /\ At(r, s.at + 2, q)
    <3>1. s.at \in Nat /\ At(r, s.at, p \o q)  BY DEF Running
    <3> HIDE DEF p, q
    <3> QED  BY <1>7, <1>9, <3>1, AtJoined
  <2> HIDE DEF c, q
  <2>2. PICK t : Comes(r, s, t, 2) /\ Kept(s, t) /\ t.ws = Append(s.ws, a)
    <3>1. \E t : Comes(r, s, t, 2) /\ Kept(s, t) /\ t.ws = Append(s.ws, a % 256)
      <4> HIDE DEF a
      <4> QED  BY <1>6, <2>1, PushRuns
    <3> HIDE DEF a
    <3> QED  BY <1>6, <3>1
  <2> HIDE DEF p, a
  <2>3. t \in Running /\ At(r, t.at, <<Inst("LDZ")>>)
    BY <2>1, <2>2 DEF Comes, Further, q
  <2>4. s.ws \in Seq(Bytes) /\ s.zp \in [Bytes -> Bytes]  BY DEF Running
  <2>5. ~(Len(t.ws) < 1)
    <3>1. Len(t.ws) >= 1 /\ Len(t.ws) \in Nat  BY <1>4, <2>2, <2>4, PopOne
    <3> QED  BY <3>1
  <2>6. PICK u : /\ Further(t, u, 1) /\ Reaches(r, t, u) /\ Kept(t, u)
                 /\ \A w \in Seq(Bytes), b \in Bytes :
                      t.ws = Append(w, b) => u.ws = Append(w, t.zp[b])
    BY <2>3, <2>5, LdzRuns
  <2>7. u.ws = Append(s.ws, s.zp[a]) /\ Kept(s, u) /\ s.zp[a] \in Bytes
    BY <1>4, <2>2, <2>4, <2>6 DEF Kept
  <2>8. Comes(r, s, u, 3)
    <3>1. Comes(r, s, u, 2 + 1)  BY <2>2, <2>6, ComesOn DEF Comes
    <3> QED  BY <3>1
  <2>9. \A W, x : Fits(L, W) /\ Mirrors(W, x, s) =>
                    Mirrors(W, Eval[e][x], u) /\ u.ws = Append(s.ws, Eval[e][x].val)
    <3> SUFFICES ASSUME NEW W, NEW x, Fits(L, W), Mirrors(W, x, s)
                 PROVE  Mirrors(W, Eval[e][x], u) /\ u.ws = Append(s.ws, Eval[e][x].val)
      OBVIOUS
    <3>1. n \in NamesOf(W) /\ Addr(W, n) = a  BY <1>4, AddrStays DEF Fits, a
    <3>2. s.zp[a] = x.env[n]  BY <3>1 DEF Mirrors
    <3>3. Mirrors(W, Eval[e][x], u)  BY <1>5, <2>7, MirrorKept DEF Mirrors
    <3>4. Eval[e][x].val = x.env[n]  BY <1>5 DEF Mirrors
    <3> QED  BY <2>7, <3>2, <3>3, <3>4
  <2>10. Leaves(e, L, ok, s, u)  BY <1>2, <2>7, <2>9 DEF Leaves
  <2> QED  BY <2>8, <2>10
<1> QED  BY <1>3, <1>10, <1>11 DEF Good, n

LEMMA CodeJoined ==
  ASSUME NEW c \in CodeType, NEW d \in CodeType
  PROVE  c \o d \in CodeType /\ Len(c \o d) = Len(c) + Len(d)
<1>1. c \in Seq(CellType) /\ d \in Seq(CellType)  BY DEF CodeType
<1>2. c \o d \in Seq(CellType) /\ Len(c \o d) = Len(c) + Len(d)
  BY <1>1, ConcatProperties
<1> QED  BY <1>2 DEF CodeType

LEMMA ThreeLong ==
  ASSUME NEW c \in CodeType, NEW d \in CodeType, NEW q \in CodeType
  PROVE  /\ c \o d \o q \in CodeType
         /\ Len(c \o d \o q) = Len(c) + Len(d) + Len(q)
         /\ Len(c) \in Nat /\ Len(d) \in Nat /\ Len(q) \in Nat
<1> DEFINE cd == c \o d
<1>1. cd \in CodeType /\ Len(cd) = Len(c) + Len(d)  BY CodeJoined
<1>2. Len(c) \in Nat /\ Len(d) \in Nat /\ Len(q) \in Nat  BY LenIsNat
<1> HIDE DEF cd
<1>3. cd \o q \in CodeType /\ Len(cd \o q) = Len(cd) + Len(q)
  BY <1>1, CodeJoined
<1>4. Len(cd \o q) = Len(c) + Len(d) + Len(q)  BY <1>1, <1>2, <1>3
<1> QED  BY <1>2, <1>3, <1>4 DEF cd

LEMMA Three ==
  ASSUME NEW c \in CodeType, NEW d \in CodeType, NEW q \in CodeType
  PROVE  /\ c \o d \o q \in CodeType
         /\ Len(c \o d \o q) = Len(c) + Len(d) + Len(q)
         /\ Len(c) \in Nat /\ Len(d) \in Nat /\ Len(q) \in Nat
         /\ \A r : \A a \in Nat : At(r, a, c \o d \o q) =>
              /\ At(r, a, c) /\ At(r, a + Len(c), d)
              /\ At(r, a + (Len(c) + Len(d)), q)
<1> DEFINE cd == c \o d
<1>1. cd \in CodeType /\ Len(cd) = Len(c) + Len(d)  BY CodeJoined
<1>2. Len(c) \in Nat /\ Len(d) \in Nat /\ Len(q) \in Nat  BY LenIsNat
<1>3. \A r : \A a \in Nat : At(r, a, cd) => At(r, a, c) /\ At(r, a + Len(c), d)
  BY AtJoined
<1> HIDE DEF cd
<1>4. cd \o q \in CodeType /\ Len(cd \o q) = Len(cd) + Len(q)
  BY <1>1, CodeJoined
<1>5. \A r : \A a \in Nat : At(r, a, cd \o q) => At(r, a, cd) /\ At(r, a + Len(cd), q)
  BY <1>1, AtJoined
<1>6. Len(cd \o q) = Len(c) + Len(d) + Len(q)  BY <1>1, <1>2, <1>4
<1>7. \A r : \A a \in Nat : At(r, a, cd \o q) =>
              /\ At(r, a, c) /\ At(r, a + Len(c), d)
              /\ At(r, a + (Len(c) + Len(d)), q)
  BY <1>1, <1>3, <1>5
<1> QED  BY <1>2, <1>4, <1>6, <1>7 DEF cd

(* An address is pushed, and the byte below it stored there.               *)
LEMMA StoreRuns ==
  ASSUME NEW r \in CodeType, NEW s \in Running, NEW a \in Bytes,
         At(r, s.at, Byte(a)), At(r, s.at + 2, <<Inst("STZ")>>)
  PROVE  \/ Stuck(r, s) /\ s.ws = <<>>
         \/ \E t : /\ Comes(r, s, t, 3) /\ t.out = s.out
                   /\ \A w \in Seq(Bytes), b \in Bytes :
                        s.ws = Append(w, b)
                        => t.ws = w /\ t.zp = [s.zp EXCEPT ![a] = b]
<1>1. a \in Short /\ a % 256 = a
  <2>1. a \in Short  BY DEF Short, Bytes
  <2> QED  BY <2>1, ByteCells
<1>2. PICK t : Comes(r, s, t, 2) /\ Kept(s, t) /\ t.ws = Append(s.ws, a)
  <2>1. \E t : Comes(r, s, t, 2) /\ Kept(s, t) /\ t.ws = Append(s.ws, a % 256)
    BY <1>1, PushRuns
  <2> QED  BY <1>1, <2>1
<1>3. t \in Running /\ t.at = s.at + 2 /\ Reaches(r, s, t)  BY <1>2 DEF Comes, Further
<1>4. s.ws \in Seq(Bytes)  BY DEF Running
<1>5. CASE Stuck(r, t) /\ Len(t.ws) < 2
  <2>1. Stuck(r, s)  BY <1>3, <1>5, StuckLater
  <2>2. s.ws = <<>>
    <3>1. Len(t.ws) = Len(s.ws) + 1 /\ Len(s.ws) \in Nat  BY <1>2, <1>4
    <3>2. Len(s.ws) = 0  BY <1>5, <3>1
    <3> QED  BY <1>4, <3>2, EmptySeq
  <2> QED  BY <2>1, <2>2
<1>6. ASSUME NEW u, Further(t, u, 1), Reaches(r, t, u), u.out = t.out,
             \A w \in Seq(Bytes), b, c \in Bytes :
               t.ws = Append(Append(w, b), c) => u.ws = w /\ u.zp = [t.zp EXCEPT ![c] = b]
      PROVE  /\ Comes(r, s, u, 3) /\ u.out = s.out
             /\ \A w \in Seq(Bytes), b \in Bytes :
                  s.ws = Append(w, b) => u.ws = w /\ u.zp = [s.zp EXCEPT ![a] = b]
  <2>1. Comes(r, s, u, 2 + 1)  BY <1>2, <1>6, ComesOn DEF Comes
  <2>2. Comes(r, s, u, 3)  BY <2>1
  <2>3. t.zp = s.zp /\ t.out = s.out  BY <1>2 DEF Kept
  <2>4. \A w \in Seq(Bytes), b \in Bytes :
          s.ws = Append(w, b) => u.ws = w /\ u.zp = [s.zp EXCEPT ![a] = b]
    BY <1>2, <1>6, <2>3
  <2> QED  BY <1>6, <2>2, <2>3, <2>4
<1>7. At(r, t.at, <<Inst("STZ")>>)  BY <1>3
<1>8. \/ Stuck(r, t) /\ Len(t.ws) < 2
      \/ \E u : /\ Further(t, u, 1) /\ Reaches(r, t, u) /\ u.out = t.out
                /\ \A w \in Seq(Bytes), b, c \in Bytes :
                     t.ws = Append(Append(w, b), c)
                     => u.ws = w /\ u.zp = [t.zp EXCEPT ![c] = b]
  BY <1>3, <1>7, StzRuns, ZenonT(40)
<1> QED  BY <1>5, <1>6, <1>8

LEMMA StoreGood ==
  ASSUME NEW e \in Expressions, e.tag \in {"LET_E", "ASSIGN_E"}, NEW L, NEW ok,
         NEW d, Good(e.e, d, L, ok), Lets[e] \subseteq NamesOf(L), NEW a \in Bytes,
         ok => e.var \in NamesOf(L) /\ a = Addr(L, e.var)
  PROVE  Good(e, d \o Byte(a) \o <<Inst("STZ")>>, L, ok)
<1> DEFINE p == Byte(a)
           q == <<Inst("STZ")>>
           c == d \o p \o q
<1>1. /\ d \in CodeType /\ Len(d) = CodeLen[e.e] /\ Behaves(e.e, d, L, ok)
      /\ p \in CodeType /\ Len(p) = 2
      /\ q \in CodeType /\ Len(q) = 1
  <2>1. d \in CodeType /\ Len(d) = CodeLen[e.e] /\ Behaves(e.e, d, L, ok)  BY DEF Good
  <2>2. a \in Short  BY DEF Short, Bytes
  <2>3. p \in CodeType /\ Len(p) = 2  BY <2>2, ByteCells
  <2>4. "STZ" \in Opcodes  BY DEF Opcodes
  <2>5. q \in CodeType /\ Len(q) = 1  BY <2>4, OneInst
  <2> QED  BY <2>1, <2>3, <2>5
<1>2. Within(e.e, e) /\ e.e \in Expressions  BY PartsWithin DEF Within
<1>3. ~HasValue[e]
  <2>1. HasValue[e] = HasValueStep(HasValue, e)  BY HasValueObeys
  <2> QED  BY <2>1 DEF HasValueStep, BinTags
<1>4. ~Lacks(e) => ~Lacks(e.e) /\ HasValue[e.e]
  <2>1. ~Lacks(e) => ~MissesValue(e)  BY SelfInside
  <2>2. ~Lacks(e) => ~Lacks(e.e)  BY <1>2, PartsShare
  <2> QED  BY <2>1, <2>2 DEF MissesValue
<1>5. CodeLen[e] = 3 + CodeLen[e.e]
  <2>1. SubExprs(e) = <<e.e>>  BY OnePart
  <2>2. Len(SubExprs(e)) = 1 /\ SubExprs(e)[1] = e.e  BY <2>1
  <2>3. OwnCells(e) = 3  BY DEF OwnCells, BinTags
  <2> QED  BY <2>2, <2>3, CellCount
<1>6. \A x \in States : Eval[e][x] = Store(Eval[e.e][x], e.var, Eval[e.e][x].val)
  BY EvalObeys DEF After, BinTags
<1>7. e.var \in Variables  BY DEF Variables
<1>8. c \in CodeType /\ Len(c) = CodeLen[e]
  <2> HIDE DEF p, q
  <2>1. c \in CodeType /\ Len(c) = Len(d) + Len(p) + Len(q) /\ Len(d) \in Nat
    BY <1>1, ThreeLong
  <2> HIDE DEF c
  <2> QED  BY <1>1, <1>5, <2>1
<1> HIDE DEF c, p, q
<1>9. ASSUME NEW s \in Running, NEW t \in Running, Leaves(e.e, L, ok, s, t),
             NEW u, u.out = t.out,
             \A w \in Seq(Bytes), b \in Bytes :
               t.ws = Append(w, b) => u.ws = w /\ u.zp = [t.zp EXCEPT ![a] = b]
      PROVE  Leaves(e, L, ok, s, u)
  <2> SUFFICES ASSUME ~Lacks(e)
               PROVE  /\ u.ws = s.ws
                      /\ ok /\ Clean(e) =>
                           \A W, x : Fits(L, W) /\ Mirrors(W, x, s) => Mirrors(W, Eval[e][x], u)
    BY <1>3 DEF Leaves
  <2>1. s.ws \in Seq(Bytes) /\ t.zp \in [Bytes -> Bytes]  BY DEF Running
  <2>2. PICK b \in Bytes : t.ws = Append(s.ws, b)  BY <1>4, <1>9 DEF Leaves
  <2>3. u.ws = s.ws /\ u.zp = [t.zp EXCEPT ![a] = b]  BY <1>9, <2>1, <2>2
  <2>4. ASSUME ok, Clean(e), NEW W, NEW x, Fits(L, W), Mirrors(W, x, s)
        PROVE  Mirrors(W, Eval[e][x], u)
    <3> DEFINE v == Eval[e.e][x]
               n == e.var
    <3>1. Clean(e.e)  BY <1>2, <2>4, PartsShare
    <3>2. Mirrors(W, v, t) /\ t.ws = Append(s.ws, v.val)
      BY <1>4, <1>9, <2>4, <3>1 DEF Leaves
    <3> HIDE DEF v
    <3>3. v.val = b  BY <2>1, <2>2, <3>2, AppendSame
    <3>4. v \in States /\ b \in Values  BY <3>2 DEF Mirrors, Bytes, Values, NoValue
    <3> DEFINE y == Store(v, n, b)
    <3>5. x \in States  BY <2>4 DEF Mirrors
    <3>6. Eval[e][x] = y  BY <1>6, <3>3, <3>5 DEF v
    <3>7. y \in States /\ y.out = v.out /\ y.env = [v.env EXCEPT ![n] = b]
      BY <1>7, <3>4, Stored
    <3> HIDE DEF y
    <3>8. n \in NamesOf(W) /\ Addr(W, n) = a
      <4>1. n \in NamesOf(L) /\ a = Addr(L, n)  BY <2>4
      <4> HIDE DEF n
      <4> QED  BY <2>4, <4>1, AddrStays DEF Fits
    <3>9. ASSUME NEW m \in NamesOf(W)
          PROVE  u.zp[Addr(W, m)] = y.env[m]
      <4>1. m \in Variables  BY <2>4 DEF Fits, Layout, NamesOf
      <4>2. v.env \in [Variables -> Values]  BY <3>4 DEF States
      <4>3. t.zp[Addr(W, m)] = v.env[m]  BY <3>2 DEF Mirrors
      <4>4. /\ Addr(W, m) \in Bytes
            /\ Addr(W, m) = Addr(W, n) => m = n
        <5> HIDE DEF n
        <5> QED  BY <2>4, <3>8, AddrsApart DEF Fits
      <4>5. CASE m = n  BY <2>1, <2>3, <3>7, <3>8, <4>1, <4>2, <4>4, <4>5
      <4>6. CASE m # n  BY <2>1, <2>3, <3>7, <3>8, <4>1, <4>2, <4>3, <4>4, <4>6
      <4> QED  BY <4>5, <4>6
    <3>10. u.out = y.out  BY <1>9, <3>2, <3>7 DEF Mirrors
    <3> QED  BY <3>6, <3>7, <3>9, <3>10 DEF Mirrors
  <2> QED  BY <2>3, <2>4
<1>10. Behaves(e, c, L, ok)
  <2> SUFFICES ASSUME NEW r \in CodeType, NEW s \in Running, At(r, s.at, c), StaysOnTrack(e)
               PROVE  \/ Trouble(e, r, s)
                      \/ \E t : Comes(r, s, t, Len(c)) /\ Leaves(e, L, ok, s, t)
    BY DEF Behaves
  <2>1. s.at \in Nat /\ s.ws \in Seq(Bytes)  BY DEF Running
  <2>2. /\ At(r, s.at, d) /\ At(r, s.at + Len(d), p) /\ At(r, s.at + (Len(d) + 2), q)
        /\ Len(c) = Len(d) + 3 /\ Len(d) \in Nat
    <3>1. At(r, s.at, d \o p \o q)  BY DEF c
    <3>2. /\ At(r, s.at, d) /\ At(r, s.at + Len(d), p)
          /\ At(r, s.at + (Len(d) + Len(p)), q) /\ Len(d) \in Nat
      BY <1>1, <2>1, <3>1, Three
    <3>3. Len(d \o p \o q) = Len(d) + Len(p) + Len(q)
      <4>1. d \in CodeType /\ p \in CodeType /\ q \in CodeType  BY <1>1
      <4> HIDE DEF p, q, c
      <4> QED  BY <4>1, ThreeLong
    <3>4. Len(c) = Len(d) + 3  BY <1>1, <3>2, <3>3 DEF c
    <3> QED  BY <1>1, <3>2, <3>4
  <2>3. StaysOnTrack(e.e)  BY <1>2, PartsShare
  <2>4. CASE Trouble(e.e, r, s)  BY <1>2, <2>4, PartsShare
  <2>5. CASE \E t : Comes(r, s, t, Len(d)) /\ Leaves(e.e, L, ok, s, t)
    <3>1. PICK t : Comes(r, s, t, Len(d)) /\ Leaves(e.e, L, ok, s, t)  BY <2>5
    <3>2. t \in Running /\ t.at = s.at + Len(d) /\ Reaches(r, s, t)
      BY <3>1 DEF Comes, Further
    <3>3. At(r, t.at, Byte(a)) /\ At(r, t.at + 2, <<Inst("STZ")>>)
      <4>1. t.at + 2 = s.at + (Len(d) + 2)  BY <2>1, <2>2, <3>2
      <4> QED  BY <2>2, <3>2, <4>1 DEF p, q
    <3>4. CASE Stuck(r, t) /\ t.ws = <<>>
      <4>1. Stuck(r, s)  BY <3>2, <3>4, StuckLater
      <4>2. Lacks(e)
        <5> SUFFICES ASSUME ~Lacks(e) PROVE FALSE
          OBVIOUS
        <5>1. PICK b \in Bytes : t.ws = Append(s.ws, b)  BY <1>4, <3>1 DEF Leaves
        <5>2. Len(t.ws) >= 1  BY <2>1, <5>1, PopOne
        <5>3. Len(t.ws) = 0  BY <3>4
        <5> QED  BY <5>2, <5>3
      <4> QED  BY <4>1, <4>2 DEF Trouble
    <3>5. ASSUME NEW u, Comes(r, t, u, 3), u.out = t.out,
                 \A w \in Seq(Bytes), b \in Bytes :
                   t.ws = Append(w, b) => u.ws = w /\ u.zp = [t.zp EXCEPT ![a] = b]
          PROVE  Comes(r, s, u, Len(c)) /\ Leaves(e, L, ok, s, u)
      <4>1. Comes(r, s, u, Len(d) + 3)  BY <2>2, <3>1, <3>5, ComesOn
      <4>2. Leaves(e, L, ok, s, u)  BY <1>9, <3>1, <3>2, <3>5
      <4> QED  BY <2>2, <4>1, <4>2
    <3>6. \/ Stuck(r, t) /\ t.ws = <<>>
          \/ \E u : /\ Comes(r, t, u, 3) /\ u.out = t.out
                    /\ \A w \in Seq(Bytes), b \in Bytes :
                         t.ws = Append(w, b) => u.ws = w /\ u.zp = [t.zp EXCEPT ![a] = b]
      BY <3>2, <3>3, StoreRuns
    <3> QED  BY <3>4, <3>5, <3>6
  <2> QED  BY <1>1, <2>2, <2>3, <2>4, <2>5 DEF Behaves
<1>11. Good(e, c, L, ok)  BY <1>8, <1>10 DEF Good
<1> QED  BY <1>11 DEF c, p, q

LEMMA DerefGood ==
  ASSUME NEW e \in Expressions, e.tag = "DEREF_E", NEW L, NEW ok,
         NEW d, Good(e.e, d, L, ok), Lets[e] \subseteq NamesOf(L)
  PROVE  Good(e, d \o <<Inst("LDZ")>>, L, ok)
<1> DEFINE q == <<Inst("LDZ")>>
           c == d \o q
<1>1. /\ d \in CodeType /\ Len(d) = CodeLen[e.e] /\ Len(d) \in Nat
      /\ q \in CodeType /\ Len(q) = 1
  <2>1. d \in CodeType /\ Len(d) = CodeLen[e.e]  BY DEF Good
  <2>2. "LDZ" \in Opcodes  BY DEF Opcodes
  <2> QED  BY <2>1, <2>2, OneInst, LenIsNat
<1>2. Within(e.e, e) /\ e.e \in Expressions  BY PartsWithin DEF Within
<1>3. ~IsStatement[e]
  <2>1. IsStatement[e] = IsStatementStep(IsStatement, e)  BY IsStatementObeys
  <2> QED  BY <2>1 DEF IsStatementStep
<1>4. ~Lacks(e) => ~Lacks(e.e) /\ HasValue[e.e]
  <2>1. ~Lacks(e) => ~MissesValue(e)  BY SelfInside
  <2>2. ~Lacks(e) => ~Lacks(e.e)  BY <1>2, PartsShare
  <2> QED  BY <2>1, <2>2 DEF MissesValue
<1>5. CodeLen[e] = 1 + CodeLen[e.e]
  <2>1. SubExprs(e) = <<e.e>>  BY OnePart
  <2>2. Len(SubExprs(e)) = 1 /\ SubExprs(e)[1] = e.e  BY <2>1
  <2>3. OwnCells(e) = 1  BY DEF OwnCells, BinTags
  <2> QED  BY <2>2, <2>3, CellCount
<1>6. ~Clean(e)
  <2>1. ReadsAtAddress(e)  BY DEF ReadsAtAddress
  <2> QED  BY <2>1, SelfInside
<1>7. c \in CodeType /\ Len(c) = Len(d) + 1
  <2> HIDE DEF q
  <2>1. d \o q \in CodeType /\ Len(d \o q) = Len(d) + Len(q)  BY <1>1, CodeJoined
  <2> QED  BY <1>1, <2>1
<1> HIDE DEF q
<1>8. Behaves(e, c, L, ok)
  <2> SUFFICES ASSUME NEW r \in CodeType, NEW s \in Running, At(r, s.at, c), StaysOnTrack(e)
               PROVE  \/ Trouble(e, r, s)
                      \/ \E t : Comes(r, s, t, Len(c)) /\ Leaves(e, L, ok, s, t)
    BY DEF Behaves
  <2>1. s.at \in Nat /\ s.ws \in Seq(Bytes)  BY DEF Running
  <2>2. At(r, s.at, d) /\ At(r, s.at + Len(d), q)  BY <1>1, <2>1, AtJoined
  <2> HIDE DEF c
  <2>3. StaysOnTrack(e.e)  BY <1>2, PartsShare
  <2>4. CASE Trouble(e.e, r, s)  BY <1>2, <2>4, PartsShare
  <2>5. CASE \E t : Comes(r, s, t, Len(d)) /\ Leaves(e.e, L, ok, s, t)
    <3>1. PICK t : Comes(r, s, t, Len(d)) /\ Leaves(e.e, L, ok, s, t)  BY <2>5
    <3>2. t \in Running /\ t.at = s.at + Len(d) /\ Reaches(r, s, t)
      BY <3>1 DEF Comes, Further
    <3>3. At(r, t.at, <<Inst("LDZ")>>)  BY <2>2, <3>2 DEF q
    <3>4. ~Lacks(e) => \E b \in Bytes : t.ws = Append(s.ws, b)
      BY <1>4, <3>1 DEF Leaves
    <3>5. CASE Stuck(r, t) /\ Len(t.ws) < 1
      <4>1. Stuck(r, s)  BY <3>2, <3>5, StuckLater
      <4>2. Lacks(e)
        <5> SUFFICES ASSUME ~Lacks(e) PROVE FALSE
          OBVIOUS
        <5>1. PICK b \in Bytes : t.ws = Append(s.ws, b)  BY <3>4
        <5>2. Len(t.ws) >= 1 /\ Len(t.ws) \in Nat  BY <2>1, <5>1, PopOne
        <5> QED  BY <3>5, <5>2
      <4> QED  BY <4>1, <4>2 DEF Trouble
    <3>6. ASSUME NEW u, Further(t, u, 1), Reaches(r, t, u),
                 \A w \in Seq(Bytes), b \in Bytes :
                   t.ws = Append(w, b) => u.ws = Append(w, t.zp[b])
          PROVE  Comes(r, s, u, Len(c)) /\ Leaves(e, L, ok, s, u)
      <4>1. Comes(r, s, u, Len(d) + 1)  BY <1>1, <3>1, <3>6, ComesOn DEF Comes
      <4>2. ~Lacks(e) => \E b \in Bytes : u.ws = Append(s.ws, b)
        <5> SUFFICES ASSUME ~Lacks(e) PROVE \E b \in Bytes : u.ws = Append(s.ws, b)
          OBVIOUS
        <5>1. PICK b \in Bytes : t.ws = Append(s.ws, b)  BY <3>4
        <5>2. t.zp[b] \in Bytes  BY <3>2 DEF Running
        <5> QED  BY <2>1, <3>6, <5>1, <5>2
      <4>3. Leaves(e, L, ok, s, u)  BY <1>3, <1>6, <4>2 DEF Leaves
      <4> QED  BY <1>7, <4>1, <4>3
    <3>7. \/ Stuck(r, t) /\ Len(t.ws) < 1
          \/ \E u : /\ Further(t, u, 1) /\ Reaches(r, t, u)
                    /\ \A w \in Seq(Bytes), b \in Bytes :
                         t.ws = Append(w, b) => u.ws = Append(w, t.zp[b])
      BY <3>2, <3>3, LdzRuns
    <3> QED  BY <3>5, <3>6, <3>7
  <2>6. \/ Trouble(e.e, r, s)
        \/ \E t : Comes(r, s, t, Len(d)) /\ Leaves(e.e, L, ok, s, t)
    BY <2>2, <2>3, GoodPart
  <2> QED  BY <2>4, <2>5, <2>6
<1>9. Good(e, c, L, ok)  BY <1>1, <1>5, <1>7, <1>8 DEF Good
<1> QED  BY <1>9 DEF c, q

(* Two parts of an expression, one behind the other.                       *)
LEMMA TwoRun ==
  ASSUME NEW e, NEW x, NEW y, Within(x, e), Within(y, e), NEW L, NEW ok,
         NEW c, NEW d, Good(x, c, L, ok), Good(y, d, L, ok),
         NEW r \in CodeType, NEW s \in Running,
         At(r, s.at, c), At(r, s.at + Len(c), d), StaysOnTrack(e)
  PROVE  \/ Trouble(e, r, s)
         \/ \E t, u : /\ Comes(r, s, u, Len(c) + Len(d)) /\ t \in Running
                      /\ Leaves(x, L, ok, s, t) /\ Leaves(y, L, ok, t, u)
<1>1. Len(c) \in Nat /\ Len(d) \in Nat  BY LenIsNat DEF Good
<1>2. /\ StaysOnTrack(x) /\ StaysOnTrack(y)
      /\ \A u : (Trouble(x, r, u) => Trouble(e, r, u)) /\ (Trouble(y, r, u) => Trouble(e, r, u))
  BY PartsShare
<1>3. CASE Trouble(x, r, s)  BY <1>2, <1>3
<1>4. CASE \E t : Comes(r, s, t, Len(c)) /\ Leaves(x, L, ok, s, t)
  <2>1. PICK t : Comes(r, s, t, Len(c)) /\ Leaves(x, L, ok, s, t)  BY <1>4
  <2>2. t \in Running /\ t.at = s.at + Len(c) /\ Reaches(r, s, t)
    BY <2>1 DEF Comes, Further
  <2>3. At(r, t.at, d)  BY <2>2
  <2>4. \/ Trouble(y, r, t)
        \/ \E u : Comes(r, t, u, Len(d)) /\ Leaves(y, L, ok, t, u)
    BY <1>2, <2>2, <2>3, GoodPart
  <2>5. CASE Trouble(y, r, t)  BY <1>2, <2>2, <2>5, TroubleLater
  <2>6. CASE \E u : Comes(r, t, u, Len(d)) /\ Leaves(y, L, ok, t, u)
    <3>1. PICK u : Comes(r, t, u, Len(d)) /\ Leaves(y, L, ok, t, u)  BY <2>6
    <3>2. Comes(r, s, u, Len(c) + Len(d))  BY <1>1, <2>1, <3>1, ComesOn
    <3> QED  BY <2>1, <2>2, <3>1, <3>2
  <2> QED  BY <2>4, <2>5, <2>6
<1>5. \/ Trouble(x, r, s)
      \/ \E t : Comes(r, s, t, Len(c)) /\ Leaves(x, L, ok, s, t)
  BY <1>2, GoodPart
<1> QED  BY <1>3, <1>4, <1>5

(* They leave their values, and do what they mean.                         *)
Paired(x, y, L, s, u, b, c) ==
  \A W, z : Fits(L, W) /\ Mirrors(W, z, s) =>
    /\ Mirrors(W, Eval[y][Eval[x][z]], u) /\ Eval[x][z] \in States
    /\ Eval[x][z].val = b /\ Eval[y][Eval[x][z]].val = c

Pairs(x, y, L, ok, s, u, b, c) ==
  ok /\ Clean(x) /\ Clean(y) => Paired(x, y, L, s, u, b, c)

LEMMA TwoValues ==
  ASSUME NEW x, NEW y, HasValue[x], HasValue[y], ~Lacks(x), ~Lacks(y),
         NEW L, NEW ok, NEW s \in Running, NEW t \in Running, NEW u,
         Leaves(x, L, ok, s, t), Leaves(y, L, ok, t, u)
  PROVE  \E b, c \in Bytes :
           /\ u.ws = Append(Append(s.ws, b), c)
           /\ Pairs(x, y, L, ok, s, u, b, c)
<1>1. PICK b \in Bytes : t.ws = Append(s.ws, b)  BY DEF Leaves
<1>2. PICK c \in Bytes : u.ws = Append(t.ws, c)  BY DEF Leaves
<1>3. s.ws \in Seq(Bytes) /\ t.ws \in Seq(Bytes)  BY DEF Running
<1>4. ASSUME ok, Clean(x), Clean(y), NEW W, NEW z, Fits(L, W), Mirrors(W, z, s)
      PROVE  /\ Mirrors(W, Eval[y][Eval[x][z]], u) /\ Eval[x][z] \in States
             /\ Eval[x][z].val = b /\ Eval[y][Eval[x][z]].val = c
  <2> DEFINE v == Eval[x][z]
             w == Eval[y][v]
  <2>1. Mirrors(W, v, t) /\ t.ws = Append(s.ws, v.val)  BY <1>4 DEF Leaves
  <2> HIDE DEF v
  <2>2. Mirrors(W, w, u) /\ u.ws = Append(t.ws, w.val)  BY <1>4, <2>1 DEF Leaves
  <2> HIDE DEF w
  <2>3. v.val = b  BY <1>1, <1>3, <2>1, AppendSame
  <2>4. w.val = c  BY <1>2, <1>3, <2>2, AppendSame
  <2>5. v \in States  BY <2>1 DEF Mirrors
  <2> QED  BY <2>2, <2>3, <2>4, <2>5 DEF v, w
<1> QED  BY <1>1, <1>2, <1>4 DEF Paired, Pairs

(* The instruction of an operator computes what the operator means.        *)
LEMMA ArithIsOperate ==
  ASSUME NEW tag \in BinTags, NEW b \in Bytes, NEW c \in Bytes
  PROVE  /\ tag \in BinaryTags /\ BinaryInst[tag] \in Opcodes
         /\ BinaryInst[tag] \in M!Ops2
         /\ tag \notin {"GREATER_THAN_EQUAL_E", "LESS_THAN_EQUAL_E"}
              => M!Arith(BinaryInst[tag], b, c) = Operate(tag, b, c)
<1>1. tag \in BinaryTags  BY DEF BinTags, BinaryTags, BinaryInst
<1>2. BinaryInst[tag] \in Opcodes  BY <1>1 DEF Opcodes
<1>3. BinaryInst[tag] \in M!Ops2  BY DEF BinTags, BinaryInst, M!Ops2
<1>4. CASE tag = "ADD_E"
  BY <1>1, <1>2, <1>3, <1>4 DEF BinaryInst, M!Arith, Operate
<1>5. CASE tag = "SUB_E"
  BY <1>1, <1>2, <1>3, <1>5 DEF BinaryInst, M!Arith, Operate
<1>6. CASE tag = "MULT_E"
  <2>1. BinaryInst[tag] = "MUL"  BY <1>6 DEF BinaryInst
  <2>2. M!Arith("MUL", b, c) = (b * c) % 256  BY DEF M!Arith
  <2>3. Operate(tag, b, c) = (b * c) % 256  BY <1>6 DEF Operate
  <2> QED  BY <1>1, <1>2, <1>3, <2>1, <2>2, <2>3
<1>7. CASE tag = "DIV_E"
  <2>1. BinaryInst[tag] = "DIV"  BY <1>7 DEF BinaryInst
  <2>2. M!Arith("DIV", b, c) = IF c = 0 THEN 0 ELSE b \div c  BY DEF M!Arith
  <2>3. Operate(tag, b, c) = IF c > 0 THEN b \div c ELSE 0  BY <1>7 DEF Operate
  <2>4. c > 0 <=> c # 0  BY DEF Bytes
  <2> QED  BY <1>1, <1>2, <1>3, <2>1, <2>2, <2>3, <2>4
<1>8. CASE tag = "EQUAL_EQUAL_E"
  BY <1>1, <1>2, <1>3, <1>8 DEF BinaryInst, M!Arith, Operate, Truth
<1>9. CASE tag = "NOT_EQUAL_E"
  BY <1>1, <1>2, <1>3, <1>9 DEF BinaryInst, M!Arith, Operate, Truth
<1>10. CASE tag = "GREATER_THAN_E"
  BY <1>1, <1>2, <1>3, <1>10 DEF BinaryInst, M!Arith, Operate, Truth
<1>11. CASE tag = "LESS_THAN_E"
  BY <1>1, <1>2, <1>3, <1>11 DEF BinaryInst, M!Arith, Operate, Truth
<1>12. CASE tag \in {"GREATER_THAN_EQUAL_E", "LESS_THAN_EQUAL_E"}
  BY <1>1, <1>2, <1>3, <1>12
<1> QED
  BY <1>4, <1>5, <1>6, <1>7, <1>8, <1>9, <1>10, <1>11, <1>12 DEF BinTags

LEMMA BinaryGood ==
  ASSUME NEW e \in Expressions, e.tag \in BinTags, NEW L, NEW ok,
         NEW d1, Good(e.lhs, d1, L, ok), NEW d2, Good(e.rhs, d2, L, ok),
         Lets[e] \subseteq NamesOf(L)
  PROVE  Good(e, d1 \o d2 \o <<Inst(BinaryInst[e.tag])>>, L, ok)
<1> DEFINE x == e.lhs
           y == e.rhs
           op == BinaryInst[e.tag]
           q == <<Inst(op)>>
           c == d1 \o d2 \o q
<1>1. /\ d1 \in CodeType /\ Len(d1) = CodeLen[x] /\ Len(d1) \in Nat
      /\ d2 \in CodeType /\ Len(d2) = CodeLen[y] /\ Len(d2) \in Nat
  BY LenIsNat DEF Good
<1>2. op \in M!Ops2 /\ q \in CodeType /\ Len(q) = 1
  <2>1. 0 \in Bytes  BY DEF Bytes
  <2>2. op \in M!Ops2 /\ op \in Opcodes  BY <2>1, ArithIsOperate
  <2> HIDE DEF op
  <2> QED  BY <2>2, OneInst
<1>3. Within(x, e) /\ Within(y, e)  BY PartsWithin
<1>4. ~IsStatement[e]
  <2>1. IsStatement[e] = IsStatementStep(IsStatement, e)  BY IsStatementObeys
  <2> QED  BY <2>1 DEF IsStatementStep, BinTags
<1>5. ~Lacks(e) => ~Lacks(x) /\ HasValue[x] /\ ~Lacks(y) /\ HasValue[y]
  <2>1. ~Lacks(e) => ~MissesValue(e)  BY SelfInside
  <2>2. ~Lacks(e) => ~Lacks(x) /\ ~Lacks(y)  BY <1>3, PartsShare
  <2> QED  BY <2>1, <2>2 DEF MissesValue
<1>6. CodeLen[e] = 1 + (CodeLen[x] + CodeLen[y])
  <2>1. SubExprs(e) = <<x, y>>  BY BinaryParts
  <2>2. Len(SubExprs(e)) = 2 /\ SubExprs(e)[1] = x /\ SubExprs(e)[2] = y  BY <2>1
  <2>3. OwnCells(e) = 1  BY DEF OwnCells, BinTags
  <2> QED  BY <2>2, <2>3, CellCount
<1>7. Clean(e) => /\ Clean(x) /\ Clean(y)
                  /\ e.tag \notin {"GREATER_THAN_EQUAL_E", "LESS_THAN_EQUAL_E"}
  <2>1. Clean(e) => ~ComparesOrEqual(e)  BY SelfInside
  <2>2. Clean(e) => Clean(x) /\ Clean(y)  BY <1>3, PartsShare
  <2> QED  BY <2>1, <2>2 DEF ComparesOrEqual
<1>8. \A z \in States :
        Eval[e][z] = [Eval[y][Eval[x][z]] EXCEPT
                        !.val = Operate(e.tag, Eval[x][z].val, Eval[y][Eval[x][z]].val)]
  <2> SUFFICES ASSUME NEW z \in States
               PROVE  Eval[e][z] = [Eval[y][Eval[x][z]] EXCEPT
                        !.val = Operate(e.tag, Eval[x][z].val, Eval[y][Eval[x][z]].val)]
    OBVIOUS
  <2>1. Eval[e][z] = After(Eval, e, z)  BY EvalObeys
  <2> QED  BY <2>1 DEF After, BinTags
<1> HIDE DEF x, y, op, q
<1>9. c \in CodeType /\ Len(c) = Len(d1) + Len(d2) + 1
  <2>1. d1 \o d2 \o q \in CodeType /\ Len(d1 \o d2 \o q) = Len(d1) + Len(d2) + Len(q)
    BY <1>1, <1>2, Three
  <2> QED  BY <1>2, <2>1
<1>10. ASSUME NEW s \in Running, NEW t \in Running, NEW u \in Running, NEW v,
              Leaves(x, L, ok, s, t), Leaves(y, L, ok, t, u), Kept(u, v),
              \A w \in Seq(Bytes), b, k \in Bytes :
                u.ws = Append(Append(w, b), k) => v.ws = Append(w, M!Arith(op, b, k))
       PROVE  Leaves(e, L, ok, s, v)
  <2> SUFFICES ASSUME ~Lacks(e)
               PROVE  /\ \E b \in Bytes : v.ws = Append(s.ws, b)
                      /\ ok /\ Clean(e) =>
                           \A N, z : Fits(L, N) /\ Mirrors(N, z, s) =>
                             /\ Mirrors(N, Eval[e][z], v)
                             /\ v.ws = Append(s.ws, Eval[e][z].val)
    BY <1>4 DEF Leaves
  <2>1. PICK b \in Bytes, k \in Bytes :
           /\ u.ws = Append(Append(s.ws, b), k)
           /\ Pairs(x, y, L, ok, s, u, b, k)
    BY <1>5, <1>10, TwoValues
  <2> DEFINE a == M!Arith(op, b, k)
  <2>2. v.ws = Append(s.ws, a)
    <3>1. s.ws \in Seq(Bytes)  BY DEF Running
    <3> QED  BY <1>10, <2>1, <3>1
  <2>3. a \in Bytes  BY <1>2, ArithIsByte
  <2>4. Clean(e) => a = Operate(e.tag, b, k)  BY <1>7, ArithIsOperate DEF op
  <2> HIDE DEF a
  <2>5. ASSUME ok, Clean(e), NEW N, NEW z, Fits(L, N), Mirrors(N, z, s)
        PROVE  Mirrors(N, Eval[e][z], v) /\ v.ws = Append(s.ws, Eval[e][z].val)
    <3> DEFINE m == Eval[x][z]
               n == Eval[y][m]
    <3>1. Mirrors(N, n, u) /\ m.val = b /\ n.val = k
      BY <1>7, <2>1, <2>5 DEF Paired, Pairs
    <3>2. z \in States  BY <2>5 DEF Mirrors
    <3>3. Eval[e][z] = [n EXCEPT !.val = Operate(e.tag, m.val, n.val)]
      BY <1>8, <3>2
    <3> HIDE DEF m, n
    <3>4. Eval[e][z] = [n EXCEPT !.val = a]  BY <2>4, <2>5, <3>1, <3>3
    <3>5. n \in States /\ a \in Values
      BY <2>3, <3>1 DEF Mirrors, Bytes, Values, NoValue
    <3> DEFINE h == [n EXCEPT !.val = a]
    <3>6. h \in States /\ h.env = n.env /\ h.out = n.out /\ h.val = a
      BY <3>5, ValueSet
    <3> HIDE DEF h
    <3>7. Mirrors(N, h, v)  BY <1>10, <3>1, <3>6, MirrorKept
    <3> QED  BY <2>2, <3>4, <3>6, <3>7 DEF h
  <2> QED  BY <2>2, <2>3, <2>5
<1>11. Behaves(e, c, L, ok)
  <2> SUFFICES ASSUME NEW r \in CodeType, NEW s \in Running, At(r, s.at, c), StaysOnTrack(e)
               PROVE  \/ Trouble(e, r, s)
                      \/ \E t : Comes(r, s, t, Len(c)) /\ Leaves(e, L, ok, s, t)
    BY DEF Behaves
  <2>1. s.at \in Nat /\ s.ws \in Seq(Bytes)  BY DEF Running
  <2>2. /\ At(r, s.at, d1) /\ At(r, s.at + Len(d1), d2)
        /\ At(r, s.at + (Len(d1) + Len(d2)), q)
    BY <1>1, <1>2, <2>1, Three
  <2> HIDE DEF c
  <2>3. CASE Trouble(e, r, s)  BY <2>3
  <2>4. CASE \E t, u : /\ Comes(r, s, u, Len(d1) + Len(d2)) /\ t \in Running
                       /\ Leaves(x, L, ok, s, t) /\ Leaves(y, L, ok, t, u)
    <3>1. PICK t, u : /\ Comes(r, s, u, Len(d1) + Len(d2)) /\ t \in Running
                      /\ Leaves(x, L, ok, s, t) /\ Leaves(y, L, ok, t, u)
      BY <2>4
    <3>2. u \in Running /\ u.at = s.at + (Len(d1) + Len(d2)) /\ Reaches(r, s, u)
      BY <3>1 DEF Comes, Further
    <3>3. At(r, u.at, <<Inst(op)>>)  BY <2>2, <3>2 DEF q
    <3>4. CASE Stuck(r, u) /\ Len(u.ws) < 2
      <4>1. Stuck(r, s)  BY <3>2, <3>4, StuckLater
      <4>2. Lacks(e)
        <5> SUFFICES ASSUME ~Lacks(e) PROVE FALSE
          OBVIOUS
        <5>1. PICK b \in Bytes, k \in Bytes :
                 u.ws = Append(Append(s.ws, b), k) /\ Pairs(x, y, L, ok, s, u, b, k)
          BY <1>5, <3>1, TwoValues
        <5>2. Len(u.ws) >= 2 /\ Len(u.ws) \in Nat  BY <2>1, <5>1, PopTwo
        <5> QED  BY <3>4, <5>2
      <4> QED  BY <4>1, <4>2 DEF Trouble
    <3>5. ASSUME NEW v, Further(u, v, 1), Reaches(r, u, v), Kept(u, v),
                 \A w \in Seq(Bytes), b, k \in Bytes :
                   u.ws = Append(Append(w, b), k) => v.ws = Append(w, M!Arith(op, b, k))
          PROVE  Comes(r, s, v, Len(c)) /\ Leaves(e, L, ok, s, v)
      <4>0. Len(d1) + Len(d2) \in Nat  BY <1>1
      <4>1. Comes(r, s, v, Len(d1) + Len(d2) + 1)
        BY <3>1, <3>5, <4>0, ComesOn DEF Comes
      <4>2. Leaves(e, L, ok, s, v)  BY <1>10, <3>1, <3>2, <3>5
      <4> QED  BY <1>9, <4>1, <4>2
    <3>6. \/ Stuck(r, u) /\ Len(u.ws) < 2
          \/ \E v : /\ Further(u, v, 1) /\ Reaches(r, u, v) /\ Kept(u, v)
                    /\ \A w \in Seq(Bytes), b, k \in Bytes :
                         u.ws = Append(Append(w, b), k) => v.ws = Append(w, M!Arith(op, b, k))
      BY <1>2, <3>2, <3>3, ComputeRuns
    <3> QED  BY <3>4, <3>5, <3>6
  <2>5. \/ Trouble(e, r, s)
        \/ \E t, u : /\ Comes(r, s, u, Len(d1) + Len(d2)) /\ t \in Running
                     /\ Leaves(x, L, ok, s, t) /\ Leaves(y, L, ok, t, u)
    <3>1. Good(x, d1, L, ok) /\ Good(y, d2, L, ok)  BY DEF x, y
    <3> QED  BY <1>3, <2>2, <3>1, TwoRun
  <2> QED  BY <2>3, <2>4, <2>5
<1>12. Good(e, c, L, ok)
  <2>1. Len(c) = CodeLen[e]  BY <1>1, <1>6, <1>9
  <2> QED  BY <1>9, <1>11, <2>1 DEF Good
<1> QED  BY <1>12 DEF c, q, op

LEMMA DerefAssignGood ==
  ASSUME NEW e \in Expressions, e.tag = "DEREF_ASSIGN_E", NEW L, NEW ok,
         NEW d1, Good(e.e1, d1, L, ok), NEW d2, Good(e.e2, d2, L, ok),
         Lets[e] \subseteq NamesOf(L)
  PROVE  Good(e, d2 \o d1 \o <<Inst("DEO")>>, L, ok)
<1> DEFINE x == e.e2
           y == e.e1
           q == <<Inst("DEO")>>
           c == d2 \o d1 \o q
<1>1. /\ d1 \in CodeType /\ Len(d1) = CodeLen[y] /\ Len(d1) \in Nat
      /\ d2 \in CodeType /\ Len(d2) = CodeLen[x] /\ Len(d2) \in Nat
  BY LenIsNat DEF Good
<1>2. q \in CodeType /\ Len(q) = 1
  <2>1. "DEO" \in Opcodes  BY DEF Opcodes
  <2> QED  BY <2>1, OneInst
<1>3. Within(x, e) /\ Within(y, e)  BY PartsWithin
<1>4. ~HasValue[e]
  <2>1. HasValue[e] = HasValueStep(HasValue, e)  BY HasValueObeys
  <2> QED  BY <2>1 DEF HasValueStep, BinTags
<1>5. ~Lacks(e) => ~Lacks(x) /\ HasValue[x] /\ ~Lacks(y) /\ HasValue[y]
  <2>1. ~Lacks(e) => ~MissesValue(e)  BY SelfInside
  <2>2. ~Lacks(e) => ~Lacks(x) /\ ~Lacks(y)  BY <1>3, PartsShare
  <2> QED  BY <2>1, <2>2 DEF MissesValue
<1>6. CodeLen[e] = 1 + (CodeLen[y] + CodeLen[x])
  <2>1. SubExprs(e) = <<y, x>>  BY DerefAssignParts
  <2>2. Len(SubExprs(e)) = 2 /\ SubExprs(e)[1] = y /\ SubExprs(e)[2] = x  BY <2>1
  <2>3. OwnCells(e) = 1  BY DEF OwnCells, BinTags
  <2> QED  BY <2>2, <2>3, CellCount
<1>7. Clean(e) => Clean(x) /\ Clean(y)  BY <1>3, PartsShare
<1>8. \A z \in States :
        Eval[e][z] = [Eval[y][Eval[x][z]] EXCEPT
                        !.out = Append(@, <<Eval[y][Eval[x][z]].val, Eval[x][z].val>>),
                        !.val = NoValue]
  BY EvalObeys DEF After, BinTags
<1> HIDE DEF x, y, q
<1>9. c \in CodeType /\ Len(c) = Len(d2) + Len(d1) + 1
  <2>1. d2 \o d1 \o q \in CodeType /\ Len(d2 \o d1 \o q) = Len(d2) + Len(d1) + Len(q)
    BY <1>1, <1>2, Three
  <2> QED  BY <1>2, <2>1
<1>10. ASSUME NEW s \in Running, NEW t \in Running, NEW u \in Running, NEW v,
              Leaves(x, L, ok, s, t), Leaves(y, L, ok, t, u), v.zp = u.zp,
              \A w \in Seq(Bytes), b, k \in Bytes :
                u.ws = Append(Append(w, b), k) => v.ws = w /\ v.out = Append(u.out, <<k, b>>)
       PROVE  Leaves(e, L, ok, s, v)
  <2> SUFFICES ASSUME ~Lacks(e)
               PROVE  /\ v.ws = s.ws
                      /\ ok /\ Clean(e) =>
                           \A N, z : Fits(L, N) /\ Mirrors(N, z, s) => Mirrors(N, Eval[e][z], v)
    BY <1>4 DEF Leaves
  <2>1. PICK b \in Bytes, k \in Bytes :
           /\ u.ws = Append(Append(s.ws, b), k)
           /\ Pairs(x, y, L, ok, s, u, b, k)
    BY <1>5, <1>10, TwoValues
  <2>2. v.ws = s.ws /\ v.out = Append(u.out, <<k, b>>)
    <3>1. s.ws \in Seq(Bytes)  BY DEF Running
    <3> QED  BY <1>10, <2>1, <3>1
  <2>3. ASSUME ok, Clean(e), NEW N, NEW z, Fits(L, N), Mirrors(N, z, s)
        PROVE  Mirrors(N, Eval[e][z], v)
    <3> DEFINE m == Eval[x][z]
               n == Eval[y][m]
    <3>1. Mirrors(N, n, u) /\ m.val = b /\ n.val = k
      BY <1>7, <2>1, <2>3 DEF Paired, Pairs
    <3>2. z \in States  BY <2>3 DEF Mirrors
    <3>3. Eval[e][z] = [n EXCEPT !.out = Append(@, <<n.val, m.val>>), !.val = NoValue]
      BY <1>8, <3>2
    <3> HIDE DEF m, n
    <3> DEFINE h == [n EXCEPT !.out = Append(@, <<k, b>>), !.val = NoValue]
    <3>4. Eval[e][z] = h  BY <3>1, <3>3
    <3>5. n \in States /\ k \in Values /\ b \in Values
      BY <3>1 DEF Mirrors, Bytes, Values, NoValue
    <3>6. h \in States /\ h.env = n.env /\ h.out = Append(n.out, <<k, b>>)
      BY <3>5, Sent
    <3> HIDE DEF h
    <3>7. Mirrors(N, h, v)  BY <1>10, <2>2, <3>1, <3>6 DEF Mirrors
    <3> QED  BY <3>4, <3>7
  <2> QED  BY <2>2, <2>3
<1>11. Behaves(e, c, L, ok)
  <2> SUFFICES ASSUME NEW r \in CodeType, NEW s \in Running, At(r, s.at, c), StaysOnTrack(e)
               PROVE  \/ Trouble(e, r, s)
                      \/ \E t : Comes(r, s, t, Len(c)) /\ Leaves(e, L, ok, s, t)
    BY DEF Behaves
  <2>1. s.at \in Nat /\ s.ws \in Seq(Bytes)  BY DEF Running
  <2>2. /\ At(r, s.at, d2) /\ At(r, s.at + Len(d2), d1)
        /\ At(r, s.at + (Len(d2) + Len(d1)), q)
    BY <1>1, <1>2, <2>1, Three
  <2> HIDE DEF c
  <2>3. CASE Trouble(e, r, s)  BY <2>3
  <2>4. CASE \E t, u : /\ Comes(r, s, u, Len(d2) + Len(d1)) /\ t \in Running
                       /\ Leaves(x, L, ok, s, t) /\ Leaves(y, L, ok, t, u)
    <3>1. PICK t, u : /\ Comes(r, s, u, Len(d2) + Len(d1)) /\ t \in Running
                      /\ Leaves(x, L, ok, s, t) /\ Leaves(y, L, ok, t, u)
      BY <2>4
    <3>2. u \in Running /\ u.at = s.at + (Len(d2) + Len(d1)) /\ Reaches(r, s, u)
      BY <3>1 DEF Comes, Further
    <3>3. At(r, u.at, <<Inst("DEO")>>)  BY <2>2, <3>2 DEF q
    <3>4. CASE Stuck(r, u) /\ Len(u.ws) < 2
      <4>1. Stuck(r, s)  BY <3>2, <3>4, StuckLater
      <4>2. Lacks(e)
        <5> SUFFICES ASSUME ~Lacks(e) PROVE FALSE
          OBVIOUS
        <5>1. PICK b \in Bytes, k \in Bytes :
                 u.ws = Append(Append(s.ws, b), k) /\ Pairs(x, y, L, ok, s, u, b, k)
          BY <1>5, <3>1, TwoValues
        <5>2. Len(u.ws) >= 2 /\ Len(u.ws) \in Nat  BY <2>1, <5>1, PopTwo
        <5> QED  BY <3>4, <5>2
      <4> QED  BY <4>1, <4>2 DEF Trouble
    <3>5. ASSUME NEW v, Further(u, v, 1), Reaches(r, u, v), v.zp = u.zp,
                 \A w \in Seq(Bytes), b, k \in Bytes :
                   u.ws = Append(Append(w, b), k) => v.ws = w /\ v.out = Append(u.out, <<k, b>>)
          PROVE  Comes(r, s, v, Len(c)) /\ Leaves(e, L, ok, s, v)
      <4>0. Len(d2) + Len(d1) \in Nat  BY <1>1
      <4>1. Comes(r, s, v, Len(d2) + Len(d1) + 1)
        BY <3>1, <3>5, <4>0, ComesOn DEF Comes
      <4>2. Leaves(e, L, ok, s, v)  BY <1>10, <3>1, <3>2, <3>5
      <4> QED  BY <1>9, <4>1, <4>2
    <3>6. \/ Stuck(r, u) /\ Len(u.ws) < 2
          \/ \E v : /\ Further(u, v, 1) /\ Reaches(r, u, v) /\ v.zp = u.zp
                    /\ \A w \in Seq(Bytes), b, k \in Bytes :
                         u.ws = Append(Append(w, b), k) => v.ws = w /\ v.out = Append(u.out, <<k, b>>)
      BY <3>2, <3>3, DeoRuns
    <3> QED  BY <3>4, <3>5, <3>6
  <2>5. \/ Trouble(e, r, s)
        \/ \E t, u : /\ Comes(r, s, u, Len(d2) + Len(d1)) /\ t \in Running
                     /\ Leaves(x, L, ok, s, t) /\ Leaves(y, L, ok, t, u)
    <3>1. Good(x, d2, L, ok) /\ Good(y, d1, L, ok)  BY DEF x, y
    <3> QED  BY <1>3, <2>2, <3>1, TwoRun
  <2> QED  BY <2>3, <2>4, <2>5
<1>12. Good(e, c, L, ok)
  <2>1. Len(c) = CodeLen[e]  BY <1>1, <1>6, <1>9
  <2> QED  BY <1>9, <1>11, <2>1 DEF Good
<1> QED  BY <1>12 DEF c, q

-----------------------------------------------------------------------------
(* A sequence: the first k parts of e, and their cells g[k].               *)
SeqParts(e, d, n, g, L, ok) ==
  /\ e \in Expressions /\ e.tag = "SEQUENCE_E"
  /\ n = Len(e.list) /\ n \in Nat
  /\ d \in Seq(CodeType) /\ Len(d) = n
  /\ \A k \in 1 .. n : Good(e.list[k], d[k], L, ok)
  /\ IsUpTo(d, n, g)

SeqLeaves(e, k, L, ok, s, t) ==
  ~Lacks(e) =>
    /\ (\A j \in 1 .. k : IsStatement[e.list[j]]) => t.ws = s.ws
    /\ ok /\ Clean(e) =>
         \A W, x : Fits(L, W) /\ Mirrors(W, x, s) =>
           \A f : Folds(Steps(Eval, e), x, Len(e.list), f) => Mirrors(W, f[k], t)

SeqBehaves(e, k, c, L, ok) ==
  \A r \in CodeType, s \in Running :
    At(r, s.at, c) /\ StaysOnTrack(e) =>
      \/ Trouble(e, r, s)
      \/ \E t : Comes(r, s, t, Len(c)) /\ SeqLeaves(e, k, L, ok, s, t)

LEMMA SeqStarts ==
  ASSUME NEW e, NEW d, NEW n, NEW g, NEW L, NEW ok, SeqParts(e, d, n, g, L, ok)
  PROVE  g[0] = <<>> /\ SeqBehaves(e, 0, g[0], L, ok)
<1>1. g[0] = <<>>
  <2>1. 0 \in 0 .. n  BY DEF SeqParts
  <2> QED  BY <2>1 DEF SeqParts, IsUpTo
<1>2. Len(g[0]) = 0  BY <1>1
<1>3. ASSUME NEW r \in CodeType, NEW s \in Running
      PROVE  Comes(r, s, s, 0) /\ SeqLeaves(e, 0, L, ok, s, s)
  <2>1. s.at \in Nat  BY DEF Running
  <2>2. Comes(r, s, s, 0)  BY <2>1, ReachesSelf DEF Comes, Further
  <2>3. \A x, f : Folds(Steps(Eval, e), x, Len(e.list), f) => f[0] = x
    <3>1. 0 \in 0 .. Len(e.list)  BY DEF SeqParts
    <3> QED  BY <3>1 DEF Folds
  <2>4. SeqLeaves(e, 0, L, ok, s, s)  BY <2>3 DEF SeqLeaves
  <2> QED  BY <2>2, <2>4
<1> QED  BY <1>1, <1>2, <1>3 DEF SeqBehaves

LEMMA SeqGoesOn ==
  ASSUME NEW e, NEW d, NEW n, NEW g, NEW L, NEW ok, SeqParts(e, d, n, g, L, ok),
         NEW k \in 1 .. n, g[k - 1] \in CodeType, SeqBehaves(e, k - 1, g[k - 1], L, ok)
  PROVE  /\ g[k] \in CodeType /\ Len(g[k]) = Len(g[k - 1]) + Len(d[k])
         /\ SeqBehaves(e, k, g[k], L, ok)
<1> DEFINE b == g[k - 1]
           p == d[k]
           c == g[k]
           x == e.list[k]
           j == k - 1
<1>1. k \in 0 .. n /\ j \in 0 .. n /\ k \in 1 .. Len(e.list) /\ n \in Nat
  BY DEF SeqParts
<1>2. c = b \o p
  <2>1. g[k] = IF k = 0 THEN <<>> ELSE g[k - 1] \o d[k]
    <3>1. IsUpTo(d, n, g) /\ k \in 0 .. n  BY <1>1 DEF SeqParts
    <3> QED  BY <3>1 DEF IsUpTo
  <2>2. k # 0  BY <1>1
  <2> QED  BY <2>1, <2>2
<1>3. b \in CodeType /\ p \in CodeType /\ Good(x, p, L, ok) /\ Len(b) \in Nat /\ Len(p) \in Nat
  BY LenIsNat DEF SeqParts, Good
<1>4. c \in CodeType /\ Len(c) = Len(b) + Len(p)
  <2> HIDE DEF b, p, c
  <2>1. b \o p \in CodeType /\ Len(b \o p) = Len(b) + Len(p)  BY <1>3, CodeJoined
  <2> QED  BY <1>2, <2>1
<1>5. Within(x, e)  BY <1>1, PartsWithin DEF SeqParts
<1>6. ASSUME NEW s, NEW t, NEW u, SeqLeaves(e, j, L, ok, s, t), Leaves(x, L, ok, t, u)
      PROVE  SeqLeaves(e, k, L, ok, s, u)
  <2> SUFFICES ASSUME ~Lacks(e)
               PROVE  /\ (\A i \in 1 .. k : IsStatement[e.list[i]]) => u.ws = s.ws
                      /\ ok /\ Clean(e) =>
                           \A W, z : Fits(L, W) /\ Mirrors(W, z, s) =>
                             \A f : Folds(Steps(Eval, e), z, Len(e.list), f) => Mirrors(W, f[k], u)
    BY DEF SeqLeaves
  <2>1. ~Lacks(x) /\ (Clean(e) => Clean(x))  BY <1>5, PartsShare
  <2>2. (\A i \in 1 .. k : IsStatement[e.list[i]]) => u.ws = s.ws
    <3> SUFFICES ASSUME \A i \in 1 .. k : IsStatement[e.list[i]] PROVE u.ws = s.ws
      OBVIOUS
    <3>1. (\A i \in 1 .. j : i \in 1 .. k) /\ k \in 1 .. k  BY <1>1
    <3>2. t.ws = s.ws  BY <1>6, <3>1 DEF SeqLeaves
    <3>3. IsStatement[x]  BY <3>1
    <3> HIDE DEF x
    <3> QED  BY <1>6, <2>1, <3>2, <3>3 DEF Leaves
  <2>3. ASSUME ok, Clean(e), NEW W, NEW z, Fits(L, W), Mirrors(W, z, s),
               NEW f, Folds(Steps(Eval, e), z, Len(e.list), f)
        PROVE  Mirrors(W, f[k], u)
    <3>1. Mirrors(W, f[j], t)  BY <1>6, <2>3 DEF SeqLeaves
    <3>2. f[k] = Steps(Eval, e)[k][f[j]]
      <4>1. k \in 0 .. Len(e.list) /\ k # 0  BY <1>1
      <4> QED  BY <2>3, <4>1 DEF Folds
    <3>3. Steps(Eval, e)[k] = Eval[x]  BY <1>1, StepsAre DEF SeqParts
    <3> DEFINE y == f[j]
    <3>4. Mirrors(W, y, t) /\ f[k] = Eval[x][y]  BY <3>1, <3>2, <3>3
    <3> HIDE DEF y, x
    <3>5. Mirrors(W, Eval[x][y], u)  BY <1>6, <2>1, <2>3, <3>4 DEF Leaves
    <3> QED  BY <3>4, <3>5
  <2> QED  BY <2>2, <2>3
<1>7. SeqBehaves(e, j, b, L, ok)
  OBVIOUS
<1> HIDE DEF b, c, p, x, j
<1>8. SeqBehaves(e, k, c, L, ok)
  <2> SUFFICES ASSUME NEW r \in CodeType, NEW s \in Running, At(r, s.at, c), StaysOnTrack(e)
               PROVE  \/ Trouble(e, r, s)
                      \/ \E t : Comes(r, s, t, Len(c)) /\ SeqLeaves(e, k, L, ok, s, t)
    BY DEF SeqBehaves
  <2>1. s.at \in Nat  BY DEF Running
  <2>2. At(r, s.at, b) /\ At(r, s.at + Len(b), p)  BY <1>2, <1>3, <2>1, AtJoined
  <2>3. \/ Trouble(e, r, s)
        \/ \E t : Comes(r, s, t, Len(b)) /\ SeqLeaves(e, j, L, ok, s, t)
    BY <1>7, <2>2 DEF SeqBehaves
  <2>4. ASSUME NEW t, Comes(r, s, t, Len(b)), SeqLeaves(e, j, L, ok, s, t)
        PROVE  \/ Trouble(e, r, s)
               \/ \E u : Comes(r, s, u, Len(c)) /\ SeqLeaves(e, k, L, ok, s, u)
    <3>1. t \in Running /\ t.at = s.at + Len(b) /\ Reaches(r, s, t)
      BY <2>4 DEF Comes, Further
    <3>2. At(r, t.at, p)  BY <2>2, <3>1
    <3>3. StaysOnTrack(x) /\ (Trouble(x, r, t) => Trouble(e, r, t))  BY <1>5, PartsShare
    <3>4. \/ Trouble(x, r, t)
          \/ \E u : Comes(r, t, u, Len(p)) /\ Leaves(x, L, ok, t, u)
      BY <1>3, <3>1, <3>2, <3>3, GoodPart
    <3>5. CASE Trouble(x, r, t)  BY <3>1, <3>3, <3>5, TroubleLater
    <3>6. CASE \E u : Comes(r, t, u, Len(p)) /\ Leaves(x, L, ok, t, u)
      <4>1. PICK u : Comes(r, t, u, Len(p)) /\ Leaves(x, L, ok, t, u)  BY <3>6
      <4>2. Comes(r, s, u, Len(b) + Len(p))  BY <1>3, <2>4, <4>1, ComesOn
      <4>3. SeqLeaves(e, k, L, ok, s, u)  BY <1>6, <2>4, <4>1
      <4> QED  BY <1>4, <4>2, <4>3
    <3> QED  BY <3>4, <3>5, <3>6
  <2> QED  BY <2>3, <2>4
<1> QED  BY <1>4, <1>8 DEF b, c, p

LEMMA SeqRuns ==
  ASSUME NEW e, NEW d, NEW n, NEW g, NEW L, NEW ok, SeqParts(e, d, n, g, L, ok)
  PROVE  g[n] \in CodeType /\ Len(g[n]) = CodeLen[e] /\ SeqBehaves(e, n, g[n], L, ok)
<1> DEFINE l == PartLens(CodeLen, e)
<1>1. /\ Len(l) = n /\ n \in Nat
      /\ \A k \in 1 .. n : l[k] = Len(d[k])
  <2>1. SubExprs(e) = e.list /\ e \in Expressions /\ n = Len(e.list) /\ n \in Nat
    BY SequenceParts DEF SeqParts
  <2>2. Len(l) = n /\ \A k \in 1 .. n : l[k] = CodeLen[e.list[k]]
    BY <2>1, PartLensAre
  <2>3. \A k \in 1 .. n : Len(d[k]) = CodeLen[e.list[k]]  BY DEF SeqParts, Good
  <2> QED  BY <2>1, <2>2, <2>3
<1>2. CodeLen[e] = Total(l)
  <2>1. CodeLen[e] = OwnCells(e) + Total(l)  BY CodeLenObeys DEF CodeLenStep, SeqParts
  <2>2. OwnCells(e) = 0  BY DEF OwnCells, SeqParts, BinTags
  <2>3. Total(l) \in Nat
    <3>1. \A k \in 1 .. Len(l) : l[k] \in Nat
      <4>1. \A k \in 1 .. n : d[k] \in CodeType  BY DEF SeqParts, Good
      <4> QED  BY <1>1, <4>1, LenIsNat
    <3> HIDE DEF l
    <3> QED  BY <1>1, <3>1, TotalIsNat
  <2> HIDE DEF l
  <2> QED  BY <2>1, <2>2, <2>3
<1> HIDE DEF l
<1>3. PICK h : Adds(l, n, h) /\ Total(l) = h[n]  BY <1>1, TotalIs
<1> DEFINE Fine(k) == /\ g[k] \in CodeType /\ Len(g[k]) = h[k]
                      /\ SeqBehaves(e, k, g[k], L, ok)
           T == {k \in 0 .. n : ~Fine(k)}
<1>4. T = {}
  <2> SUFFICES ASSUME T # {} PROVE FALSE
    OBVIOUS
  <2>1. PICK k \in T : \A y \in T : k <= y
    <3>1. T \subseteq Nat  BY <1>1
    <3> HIDE DEF T
    <3> QED  BY <3>1, Least
  <2>2. k \in 0 .. n /\ ~Fine(k)  BY <2>1
  <2>3. h[k] = IF k = 0 THEN 0 ELSE h[k - 1] + l[k]  BY <1>3, <2>2 DEF Adds
  <2>4. k # 0
    <3>1. g[0] = <<>> /\ SeqBehaves(e, 0, g[0], L, ok)  BY SeqStarts
    <3>2. g[0] \in CodeType /\ Len(g[0]) = 0  BY <3>1, EmptySeq DEF CodeType
    <3> HIDE DEF T
    <3> QED  BY <2>2, <2>3, <3>1, <3>2
  <2>5. k - 1 \in 0 .. n /\ k - 1 \notin T /\ k \in 1 .. n  BY <1>1, <2>1, <2>2, <2>4
  <2>6. Fine(k - 1)  BY <2>5
  <2>7. /\ g[k] \in CodeType /\ Len(g[k]) = Len(g[k - 1]) + Len(d[k])
        /\ SeqBehaves(e, k, g[k], L, ok)
    BY <2>5, <2>6, SeqGoesOn
  <2>8. Len(g[k]) = h[k]  BY <1>1, <2>3, <2>4, <2>5, <2>6, <2>7
  <2> QED  BY <2>2, <2>7, <2>8
<1>5. Fine(n)
  <2>1. n \in 0 .. n  BY <1>1
  <2> QED  BY <1>4, <2>1
<1> QED  BY <1>2, <1>3, <1>5

LEMMA SequenceMeans ==
  ASSUME NEW e \in Expressions, e.tag = "SEQUENCE_E", NEW x \in States
  PROVE  \E f : Folds(Steps(Eval, e), x, Len(e.list), f) /\ Eval[e][x] = f[Len(e.list)]
<1>1. Eval[e][x] = InTurn(Steps(Eval, e), x)  BY EvalObeys DEF After, BinTags, Steps
<1>2. Len(Steps(Eval, e)) = Len(e.list) /\ Len(e.list) \in Nat  BY StepsAre
<1>3. Len(Steps(Eval, e)) \in Nat  BY <1>2
<1> DEFINE steps == Steps(Eval, e)
<1> HIDE DEF steps
<1>4. \E f : Folds(steps, x, Len(steps), f) /\ InTurn(steps, x) = f[Len(steps)]
  BY <1>3, InTurnIs DEF steps
<1> QED  BY <1>1, <1>2, <1>4 DEF steps

LEMMA SequenceGood ==
  ASSUME NEW e, NEW d, NEW n, NEW g, NEW L, NEW ok, SeqParts(e, d, n, g, L, ok),
         Lets[e] \subseteq NamesOf(L)
  PROVE  Good(e, g[n], L, ok)
<1> DEFINE c == g[n]
<1>1. c \in CodeType /\ Len(c) = CodeLen[e] /\ SeqBehaves(e, n, c, L, ok)  BY SeqRuns
<1>2. e \in Expressions /\ e.tag = "SEQUENCE_E" /\ n = Len(e.list) /\ n \in Nat
  BY DEF SeqParts
<1>3. HasValue[e] <=> n = 1 /\ HasValue[e.list[1]]
  <2>1. HasValue[e] = HasValueStep(HasValue, e)  BY <1>2, HasValueObeys
  <2> QED  BY <1>2, <2>1 DEF HasValueStep, BinTags
<1>4. IsStatement[e] => \A k \in 1 .. n : IsStatement[e.list[k]]
  <2>1. IsStatement[e] = IsStatementStep(IsStatement, e)  BY <1>2, IsStatementObeys
  <2>2. DOMAIN e.list = 1 .. n  BY <1>2, SequenceParts, LenProperties
  <2> QED  BY <1>2, <2>1, <2>2 DEF IsStatementStep
<1>5. CASE n # 1
  <2>1. ASSUME NEW s, NEW t, SeqLeaves(e, n, L, ok, s, t)
        PROVE  Leaves(e, L, ok, s, t)
    <3> SUFFICES ASSUME ~Lacks(e)
                 PROVE  /\ IsStatement[e] => t.ws = s.ws
                        /\ ok /\ Clean(e) =>
                             \A W, x : Fits(L, W) /\ Mirrors(W, x, s) => Mirrors(W, Eval[e][x], t)
      BY <1>3, <1>5 DEF Leaves
    <3>1. IsStatement[e] => t.ws = s.ws  BY <1>4, <2>1 DEF SeqLeaves
    <3>2. ASSUME ok, Clean(e), NEW W, NEW x, Fits(L, W), Mirrors(W, x, s)
          PROVE  Mirrors(W, Eval[e][x], t)
      <4>1. x \in States  BY <3>2 DEF Mirrors
      <4>2. PICK f : Folds(Steps(Eval, e), x, n, f) /\ Eval[e][x] = f[n]
        BY <1>2, <4>1, SequenceMeans
      <4>3. Mirrors(W, f[n], t)  BY <1>2, <2>1, <3>2, <4>2 DEF SeqLeaves
      <4> QED  BY <4>2, <4>3
    <3> QED  BY <3>1, <3>2
  <2> HIDE DEF c
  <2>2. Behaves(e, c, L, ok)  BY <1>1, <2>1 DEF Behaves, SeqBehaves
  <2> QED  BY <1>1, <2>2 DEF Good, c
<1>6. CASE n = 1
  <2> DEFINE x == e.list[1]
             p == d[1]
  <2>1. /\ c = <<>> \o p /\ p \in CodeType /\ Good(x, p, L, ok) /\ Within(x, e)
    <3>1. g[1] = g[0] \o d[1]
      <4>1. g[1] = IF 1 = 0 THEN <<>> ELSE g[1 - 1] \o d[1]
        <5>1. IsUpTo(d, n, g) /\ 1 \in 0 .. n  BY <1>6 DEF SeqParts
        <5> QED  BY <5>1 DEF IsUpTo
      <4> QED  BY <4>1
    <3>2. g[0] = <<>>  BY SeqStarts
    <3>3. 1 \in 1 .. n  BY <1>6
    <3>4. Good(x, p, L, ok)  BY <3>3 DEF SeqParts
    <3>5. Within(x, e)  BY <1>2, <3>3, PartsWithin
    <3> QED  BY <1>6, <3>1, <3>2, <3>4, <3>5 DEF Good
  <2>2. \A z \in States : Eval[e][z] = Eval[x][z]
    <3> SUFFICES ASSUME NEW z \in States PROVE Eval[e][z] = Eval[x][z]
      OBVIOUS
    <3>1. PICK f : Folds(Steps(Eval, e), z, n, f) /\ Eval[e][z] = f[n]
      BY <1>2, SequenceMeans
    <3>2. f[0] = z /\ f[1] = Steps(Eval, e)[1][f[0]]
      <4>1. \A k \in 0 .. n : f[k] = IF k = 0 THEN z ELSE Steps(Eval, e)[k][f[k - 1]]
        BY <3>1 DEF Folds
      <4>2. 0 \in 0 .. n /\ 1 \in 0 .. n  BY <1>6
      <4>3. f[0] = z /\ f[1] = Steps(Eval, e)[1][f[1 - 1]]  BY <4>1, <4>2
      <4> QED  BY <4>3
    <3>3. Steps(Eval, e)[1] = Eval[x]
      <4>1. 1 \in 1 .. Len(e.list)  BY <1>2, <1>6
      <4> QED  BY <1>2, <4>1, StepsAre
    <3> QED  BY <1>6, <3>1, <3>2, <3>3
  <2>3. IsStatement[e] => IsStatement[x]  BY <1>4, <1>6
  <2>4. HasValue[e] => HasValue[x]  BY <1>3
  <2> HIDE DEF c, p, x
  <2>5. ASSUME NEW s, NEW t, Leaves(x, L, ok, s, t)
        PROVE  Leaves(e, L, ok, s, t)
    <3>1. (~Lacks(e) => ~Lacks(x)) /\ (Clean(e) => Clean(x))  BY <2>1, PartsShare
    <3>2. ASSUME ~Lacks(e), ok, Clean(e), NEW W, NEW z, Fits(L, W), Mirrors(W, z, s)
          PROVE  /\ Mirrors(W, Eval[e][z], t)
                 /\ HasValue[e] => t.ws = Append(s.ws, Eval[e][z].val)
      <4>1. Eval[e][z] = Eval[x][z]  BY <2>2, <3>2 DEF Mirrors
      <4> DEFINE y == Eval[x][z]
      <4>2. Mirrors(W, y, t) /\ (HasValue[x] => t.ws = Append(s.ws, y.val))
        BY <2>5, <3>1, <3>2 DEF Leaves
      <4> HIDE DEF y
      <4> QED  BY <2>4, <4>1, <4>2 DEF y
    <3>3. ~Lacks(e) => /\ HasValue[e] => \E b \in Bytes : t.ws = Append(s.ws, b)
                       /\ IsStatement[e] => t.ws = s.ws
      BY <2>3, <2>4, <2>5, <3>1 DEF Leaves
    <3> QED  BY <3>2, <3>3 DEF Leaves
  <2>6. Behaves(e, c, L, ok)
    <3> SUFFICES ASSUME NEW r \in CodeType, NEW s \in Running, At(r, s.at, c), StaysOnTrack(e)
                 PROVE  \/ Trouble(e, r, s)
                        \/ \E t : Comes(r, s, t, Len(c)) /\ Leaves(e, L, ok, s, t)
      BY DEF Behaves
    <3> DEFINE none == <<>>
    <3>0. none \in CodeType /\ Len(none) = 0 /\ c = none \o p  BY <2>1, EmptySeq DEF CodeType
    <3> HIDE DEF none
    <3>1. s.at \in Nat /\ At(r, s.at, none \o p)  BY <3>0 DEF Running
    <3>2. At(r, s.at + Len(none), p) /\ Len(none \o p) = Len(none) + Len(p) /\ Len(p) \in Nat
      BY <2>1, <3>0, <3>1, AtJoined
    <3>3. At(r, s.at, p) /\ Len(c) = Len(p)
      <4>1. s.at + Len(none) = s.at  BY <3>0, <3>1
      <4>2. Len(c) = Len(p)  BY <3>0, <3>2
      <4> QED  BY <3>2, <4>1, <4>2
    <3>4. StaysOnTrack(x) /\ (Trouble(x, r, s) => Trouble(e, r, s))  BY <2>1, PartsShare
    <3>5. \/ Trouble(x, r, s)
          \/ \E t : Comes(r, s, t, Len(p)) /\ Leaves(x, L, ok, s, t)
      BY <2>1, <3>3, <3>4, GoodPart
    <3> QED  BY <2>5, <3>3, <3>4, <3>5
  <2> QED  BY <1>1, <2>6 DEF Good, c
<1> QED  BY <1>5, <1>6

-----------------------------------------------------------------------------
(* Code of three pieces: its cells, and where the pieces stand.            *)
Piled(c, x, y, z) ==
  /\ c \in CodeType /\ Len(c) = Len(x) + Len(y) + Len(z)
  /\ \A r : \A a \in Nat : At(r, a, c) =>
       /\ At(r, a, x) /\ At(r, a + Len(x), y)
       /\ At(r, a + (Len(x) + Len(y)), z)

LEMMA Piles ==
  \A x, y, z \in CodeType : Piled(x \o y \o z, x, y, z)
<1> SUFFICES ASSUME NEW x \in CodeType, NEW y \in CodeType, NEW z \in CodeType
             PROVE  Piled(x \o y \o z, x, y, z)
  OBVIOUS
<1> DEFINE c == x \o y \o z
<1>1. c \in CodeType /\ Len(c) = Len(x) + Len(y) + Len(z)  BY Three
<1>2. \A r : \A a \in Nat : At(r, a, c) =>
         /\ At(r, a, x) /\ At(r, a + Len(x), y)
         /\ At(r, a + (Len(x) + Len(y)), z)
  BY Three
<1> HIDE DEF c
<1>3. Piled(c, x, y, z)  BY <1>1, <1>2 DEF Piled
<1> QED  BY <1>3 DEF c

(* A conditional: its cells one behind the other.                          *)
LEMMA BranchesAt ==
  ASSUME NEW d \in CodeType, NEW p \in CodeType, NEW q \in CodeType,
         Len(p) \in Short, Len(q) + 3 \in Short
  PROVE  LET c == Branches(d, p, q)
             D == Len(d)
             Q == Len(q)
         IN  /\ c \in CodeType /\ Len(c) = D + (Q + (Len(p) + 6))
             /\ D \in Nat /\ Q \in Nat /\ Len(p) \in Nat
             /\ \A r : \A a \in Nat : At(r, a, c) =>
                  /\ At(r, a, d) /\ At(r, a + D, Byte(Q + 3))
                  /\ At(r, a + (D + 2), <<Inst("JCN")>>)
                  /\ At(r, a + (D + 3), q)
                  /\ At(r, a + (D + (Q + 3)), Byte(Len(p)))
                  /\ At(r, a + (D + (Q + 5)), <<Inst("JMP")>>)
                  /\ At(r, a + (D + (Q + 6)), p)
<1> DEFINE b1 == Byte(Len(q) + 3)
           j1 == <<Inst("JCN")>>
           b2 == Byte(Len(p))
           j2 == <<Inst("JMP")>>
           h == d \o b1 \o j1
           m == h \o q \o b2
           c == m \o j2 \o p
<1>1. Branches(d, p, q) = c  BY DEF Branches
<1>2. b1 \in CodeType /\ Len(b1) = 2 /\ b2 \in CodeType /\ Len(b2) = 2
  <2>1. ASSUME NEW n \in Short PROVE Byte(n) \in CodeType /\ Len(Byte(n)) = 2
    BY ByteCells
  <2> QED  BY <2>1
<1>3. j1 \in CodeType /\ Len(j1) = 1 /\ j2 \in CodeType /\ Len(j2) = 1
  <2>1. "JCN" \in Opcodes /\ "JMP" \in Opcodes  BY DEF Opcodes
  <2> QED  BY <2>1, OneInst
<1>4. Len(d) \in Nat /\ Len(q) \in Nat /\ Len(p) \in Nat  BY LenIsNat
<1> HIDE DEF b1, j1, b2, j2
<1>5. Piled(h, d, b1, j1)  BY <1>2, <1>3, Piles
<1> HIDE DEF h
<1>6. h \in CodeType /\ Len(h) = Len(d) + 3  BY <1>2, <1>3, <1>4, <1>5 DEF Piled
<1>7. Piled(m, h, q, b2)  BY <1>2, <1>6, Piles
<1> HIDE DEF m
<1>8. m \in CodeType /\ Len(m) = Len(d) + (Len(q) + 5)
  BY <1>2, <1>4, <1>6, <1>7 DEF Piled
<1>9. Piled(c, m, j2, p)  BY <1>3, <1>8, Piles
<1> HIDE DEF c
<1>10. c \in CodeType /\ Len(c) = Len(d) + (Len(q) + (Len(p) + 6))
  BY <1>3, <1>4, <1>8, <1>9 DEF Piled
<1>11. ASSUME NEW r, NEW a \in Nat, At(r, a, c)
       PROVE  /\ At(r, a, d) /\ At(r, a + Len(d), b1)
              /\ At(r, a + (Len(d) + 2), j1)
              /\ At(r, a + (Len(d) + 3), q)
              /\ At(r, a + (Len(d) + (Len(q) + 3)), b2)
              /\ At(r, a + (Len(d) + (Len(q) + 5)), j2)
              /\ At(r, a + (Len(d) + (Len(q) + 6)), p)
  <2>1. At(r, a, m) /\ At(r, a + Len(m), j2) /\ At(r, a + (Len(m) + Len(j2)), p)
    BY <1>9, <1>11 DEF Piled
  <2>2. At(r, a, h) /\ At(r, a + Len(h), q) /\ At(r, a + (Len(h) + Len(q)), b2)
    BY <1>7, <2>1 DEF Piled
  <2>3. At(r, a, d) /\ At(r, a + Len(d), b1) /\ At(r, a + (Len(d) + Len(b1)), j1)
    BY <1>5, <2>2 DEF Piled
  <2>4. Len(m) + Len(j2) = Len(d) + (Len(q) + 6) /\ Len(h) + Len(q) = Len(d) + (Len(q) + 3)
    BY <1>3, <1>4, <1>6, <1>8
  <2> QED  BY <1>2, <1>6, <1>8, <2>1, <2>2, <2>3, <2>4
<1>12. \A r : \A a \in Nat : At(r, a, c) =>
         /\ At(r, a, d) /\ At(r, a + Len(d), b1)
         /\ At(r, a + (Len(d) + 2), j1)
         /\ At(r, a + (Len(d) + 3), q)
         /\ At(r, a + (Len(d) + (Len(q) + 3)), b2)
         /\ At(r, a + (Len(d) + (Len(q) + 5)), j2)
         /\ At(r, a + (Len(d) + (Len(q) + 6)), p)
  BY <1>11
<1> QED  BY <1>1, <1>4, <1>10, <1>12 DEF b1, b2, j1, j2

(* What a jump of a conditional can be: short, and ahead.                  *)
LEMMA Jumps ==
  ASSUME NEW n \in Hops
  PROVE  n \in Short /\ n \in Bytes /\ n \in Nat /\ n % 256 = n
<1>1. n \in Short /\ n \in Bytes /\ n \in Nat  BY DEF Short, Bytes, Hops
<1> QED  BY <1>1, ByteCells

(* A byte is pushed and jumped over that many cells.                       *)
LEMMA SkipRuns ==
  ASSUME NEW r \in CodeType, NEW s \in Running, NEW n \in Hops,
         At(r, s.at, Byte(n)), At(r, s.at + 2, <<Inst("JMP")>>)
  PROVE  \E t : Comes(r, s, t, 3 + n) /\ Kept(s, t) /\ t.ws = s.ws
<1>1. n \in Short /\ n \in Bytes /\ n \in Nat /\ n % 256 = n  BY Jumps
<1>2. PICK t : Comes(r, s, t, 2) /\ Kept(s, t) /\ t.ws = Append(s.ws, n)
  <2>1. \E t : Comes(r, s, t, 2) /\ Kept(s, t) /\ t.ws = Append(s.ws, n % 256)
    BY <1>1, PushRuns
  <2> QED  BY <1>1, <2>1
<1>3. t \in Running /\ t.at = s.at + 2  BY <1>2 DEF Comes, Further
<1>4. s.ws \in Seq(Bytes)  BY DEF Running
<1>5. PICK u : /\ Further(t, u, 1 + n) /\ Reaches(r, t, u) /\ Kept(t, u) /\ u.ws = s.ws
  <2> DEFINE w == s.ws
  <2>1. At(r, t.at, <<Inst("JMP")>>)  BY <1>3
  <2>2. w \in Seq(Bytes) /\ t.ws = Append(w, n)  BY <1>2, <1>4
  <2> HIDE DEF w
  <2>3. \E u : Further(t, u, 1 + n) /\ Reaches(r, t, u) /\ Kept(t, u) /\ u.ws = w
    BY <1>3, <2>1, <2>2, JmpRuns
  <2> QED  BY <2>3 DEF w
<1>6. Comes(r, s, u, 2 + (1 + n))
  <2>1. 1 + n \in Nat  BY <1>1
  <2>2. Comes(r, t, u, 1 + n)  BY <1>5 DEF Comes
  <2> QED  BY <1>2, <2>1, <2>2, ComesOn
<1>7. Comes(r, s, u, 3 + n)
  <2>1. 2 + (1 + n) = 3 + n  BY <1>1
  <2> QED  BY <1>6, <2>1
<1>8. Kept(s, u)  BY <1>2, <1>5 DEF Kept
<1> QED  BY <1>5, <1>7, <1>8

(* The condition of e takes the machine from s to t, at the if body when   *)
(* yes and at the else body when not.                                      *)
Turns(e, L, ok, s, t, yes) ==
  ~Lacks(e) =>
    /\ t.ws = s.ws
    /\ ok /\ Clean(e) =>
         \A W, x : Fits(L, W) /\ Mirrors(W, x, s) =>
           /\ Mirrors(W, Eval[e.cond][x], t)
           /\ (Eval[e.cond][x].val # 0) <=> yes

LEMMA CondRuns ==
  ASSUME NEW e \in Expressions, e.tag = "IF_ELSE_E", NEW L, NEW ok,
         NEW d, Good(e.cond, d, L, ok), NEW n \in Hops,
         NEW r \in CodeType, NEW s \in Running, StaysOnTrack(e),
         At(r, s.at, d), At(r, s.at + Len(d), Byte(n)),
         At(r, s.at + (Len(d) + 2), <<Inst("JCN")>>)
  PROVE  \/ Trouble(e, r, s)
         \/ \E t : Comes(r, s, t, Len(d) + 3) /\ Turns(e, L, ok, s, t, FALSE)
         \/ \E t : Comes(r, s, t, Len(d) + (n + 3)) /\ Turns(e, L, ok, s, t, TRUE)
<1> DEFINE x == e.cond
<1>1. Within(x, e)  BY PartsWithin
<1>2. /\ StaysOnTrack(x) /\ (Trouble(x, r, s) => Trouble(e, r, s)) /\ (Clean(e) => Clean(x))
      /\ ~Lacks(e) => ~Lacks(x) /\ HasValue[x]
  <2>1. ~Lacks(e) => ~MissesValue(e)  BY SelfInside
  <2>2. ~Lacks(e) => HasValue[x]  BY <2>1 DEF MissesValue
  <2> QED  BY <1>1, <2>2, PartsShare
<1> HIDE DEF x
<1>3. n \in Short /\ n \in Bytes /\ n \in Nat /\ n % 256 = n  BY Jumps
<1>4. Len(d) \in Nat /\ s.at \in Nat /\ s.ws \in Seq(Bytes)  BY LenIsNat DEF Good, Running
<1>5. \/ Trouble(x, r, s)
      \/ \E t : Comes(r, s, t, Len(d)) /\ Leaves(x, L, ok, s, t)
  BY <1>2, GoodPart DEF x
<1>6. ASSUME NEW t, Comes(r, s, t, Len(d)), Leaves(x, L, ok, s, t)
      PROVE  \/ Trouble(e, r, s)
             \/ \E v : Comes(r, s, v, Len(d) + 3) /\ Turns(e, L, ok, s, v, FALSE)
             \/ \E v : Comes(r, s, v, Len(d) + (n + 3)) /\ Turns(e, L, ok, s, v, TRUE)
  <2>1. t \in Running /\ t.at = s.at + Len(d) /\ Reaches(r, s, t) /\ t.ws \in Seq(Bytes)
    BY <1>6 DEF Comes, Further, Running
  <2>2. PICK u : Comes(r, t, u, 2) /\ Kept(t, u) /\ u.ws = Append(t.ws, n)
    <3>1. At(r, t.at, Byte(n))  BY <2>1
    <3>2. \E u : Comes(r, t, u, 2) /\ Kept(t, u) /\ u.ws = Append(t.ws, n % 256)
      BY <1>3, <2>1, <3>1, PushRuns
    <3> QED  BY <1>3, <3>2
  <2>3. u \in Running /\ u.at = s.at + (Len(d) + 2) /\ Comes(r, s, u, Len(d) + 2)
    <3>1. Comes(r, s, u, Len(d) + 2)  BY <1>4, <1>6, <2>2, ComesOn
    <3> QED  BY <3>1 DEF Comes, Further
  <2>4. Reaches(r, s, u)  BY <2>3 DEF Comes
  <2>5. \/ Stuck(r, u) /\ t.ws = <<>>
        \/ \E v : /\ Reaches(r, u, v) /\ Kept(u, v)
                  /\ Further(u, v, 1) \/ Further(u, v, 1 + n)
                  /\ \A w \in Seq(Bytes), c \in Bytes :
                       t.ws = Append(w, c)
                       => /\ v.ws = w
                          /\ Further(u, v, 1 + (IF c # 0 THEN n ELSE 0))
    <3> DEFINE y == t.ws
    <3>1. At(r, u.at, <<Inst("JCN")>>) /\ u \in Running  BY <2>3
    <3>2. y \in Seq(Bytes) /\ u.ws = Append(y, n)  BY <2>1, <2>2
    <3> HIDE DEF y
    <3>3. \/ Stuck(r, u) /\ y = <<>>
          \/ \E v : /\ Reaches(r, u, v) /\ Kept(u, v)
                    /\ Further(u, v, 1) \/ Further(u, v, 1 + n)
                    /\ \A w \in Seq(Bytes), c \in Bytes :
                         y = Append(w, c)
                         => /\ v.ws = w
                            /\ Further(u, v, 1 + (IF c # 0 THEN n ELSE 0))
      BY <3>1, <3>2, JcnRuns
    <3> QED  BY <3>3 DEF y
  <2>6. CASE Stuck(r, u) /\ t.ws = <<>>
    <3>1. Stuck(r, s)  BY <2>4, <2>6, StuckLater
    <3>2. Lacks(e)
      <4> SUFFICES ASSUME ~Lacks(e) PROVE FALSE
        OBVIOUS
      <4>1. PICK b \in Bytes : t.ws = Append(s.ws, b)  BY <1>2, <1>6 DEF Leaves
      <4>2. Len(t.ws) >= 1 /\ Len(t.ws) \in Nat  BY <1>4, <4>1, PopOne
      <4>3. Len(t.ws) = 0  BY <2>6
      <4> QED  BY <4>2, <4>3
    <3> QED  BY <3>1, <3>2 DEF Trouble
  <2>7. ASSUME NEW v, Reaches(r, u, v), Kept(u, v),
               Further(u, v, 1) \/ Further(u, v, 1 + n),
               \A w \in Seq(Bytes), c \in Bytes :
                 t.ws = Append(w, c)
                 => /\ v.ws = w
                    /\ Further(u, v, 1 + (IF c # 0 THEN n ELSE 0))
        PROVE  \/ Comes(r, s, v, Len(d) + 3) /\ Turns(e, L, ok, s, v, FALSE)
               \/ Comes(r, s, v, Len(d) + (n + 3)) /\ Turns(e, L, ok, s, v, TRUE)
    <3>1. Further(u, v, 1) => Comes(r, s, v, Len(d) + 3)
      <4> SUFFICES ASSUME Further(u, v, 1) PROVE Comes(r, s, v, Len(d) + 3)
        OBVIOUS
      <4>1. Len(d) + 2 \in Nat /\ Len(d) + 2 + 1 = Len(d) + 3  BY <1>4
      <4>2. Comes(r, s, v, Len(d) + 2 + 1)  BY <2>3, <2>7, <4>1, ComesOn DEF Comes
      <4> QED  BY <4>1, <4>2
    <3>2. Further(u, v, 1 + n) => Comes(r, s, v, Len(d) + (n + 3))
      <4> SUFFICES ASSUME Further(u, v, 1 + n) PROVE Comes(r, s, v, Len(d) + (n + 3))
        OBVIOUS
      <4>1. Len(d) + 2 \in Nat /\ 1 + n \in Nat /\ Len(d) + 2 + (1 + n) = Len(d) + (n + 3)
        BY <1>3, <1>4
      <4>2. Comes(r, s, v, Len(d) + 2 + (1 + n))
        <5>1. Comes(r, u, v, 1 + n)  BY <2>7 DEF Comes
        <5> QED  BY <2>3, <4>1, <5>1, ComesOn
      <4> QED  BY <4>1, <4>2
    <3>3. CASE Lacks(e)  BY <2>7, <3>1, <3>2, <3>3 DEF Turns
    <3>4. CASE ~Lacks(e)
      <4>1. PICK b \in Bytes : t.ws = Append(s.ws, b)  BY <1>2, <1>6, <3>4 DEF Leaves
      <4>2. v.ws = s.ws /\ Further(u, v, 1 + (IF b # 0 THEN n ELSE 0))
        BY <1>4, <2>7, <4>1
      <4>3. ASSUME ok, Clean(e), NEW W, NEW z, Fits(L, W), Mirrors(W, z, s)
            PROVE  Mirrors(W, Eval[x][z], v) /\ Eval[x][z].val = b
        <5> DEFINE y == Eval[x][z]
        <5>1. Mirrors(W, y, t) /\ t.ws = Append(s.ws, y.val)
          BY <1>2, <1>6, <3>4, <4>3 DEF Leaves
        <5> HIDE DEF y
        <5>2. y.val = b  BY <1>4, <4>1, <5>1, AppendSame
        <5>3. Kept(t, v) /\ y \in States  BY <2>2, <2>7, <5>1 DEF Kept, Mirrors
        <5>4. Mirrors(W, y, v)  BY <5>1, <5>3, MirrorKept
        <5> QED  BY <5>2, <5>4 DEF y
      <4>4. CASE b # 0
        <5>1. Turns(e, L, ok, s, v, TRUE)  BY <4>2, <4>3, <4>4 DEF Turns, x
        <5>2. Further(u, v, 1 + n)  BY <4>2, <4>4
        <5> QED  BY <3>2, <5>1, <5>2
      <4>5. CASE b = 0
        <5>1. Turns(e, L, ok, s, v, FALSE)  BY <4>2, <4>3, <4>5 DEF Turns, x
        <5>2. Further(u, v, 1)  BY <4>2, <4>5
        <5> QED  BY <3>1, <5>1, <5>2
      <4> QED  BY <4>4, <4>5
    <3> QED  BY <3>3, <3>4
  <2> QED  BY <2>5, <2>6, <2>7
<1> QED  BY <1>2, <1>5, <1>6

-----------------------------------------------------------------------------
(* The cells of the condition and of the bodies of e are good.             *)
IfParts(e, d, p, q, L, ok) ==
  /\ e \in Expressions /\ e.tag = "IF_ELSE_E"
  /\ Good(e.cond, d, L, ok) /\ Good(e.if_body, p, L, ok)
  /\ q \in CodeType
  /\ Len(e.else_body) = 1 => Good(e.else_body[1], q, L, ok)
  /\ Len(e.else_body) = 0 => Len(q) = 0
  /\ Len(p) <= 255 /\ Len(q) <= 255

LEMMA IfTyped ==
  ASSUME NEW e, NEW d, NEW p, NEW q, NEW L, NEW ok, IfParts(e, d, p, q, L, ok)
  PROVE  /\ d \in CodeType /\ p \in CodeType /\ q \in CodeType
         /\ Len(d) \in Nat /\ Len(p) \in Nat /\ Len(q) \in Nat
         /\ Len(p) \in Short /\ Len(q) + 3 \in Short
<1>1. d \in CodeType /\ p \in CodeType /\ q \in CodeType  BY DEF IfParts, Good
<1>2. Len(d) \in Nat /\ Len(p) \in Nat /\ Len(q) \in Nat  BY <1>1, LenIsNat
<1> DEFINE P == Len(p)
           Q == Len(q)
<1>3. P <= 255 /\ Q <= 255 /\ P \in Nat /\ Q \in Nat  BY <1>2 DEF IfParts
<1> HIDE DEF P, Q
<1>4. P \in Short /\ Q + 3 \in Short  BY <1>3 DEF Short
<1> QED  BY <1>1, <1>2, <1>4 DEF P, Q

LEMMA IfLength ==
  ASSUME NEW e, NEW d, NEW p, NEW q, NEW L, NEW ok, IfParts(e, d, p, q, L, ok)
  PROVE  CodeLen[e] = Len(d) + (Len(q) + (Len(p) + 6))
<1>1. e \in Expressions /\ e.tag = "IF_ELSE_E"  BY DEF IfParts
<1>2. OwnCells(e) = 6  BY <1>1 DEF OwnCells, BinTags
<1>3. /\ Len(SubExprs(e)) = 2 + Len(e.else_body)
      /\ SubExprs(e)[1] = e.cond /\ SubExprs(e)[2] = e.if_body
      /\ Len(e.else_body) \in {0, 1}
      /\ Len(e.else_body) = 1 => SubExprs(e)[3] = e.else_body[1]
  BY <1>1, IfElseParts
<1>4. Len(d) \in Nat /\ Len(p) \in Nat /\ Len(q) \in Nat  BY IfTyped
<1>5. Len(d) = CodeLen[e.cond] /\ Len(p) = CodeLen[e.if_body]  BY DEF IfParts, Good
<1>6. CASE Len(e.else_body) = 0
  <2>1. Len(SubExprs(e)) = 2 /\ Len(SubExprs(e)) \in 0 .. 3  BY <1>3, <1>6
  <2>2. Len(q) = 0  BY <1>6 DEF IfParts
  <2>3. CodeLen[e] = OwnCells(e) + (CodeLen[SubExprs(e)[1]] + CodeLen[SubExprs(e)[2]])
    BY <1>1, <2>1, CellCount
  <2> QED  BY <1>2, <1>3, <1>4, <1>5, <2>2, <2>3
<1>7. CASE Len(e.else_body) = 1
  <2>1. Len(SubExprs(e)) = 3 /\ Len(SubExprs(e)) \in 0 .. 3  BY <1>3, <1>7
  <2>2. Len(q) = CodeLen[e.else_body[1]]  BY <1>7 DEF IfParts, Good
  <2>3. CodeLen[e] = OwnCells(e) + (CodeLen[SubExprs(e)[1]] + CodeLen[SubExprs(e)[2]]
                                      + CodeLen[SubExprs(e)[3]])
    BY <1>1, <2>1, CellCount
  <2>4. CodeLen[e] = 6 + (Len(d) + Len(p) + Len(q))
    BY <1>2, <1>3, <1>5, <1>7, <2>2, <2>3
  <2> DEFINE D == Len(d)
             P == Len(p)
             Q == Len(q)
  <2>5. D \in Nat /\ P \in Nat /\ Q \in Nat /\ CodeLen[e] = 6 + (D + P + Q)
    BY <1>4, <2>4
  <2> HIDE DEF D, P, Q
  <2>6. CodeLen[e] = D + (Q + (P + 6))  BY <2>5
  <2> QED  BY <2>6 DEF D, P, Q
<1> QED  BY <1>3, <1>6, <1>7

LEMMA IfHops ==
  ASSUME NEW e, NEW d, NEW p, NEW q, NEW L, NEW ok, IfParts(e, d, p, q, L, ok),
         StaysOnTrack(e)
  PROVE  Len(p) \in Hops /\ Len(q) + 3 \in Hops
<1>1. e \in Expressions /\ e.tag = "IF_ELSE_E"  BY DEF IfParts
<1>2. ~FarJump(e)  BY <1>1, SelfInside
<1>3. /\ Len(e.else_body) \in {0, 1}
      /\ e.else_body = <<>> <=> Len(e.else_body) = 0
  BY <1>1, IfElseParts
<1> DEFINE P == Len(p)
           Q == Len(q)
<1>4. P \in Nat /\ Q \in Nat  BY IfTyped
<1>5. P = CodeLen[e.if_body]  BY DEF IfParts, Good
<1>6. ~(P > 127)  BY <1>1, <1>2, <1>5 DEF FarJump
<1>7. Q + 3 <= 127
  <2>1. CASE Len(e.else_body) = 0
    <3>1. Q = 0  BY <2>1 DEF IfParts
    <3> HIDE DEF Q
    <3> QED  BY <3>1
  <2>2. CASE Len(e.else_body) = 1
    <3>1. Q = CodeLen[e.else_body[1]]  BY <2>2 DEF IfParts, Good
    <3>2. e.else_body # <<>>
      <4>1. Len(e.else_body) # 0  BY <2>2
      <4> QED  BY <1>3, <4>1
    <3>3. ~(Q + 3 > 127)  BY <1>1, <1>2, <3>1, <3>2 DEF FarJump
    <3> HIDE DEF Q
    <3> QED  BY <1>4, <3>3
  <2> QED  BY <1>3, <2>1, <2>2
<1> HIDE DEF P, Q
<1>8. P \in Hops /\ Q + 3 \in Hops  BY <1>4, <1>6, <1>7 DEF Hops
<1> QED  BY <1>8 DEF P, Q

-----------------------------------------------------------------------------
(* x is what e does when the condition says yes.                           *)
Chosen(e, x, yes) ==
  /\ Within(x, e)
  /\ HasValue[e] => HasValue[x]
  /\ IsStatement[e] => IsStatement[x]
  /\ \A z \in States :
       (Eval[e.cond][z].val # 0 <=> yes) => Eval[e][z] = Eval[x][Eval[e.cond][z]]

LEMMA IfChooses ==
  ASSUME NEW e \in Expressions, e.tag = "IF_ELSE_E"
  PROVE  /\ Chosen(e, e.if_body, TRUE)
         /\ Len(e.else_body) = 1 => Chosen(e, e.else_body[1], FALSE)
         /\ Len(e.else_body) = 0 =>
              /\ ~HasValue[e]
              /\ \A z \in States : Eval[e.cond][z].val = 0 =>
                   Eval[e][z] = [Eval[e.cond][z] EXCEPT !.val = NoValue]
<1>1. HasValue[e] = HasValueStep(HasValue, e)  BY HasValueObeys
<1>2. IsStatement[e] = IsStatementStep(IsStatement, e)  BY IsStatementObeys
<1> DEFINE alone == e.else_body = <<>>
           other == e.else_body[1]
<1>3. /\ Len(e.else_body) = 1 <=> ~alone
      /\ Len(e.else_body) = 0 <=> alone
  <2> DEFINE k == Len(e.else_body)
  <2>1. k \in {0, 1} /\ (alone <=> k = 0)  BY IfElseParts
  <2> HIDE DEF k, alone
  <2>2. (k = 1 <=> ~alone) /\ (k = 0 <=> alone)  BY <2>1
  <2> QED  BY <2>2 DEF k
<1>4. /\ Within(e.if_body, e)
      /\ ~alone => Within(other, e)
  BY <1>3, PartsWithin
<1>5. HasValue[e] <=> ~alone /\ HasValue[e.if_body] /\ HasValue[other]
  BY <1>1 DEF HasValueStep, BinTags
<1>6. IsStatement[e] <=> IsStatement[e.if_body] /\ (~alone => IsStatement[other])
  BY <1>2 DEF IsStatementStep
<1>7. \A z \in States :
        Eval[e][z] = LET c == Eval[e.cond][z]
                     IN  IF c.val # 0 THEN Eval[e.if_body][c]
                         ELSE IF ~alone THEN Eval[other][c]
                         ELSE [c EXCEPT !.val = NoValue]
  BY EvalObeys DEF After, BinTags
<1> HIDE DEF alone, other
<1>8. Chosen(e, e.if_body, TRUE)  BY <1>4, <1>5, <1>6, <1>7 DEF Chosen
<1>9. ~alone => Chosen(e, other, FALSE)
  BY <1>4, <1>5, <1>6, <1>7 DEF Chosen
<1>10. alone => /\ ~HasValue[e]
                /\ \A z \in States : Eval[e.cond][z].val = 0 =>
                     Eval[e][z] = [Eval[e.cond][z] EXCEPT !.val = NoValue]
  BY <1>5, <1>7
<1> QED  BY <1>3, <1>8, <1>9, <1>10 DEF other

LEMMA BodyLeaves ==
  ASSUME NEW e, NEW x, NEW yes, Chosen(e, x, yes), NEW L, NEW ok, NEW s, NEW t, NEW u,
         Turns(e, L, ok, s, t, yes), Leaves(x, L, ok, t, u)
  PROVE  Leaves(e, L, ok, s, u)
<1>1. /\ ~Lacks(e) => ~Lacks(x)
      /\ Clean(e) => Clean(x)
  BY PartsShare DEF Chosen
<1>2. ASSUME ~Lacks(e)
      PROVE  /\ t.ws = s.ws
             /\ HasValue[e] => \E b \in Bytes : u.ws = Append(s.ws, b)
             /\ IsStatement[e] => u.ws = s.ws
  BY <1>1, <1>2 DEF Turns, Leaves, Chosen
<1>3. ASSUME ~Lacks(e), ok, Clean(e), NEW W, NEW z, Fits(L, W), Mirrors(W, z, s)
      PROVE  /\ Mirrors(W, Eval[e][z], u)
             /\ HasValue[e] => u.ws = Append(s.ws, Eval[e][z].val)
  <2> DEFINE c == Eval[e.cond][z]
  <2>1. Mirrors(W, c, t) /\ ((c.val # 0) <=> yes)  BY <1>3 DEF Turns
  <2>2. Eval[e][z] = Eval[x][c]  BY <1>3, <2>1 DEF Chosen, Mirrors
  <2> HIDE DEF c
  <2>3. /\ Mirrors(W, Eval[x][c], u)
        /\ HasValue[x] => u.ws = Append(t.ws, Eval[x][c].val)
    BY <1>1, <1>3, <2>1 DEF Leaves
  <2> QED  BY <1>2, <1>3, <2>2, <2>3 DEF Chosen
<1> QED  BY <1>2, <1>3 DEF Leaves

(* Without an else body there is nothing left to do.                       *)
LEMMA NoElseLeaves ==
  ASSUME NEW e \in Expressions, e.tag = "IF_ELSE_E", Len(e.else_body) = 0,
         NEW L, NEW ok, NEW s, NEW t, Turns(e, L, ok, s, t, FALSE)
  PROVE  Leaves(e, L, ok, s, t)
<1>1. /\ ~HasValue[e]
      /\ \A z \in States : Eval[e.cond][z].val = 0 =>
           Eval[e][z] = [Eval[e.cond][z] EXCEPT !.val = NoValue]
  BY IfChooses
<1>2. ASSUME ~Lacks(e), ok, Clean(e), NEW W, NEW z, Fits(L, W), Mirrors(W, z, s)
      PROVE  Mirrors(W, Eval[e][z], t)
  <2> DEFINE c == Eval[e.cond][z]
             y == [c EXCEPT !.val = NoValue]
  <2>1. Mirrors(W, c, t) /\ c.val = 0  BY <1>2 DEF Turns
  <2>2. Eval[e][z] = y  BY <1>1, <1>2, <2>1 DEF Mirrors
  <2> HIDE DEF c
  <2>3. c \in States  BY <2>1 DEF Mirrors
  <2>4. y \in States /\ y.env = c.env /\ y.out = c.out
    <3>1. NoValue \in Values  BY DEF NoValue, Values
    <3> QED  BY <2>3, <3>1, ValueSet
  <2> HIDE DEF y
  <2>5. Mirrors(W, y, t)  BY <2>1, <2>4, MirrorKept DEF Kept
  <2> QED  BY <2>2, <2>5
<1>3. ~Lacks(e) => t.ws = s.ws  BY DEF Turns
<1> QED  BY <1>1, <1>2, <1>3 DEF Leaves

LEMMA LeavesKept ==
  ASSUME NEW e, NEW L, NEW ok, NEW s, NEW u, Leaves(e, L, ok, s, u),
         NEW v, Kept(u, v), v.ws = u.ws
  PROVE  Leaves(e, L, ok, s, v)
<1>1. ASSUME NEW W, NEW y, Mirrors(W, y, u) PROVE Mirrors(W, y, v)
  BY <1>1 DEF Mirrors, Kept
<1> QED  BY <1>1 DEF Leaves

-----------------------------------------------------------------------------
(* After the condition said no.                                            *)
LEMMA ElseRuns ==
  ASSUME NEW e, NEW d, NEW p, NEW q, NEW L, NEW ok, IfParts(e, d, p, q, L, ok),
         StaysOnTrack(e), NEW r \in CodeType, NEW s, NEW t \in Running,
         Turns(e, L, ok, s, t, FALSE), At(r, t.at, q)
  PROVE  \/ Trouble(e, r, t)
         \/ \E u : Comes(r, t, u, Len(q)) /\ Leaves(e, L, ok, s, u)
<1>1. e \in Expressions /\ e.tag = "IF_ELSE_E"  BY DEF IfParts
<1>2. Len(e.else_body) \in {0, 1}  BY <1>1, IfElseParts
<1>3. CASE Len(e.else_body) = 0
  <2>1. Leaves(e, L, ok, s, t)  BY <1>1, <1>3, NoElseLeaves
  <2>2. Comes(r, t, t, 0)
    <3>1. t.at \in Nat  BY DEF Running
    <3> QED  BY <3>1, ReachesSelf DEF Comes, Further
  <2>3. Len(q) = 0  BY <1>3 DEF IfParts
  <2> QED  BY <2>1, <2>2, <2>3
<1>4. CASE Len(e.else_body) = 1
  <2> DEFINE x == e.else_body[1]
  <2>1. Chosen(e, x, FALSE) /\ Good(x, q, L, ok)  BY <1>1, <1>4, IfChooses DEF IfParts
  <2> HIDE DEF x
  <2>2. StaysOnTrack(x) /\ (Trouble(x, r, t) => Trouble(e, r, t))
    BY <2>1, PartsShare DEF Chosen
  <2>3. \/ Trouble(x, r, t)
        \/ \E u : Comes(r, t, u, Len(q)) /\ Leaves(x, L, ok, t, u)
    BY <2>1, <2>2, GoodPart
  <2>4. ASSUME NEW u, Leaves(x, L, ok, t, u) PROVE Leaves(e, L, ok, s, u)
    BY <2>1, <2>4, BodyLeaves
  <2> QED  BY <2>2, <2>3, <2>4
<1> QED  BY <1>2, <1>3, <1>4

(* After the condition said yes.                                           *)
LEMMA BodyRuns ==
  ASSUME NEW e, NEW d, NEW p, NEW q, NEW L, NEW ok, IfParts(e, d, p, q, L, ok),
         StaysOnTrack(e), NEW r \in CodeType, NEW s, NEW t \in Running,
         Turns(e, L, ok, s, t, TRUE), At(r, t.at, p)
  PROVE  \/ Trouble(e, r, t)
         \/ \E u : Comes(r, t, u, Len(p)) /\ Leaves(e, L, ok, s, u)
<1>1. e \in Expressions /\ e.tag = "IF_ELSE_E"  BY DEF IfParts
<1> DEFINE x == e.if_body
<1>2. Chosen(e, x, TRUE) /\ Good(x, p, L, ok)  BY <1>1, IfChooses DEF IfParts
<1> HIDE DEF x
<1>3. StaysOnTrack(x) /\ (Trouble(x, r, t) => Trouble(e, r, t))
  BY <1>2, PartsShare DEF Chosen
<1>4. \/ Trouble(x, r, t)
      \/ \E u : Comes(r, t, u, Len(p)) /\ Leaves(x, L, ok, t, u)
  BY <1>2, <1>3, GoodPart
<1>5. ASSUME NEW u, Leaves(x, L, ok, t, u) PROVE Leaves(e, L, ok, s, u)
  BY <1>2, <1>5, BodyLeaves
<1> QED  BY <1>3, <1>4, <1>5

LEMMA IfElseRuns ==
  ASSUME NEW e, NEW d, NEW p, NEW q, NEW L, NEW ok, IfParts(e, d, p, q, L, ok),
         StaysOnTrack(e), NEW r \in CodeType, NEW s \in Running,
         At(r, s.at, Branches(d, p, q))
  PROVE  \/ Trouble(e, r, s)
         \/ \E v : Comes(r, s, v, Len(d) + (Len(q) + (Len(p) + 6))) /\ Leaves(e, L, ok, s, v)
<1>1. /\ d \in CodeType /\ p \in CodeType /\ q \in CodeType
      /\ Len(p) \in Short /\ Len(q) + 3 \in Short
  BY IfTyped
<1> DEFINE D == Len(d)
           P == Len(p)
           Q == Len(q)
<1>2. D \in Nat /\ P \in Nat /\ Q \in Nat /\ s.at \in Nat  BY IfTyped DEF Running
<1>3. P \in Hops /\ Q + 3 \in Hops  BY IfHops
<1>4. /\ At(r, s.at, d) /\ At(r, s.at + D, Byte(Q + 3))
      /\ At(r, s.at + (D + 2), <<Inst("JCN")>>)
      /\ At(r, s.at + (D + 3), q)
      /\ At(r, s.at + (D + (Q + 3)), Byte(P))
      /\ At(r, s.at + (D + (Q + 5)), <<Inst("JMP")>>)
      /\ At(r, s.at + (D + (Q + 6)), p)
  BY <1>1, <1>2, BranchesAt
<1>5. /\ e \in Expressions /\ e.tag = "IF_ELSE_E" /\ Good(e.cond, d, L, ok)
  BY DEF IfParts
<1>6. \/ Trouble(e, r, s)
      \/ \E t : Comes(r, s, t, D + 3) /\ Turns(e, L, ok, s, t, FALSE)
      \/ \E t : Comes(r, s, t, D + (Q + 3 + 3)) /\ Turns(e, L, ok, s, t, TRUE)
  <2> DEFINE n == Q + 3
  <2>1. n \in Hops /\ At(r, s.at + Len(d), Byte(n))  BY <1>3, <1>4
  <2>2. At(r, s.at + (Len(d) + 2), <<Inst("JCN")>>) /\ At(r, s.at, d)  BY <1>4
  <2> HIDE DEF n, Q
  <2>3. \/ Trouble(e, r, s)
        \/ \E t : Comes(r, s, t, Len(d) + 3) /\ Turns(e, L, ok, s, t, FALSE)
        \/ \E t : Comes(r, s, t, Len(d) + (n + 3)) /\ Turns(e, L, ok, s, t, TRUE)
    BY <1>5, <2>1, <2>2, CondRuns
  <2> QED  BY <2>3 DEF n
<1> HIDE DEF D, P, Q
<1>7. ASSUME NEW t, Comes(r, s, t, D + 3), Turns(e, L, ok, s, t, FALSE)
      PROVE  \/ Trouble(e, r, s)
             \/ \E v : Comes(r, s, v, D + (Q + (P + 6))) /\ Leaves(e, L, ok, s, v)
  <2>1. t \in Running /\ t.at = s.at + (D + 3) /\ Reaches(r, s, t)
    BY <1>7 DEF Comes, Further
  <2>2. At(r, t.at, q)  BY <1>4, <2>1
  <2>3. \/ Trouble(e, r, t)
        \/ \E u : Comes(r, t, u, Q) /\ Leaves(e, L, ok, s, u)
    BY <1>7, <2>1, <2>2, ElseRuns DEF Q
  <2>4. Trouble(e, r, t) => Trouble(e, r, s)  BY <2>1, TroubleLater
  <2>5. ASSUME NEW u, Comes(r, t, u, Q), Leaves(e, L, ok, s, u)
        PROVE  \E v : Comes(r, s, v, D + (Q + (P + 6))) /\ Leaves(e, L, ok, s, v)
    <3>1. Comes(r, s, u, D + (Q + 3))
      <4>1. D + 3 \in Nat /\ D + 3 + Q = D + (Q + 3)  BY <1>2
      <4>2. Comes(r, s, u, D + 3 + Q)  BY <1>2, <1>7, <2>5, <4>1, ComesOn
      <4> QED  BY <4>1, <4>2
    <3>2. u \in Running /\ u.at = s.at + (D + (Q + 3))  BY <3>1 DEF Comes, Further
    <3>3. At(r, u.at, Byte(P)) /\ At(r, u.at + 2, <<Inst("JMP")>>)
      <4>1. u.at + 2 = s.at + (D + (Q + 5))  BY <1>2, <3>2
      <4> QED  BY <1>4, <3>2, <4>1
    <3>4. PICK v : Comes(r, u, v, 3 + P) /\ Kept(u, v) /\ v.ws = u.ws
      BY <1>3, <3>2, <3>3, SkipRuns
    <3>5. Comes(r, s, v, D + (Q + (P + 6)))
      <4>1. D + (Q + 3) \in Nat /\ 3 + P \in Nat /\ D + (Q + 3) + (3 + P) = D + (Q + (P + 6))
        BY <1>2
      <4>2. Comes(r, s, v, D + (Q + 3) + (3 + P))  BY <3>1, <3>4, <4>1, ComesOn
      <4> QED  BY <4>1, <4>2
    <3>6. Leaves(e, L, ok, s, v)  BY <2>5, <3>4, LeavesKept
    <3> QED  BY <3>5, <3>6
  <2> QED  BY <2>3, <2>4, <2>5
<1>8. ASSUME NEW t, Comes(r, s, t, D + (Q + 3 + 3)), Turns(e, L, ok, s, t, TRUE)
      PROVE  \/ Trouble(e, r, s)
             \/ \E v : Comes(r, s, v, D + (Q + (P + 6))) /\ Leaves(e, L, ok, s, v)
  <2>0. D + (Q + 3 + 3) = D + (Q + 6) /\ D + (Q + 6) \in Nat  BY <1>2
  <2>1. t \in Running /\ t.at = s.at + (D + (Q + 6)) /\ Reaches(r, s, t)
    BY <1>8, <2>0 DEF Comes, Further
  <2>2. At(r, t.at, p)  BY <1>4, <2>1
  <2>3. \/ Trouble(e, r, t)
        \/ \E u : Comes(r, t, u, P) /\ Leaves(e, L, ok, s, u)
    BY <1>8, <2>1, <2>2, BodyRuns DEF P
  <2>4. Trouble(e, r, t) => Trouble(e, r, s)  BY <2>1, TroubleLater
  <2>5. ASSUME NEW u, Comes(r, t, u, P), Leaves(e, L, ok, s, u)
        PROVE  Comes(r, s, u, D + (Q + (P + 6)))
    <3>1. D + (Q + 6) + P = D + (Q + (P + 6))  BY <1>2
    <3>2. Comes(r, s, u, D + (Q + 6) + P)  BY <1>2, <1>8, <2>0, <2>5, ComesOn
    <3> QED  BY <3>1, <3>2
  <2> QED  BY <2>3, <2>4, <2>5
<1>9. \/ Trouble(e, r, s)
      \/ \E v : Comes(r, s, v, D + (Q + (P + 6))) /\ Leaves(e, L, ok, s, v)
  BY <1>6, <1>7, <1>8
<1> QED  BY <1>9 DEF D, P, Q

LEMMA IfElseGood ==
  ASSUME NEW e, NEW d, NEW p, NEW q, NEW L, NEW ok, IfParts(e, d, p, q, L, ok),
         Lets[e] \subseteq NamesOf(L)
  PROVE  Good(e, Branches(d, p, q), L, ok)
<1> DEFINE c == Branches(d, p, q)
           n == Len(d) + (Len(q) + (Len(p) + 6))
<1>1. c \in CodeType /\ Len(c) = n
  <2>1. /\ d \in CodeType /\ p \in CodeType /\ q \in CodeType
        /\ Len(p) \in Short /\ Len(q) + 3 \in Short
    BY IfTyped
  <2> QED  BY <2>1, BranchesAt
<1>2. n = CodeLen[e]  BY IfLength
<1>3. ASSUME NEW r \in CodeType, NEW s \in Running, At(r, s.at, c), StaysOnTrack(e)
      PROVE  \/ Trouble(e, r, s)
             \/ \E t : Comes(r, s, t, n) /\ Leaves(e, L, ok, s, t)
  BY <1>3, IfElseRuns
<1> HIDE DEF c, n
<1>4. Behaves(e, c, L, ok)  BY <1>1, <1>3 DEF Behaves
<1>5. Good(e, c, L, ok)  BY <1>1, <1>2, <1>4 DEF Good
<1> QED  BY <1>5 DEF c

-----------------------------------------------------------------------------
LEMMA WellFormedStays ==
  ASSUME NEW e \in Expressions, WellFormed(e)
  PROVE  StaysOnTrack(e) /\ ~Lacks(e) /\ IsStatement[e]
BY DEF WellFormed, Lacks, StaysOnTrack

-----------------------------------------------------------------------------
(* What the compiler takes an expression apart into.                       *)
LEMMA BinaryTagsAre == BinaryTags = BinTags
BY DEF BinaryTags, BinaryInst, BinTags

LEMMA PartsAre ==
  ASSUME NEW e \in Expressions
  PROVE  Parts(e) = IF e.tag = "RETURN_E" THEN <<>> ELSE SubExprs(e)
BY BinaryTagsAre DEF Parts, SubExprs, BinTags

LEMMA ExpressionTrees == Trees(Expressions) /\ Literals(Expressions)
<1>1. Programs \subseteq Expressions  BY BodiesAssumption DEF BodiesAssumption
<1>2. ASSUME NEW e \in Expressions
      PROVE  /\ Parts(e) \in Seq(Expressions)
             /\ e.tag = "IF_ELSE_E" => Len(Parts(e)) \in {2, 3}
  <2>1. Parts(e) \in Seq(Expressions)
    <3>1. SubExprs(e) \in Seq(Expressions)  BY ExpressionParts
    <3>2. <<>> \in Seq(Expressions)  BY EmptySeq
    <3> QED  BY <3>1, <3>2, PartsAre
  <2>2. ASSUME e.tag = "IF_ELSE_E" PROVE Len(Parts(e)) \in {2, 3}
    <3> DEFINE n == Len(e.else_body)
    <3>1. Len(SubExprs(e)) = 2 + n /\ n \in {0, 1}  BY <2>2, IfElseParts
    <3>2. Parts(e) = SubExprs(e)  BY <2>2, PartsAre
    <3> HIDE DEF n
    <3> QED  BY <3>1, <3>2
  <2> QED  BY <2>1, <2>2
<1>3. ASSUME NEW e \in Expressions
      PROVE  /\ e.tag = "NUMBER_E" => e.value \in Nat
             /\ e.tag = "CHAR_LITERAL_E" => e.c \in Int
             /\ e.tag = "LET_E" => e.type \in Types
  <2>1. /\ e.tag = "NUMBER_E" => e.value \in Nat
        /\ e.tag = "CHAR_LITERAL_E" => e.c \in -128 .. 127
        /\ e.tag = "LET_E" => e.type \in {"u8", "u16"}
    BY TreesAssumption DEF TreesAssumption
  <2>2. \A c \in -128 .. 127 : c \in Int  OBVIOUS
  <2> QED  BY <2>1, <2>2 DEF Types
<1>4. Trees(Expressions)  BY <1>1, <1>2 DEF Trees
<1>5. Literals(Expressions)  BY <1>3 DEF Literals
<1> QED  BY <1>4, <1>5

(* The variables an expression declares and uses, from its parts.          *)
LEMMA LetsOfParts ==
  ASSUME NEW e \in Expressions, NEW N,
         \A k \in 1 .. Len(SubExprs(e)) : Lets[SubExprs(e)[k]] \subseteq N,
         e.tag = "LET_E" => e.var \in N
  PROVE  Lets[e] \subseteq N
<1>1. Lets[e] = LetsStep(Lets, e)  BY LetsObeys
<1>2. DOMAIN SubExprs(e) = 1 .. Len(SubExprs(e))  BY PartNumbers
<1> QED  BY <1>1, <1>2 DEF LetsStep

LEMMA UndeclaredOfPart ==
  ASSUME NEW e \in Expressions, NEW N, Undeclared[e] \subseteq N,
         NEW k \in 1 .. Len(SubExprs(e)),
         \A j \in 1 .. k - 1 : Lets[SubExprs(e)[j]] \subseteq N
  PROVE  Undeclared[SubExprs(e)[k]] \subseteq N
<1>1. Undeclared[e] = UndeclaredStep(Undeclared, e)  BY UndeclaredObeys
<1>2. DOMAIN SubExprs(e) = 1 .. Len(SubExprs(e))  BY PartNumbers
<1> DEFINE x == Undeclared[SubExprs(e)[k]]
           y == UNION {Lets[SubExprs(e)[j]] : j \in 1 .. k - 1}
<1>3. x \ y \subseteq Undeclared[e]  BY <1>1, <1>2 DEF UndeclaredStep
<1>4. y \subseteq N  OBVIOUS
<1> HIDE DEF x, y
<1>5. x \subseteq N  BY <1>3, <1>4
<1> QED  BY <1>5 DEF x

LEMMA OwnUses ==
  ASSUME NEW e \in Expressions
  PROVE  Uses(e) \subseteq Undeclared[e]
BY UndeclaredObeys DEF UndeclaredStep

-----------------------------------------------------------------------------
(* What compile_expr has returned so far is good for the expressions it    *)
(* was called with, and every call in progress works on the next part of   *)
(* the one that waits for it.                                              *)
Okay == Undeclared[prog] = {}

FrameGood(f, L, ok) ==
  \A j \in 1 .. Len(f.parts) : Good(Parts(f.e)[j], f.parts[j], L, ok)

Scoped(f, L, ok) == ok => Undeclared[f.e] \subseteq NamesOf(L)

Chain(s, body) ==
  /\ s[1].e = body
  /\ \A k \in 1 .. Len(s) - 1 : s[k + 1].e = Parts(s[k].e)[Len(s[k].parts) + 1]

Compiled ==
  /\ Layout(layout)
  /\ prog \in Programs
  /\ pc = "compiling" =>
       /\ Chain(stack, prog)
       /\ \A k \in 1 .. Len(stack) :
            FrameGood(stack[k], layout, Okay) /\ Scoped(stack[k], layout, Okay)
  /\ pc = "done" => Good(prog, code, layout, Okay)

LEMMA CompiledStarts ==
  ASSUME Init
  PROVE  Compiled
<1>1. /\ prog \in Programs /\ stack = <<Frame(prog)>> /\ layout = <<>> /\ pc = "compiling"
  BY DEF Init
<1>2. Len(stack) = 1 /\ stack[1] = Frame(prog)  BY <1>1
<1>3. Frame(prog).e = prog /\ Len(Frame(prog).parts) = 0  BY DEF Frame
<1>4. Layout(layout)
  <2>1. Len(layout) = 0 /\ IsSeq(layout)  BY <1>1, EmptySeq DEF IsSeq
  <2> QED  BY <2>1 DEF Layout
<1>5. Chain(stack, prog)  BY <1>2, <1>3 DEF Chain
<1>6. FrameGood(stack[1], layout, Okay)  BY <1>2, <1>3 DEF FrameGood
<1>7. Scoped(stack[1], layout, Okay)  BY <1>2, <1>3 DEF Scoped, Okay
<1>8. \A k \in 1 .. Len(stack) : k = 1  BY <1>2
<1> QED  BY <1>1, <1>4, <1>5, <1>6, <1>7, <1>8 DEF Compiled

LEMMA AtTop ==
  ASSUME TInv(Expressions), Compiled, pc = "compiling"
  PROVE  /\ Len(stack) > 0 /\ Len(stack) \in Nat
         /\ Top = stack[Len(stack)] /\ Top.e \in Expressions
         /\ Top.parts \in Seq(CodeType) /\ Len(Top.parts) \in Nat
         /\ FrameGood(Top, layout, Okay) /\ Scoped(Top, layout, Okay)
         /\ Layout(layout)
<1>1. Trees(Expressions)  BY ExpressionTrees
<1>2. StackOK(Expressions) /\ Coded /\ Len(stack) > 0  BY DEF TInv, IInv, StackOK
<1>3. FrameOK(Top, Expressions) /\ Len(stack) \in Nat  BY <1>1, <1>2, Popped
<1>4. Len(stack) \in 1 .. Len(stack)  BY <1>2, <1>3
<1>5. Top.parts \in Seq(CodeType)  BY <1>2, <1>4 DEF Coded, Top
<1> QED  BY <1>2, <1>3, <1>4, <1>5, LenProperties DEF Compiled, Top, FrameOK

-----------------------------------------------------------------------------
LEMMA CompiledDescends ==
  ASSUME TInv(Expressions), Compiled, Descend
  PROVE  Compiled'
<1>1. pc = "compiling"  BY DEF Descend
<1> DEFINE e == Top.e
           n == Len(Top.parts) + 1
           part == Parts(e)[n]
           m == Len(stack)
<1>2. /\ m > 0 /\ m \in Nat /\ Top = stack[m] /\ e \in Expressions
      /\ Len(Top.parts) \in Nat
      /\ FrameGood(Top, layout, Okay) /\ Scoped(Top, layout, Okay)
      /\ Layout(layout)
  BY <1>1, AtTop
<1>3. /\ Len(Top.parts) < Len(Parts(e))
      /\ stack' = Append(stack, Frame(part))
      /\ prog' = prog /\ layout' = layout /\ pc' = pc
  BY DEF Descend
<1>4. IsSeq(stack)  BY DEF TInv, IInv, StackOK
<1>5. /\ Len(stack') = m + 1 /\ stack'[m + 1] = Frame(part)
      /\ \A k \in 1 .. m : stack'[k] = stack[k]
  BY <1>3, <1>4, Appended
<1>6. Frame(part).e = part /\ Len(Frame(part).parts) = 0  BY DEF Frame
<1>7. Parts(e) = SubExprs(e)
  <2>1. Parts(e) # <<>>
    <3> SUFFICES ASSUME Parts(e) = <<>> PROVE FALSE
      OBVIOUS
    <3>1. Len(Parts(e)) = 0  OBVIOUS
    <3> QED  BY <1>2, <1>3, <3>1
  <2> QED  BY <1>2, <2>1, PartsAre
<1>8. n \in 1 .. Len(SubExprs(e))
  <2>1. Len(SubExprs(e)) \in Nat  BY <1>2, PartNumbers
  <2> QED  BY <1>2, <1>3, <1>7, <2>1
<1>9. Scoped(Frame(part), layout, Okay)
  <2> SUFFICES ASSUME Okay PROVE Undeclared[part] \subseteq NamesOf(layout)
    BY <1>6 DEF Scoped
  <2>1. Undeclared[e] \subseteq NamesOf(layout)  BY <1>2 DEF Scoped
  <2>2. \A j \in 1 .. n - 1 : Lets[SubExprs(e)[j]] \subseteq NamesOf(layout)
    <3>1. \A j \in 1 .. n - 1 : j \in 1 .. Len(Top.parts)  BY <1>2
    <3> QED  BY <1>2, <1>7, <3>1 DEF FrameGood, Good
  <2>3. part = SubExprs(e)[n]  BY <1>7
  <2> HIDE DEF n, part, e
  <2>4. Undeclared[SubExprs(e)[n]] \subseteq NamesOf(layout)
    BY <1>2, <1>8, <2>1, <2>2, UndeclaredOfPart
  <2> QED  BY <2>3, <2>4
<1>10. FrameGood(Frame(part), layout, Okay)  BY <1>6 DEF FrameGood
<1>11. Chain(stack', prog)
  <2>1. Chain(stack, prog)  BY <1>1 DEF Compiled
  <2>2. part = Parts(stack[m].e)[Len(stack[m].parts) + 1]  BY <1>2
  <2> HIDE DEF part
  <2>3. stack'[1] = stack[1] /\ stack'[m] = stack[m]  BY <1>2, <1>5
  <2>4. \A k \in 1 .. m : k = m \/ (k \in 1 .. m - 1 /\ k + 1 \in 1 .. m)  BY <1>2
  <2> HIDE DEF m
  <2>5. \A k \in 1 .. m : stack'[k + 1].e = Parts(stack'[k].e)[Len(stack'[k].parts) + 1]
    <3> SUFFICES ASSUME NEW k \in 1 .. m
                 PROVE  stack'[k + 1].e = Parts(stack'[k].e)[Len(stack'[k].parts) + 1]
      OBVIOUS
    <3>1. CASE k = m  BY <1>5, <1>6, <2>2, <2>3, <3>1
    <3>2. CASE k \in 1 .. m - 1 /\ k + 1 \in 1 .. m
      <4>1. stack'[k] = stack[k] /\ stack'[k + 1] = stack[k + 1]  BY <1>5, <3>2
      <4>2. stack[k + 1].e = Parts(stack[k].e)[Len(stack[k].parts) + 1]
        BY <2>1, <3>2 DEF Chain, m
      <4> QED  BY <4>1, <4>2
    <3> QED  BY <2>4, <3>1, <3>2
  <2>6. Len(stack') - 1 = m  BY <1>2, <1>5
  <2> QED  BY <2>1, <2>3, <2>5, <2>6 DEF Chain
<1>12. \A k \in 1 .. Len(stack') :
         FrameGood(stack'[k], layout, Okay) /\ Scoped(stack'[k], layout, Okay)
  <2>1. \A k \in 1 .. m + 1 : k \in 1 .. m \/ k = m + 1  BY <1>2
  <2> HIDE DEF part
  <2> QED  BY <1>1, <1>5, <1>9, <1>10, <2>1 DEF Compiled
<1>13. Okay' = Okay  BY <1>3 DEF Okay
<1> QED  BY <1>1, <1>3, <1>11, <1>12, <1>13 DEF Compiled

LEMMA NamesStay ==
  ASSUME NEW L, Layout(L), NEW K, Layout(K), Extends(L, K)
  PROVE  NamesOf(L) \subseteq NamesOf(K)
<1>1. Len(L) \in Nat /\ Len(K) \in Nat /\ Len(L) <= Len(K)
  BY LenProperties DEF Layout, IsSeq, Extends
<1>2. \A k \in 1 .. Len(L) : k \in 1 .. Len(K) /\ K[k] = L[k]  BY <1>1 DEF Extends
<1> QED  BY <1>2 DEF NamesOf

LEMMA FrameStays ==
  ASSUME NEW f, NEW L, Layout(L), NEW K, Layout(K), Extends(L, K), NEW ok,
         FrameGood(f, L, ok), Scoped(f, L, ok)
  PROVE  FrameGood(f, K, ok) /\ Scoped(f, K, ok)
<1>1. FrameGood(f, K, ok)
  <2> SUFFICES ASSUME NEW j \in 1 .. Len(f.parts)
               PROVE  Good(Parts(f.e)[j], f.parts[j], K, ok)
    BY DEF FrameGood
  <2> DEFINE x == Parts(f.e)[j]
             c == f.parts[j]
  <2>1. Good(x, c, L, ok)  BY DEF FrameGood
  <2> HIDE DEF x, c
  <2>2. Good(x, c, K, ok)  BY <2>1, GoodStays
  <2> QED  BY <2>2 DEF x, c
<1>2. Scoped(f, K, ok)  BY NamesStay DEF Scoped
<1> QED  BY <1>1, <1>2

LEMMA GrownParts ==
  ASSUME NEW f, FrameOK(f, Expressions), NEW c
  PROVE  LET g == [f EXCEPT !.parts = Append(@, c)]
         IN  g.e = f.e /\ g.parts = Append(f.parts, c)
<1> DEFINE g == [f EXCEPT !.parts = Append(@, c)]
<1>1. g = [e |-> f.e, parts |-> Append(f.parts, c)]  BY DEF FrameOK
<1> QED  BY <1>1

LEMMA CompiledReturns ==
  ASSUME TInv(Expressions), Compiled, pc = "compiling", NEW cells, NEW delta,
         Return(cells, delta), Layout(layout'), Extends(layout, layout'),
         Good(Top.e, cells, layout', Okay)
  PROVE  Compiled'
<1>1. StackOK(Expressions) /\ Len(stack) > 0  BY DEF TInv, IInv, StackOK
<1>2. /\ IsSeq(Below) /\ Len(stack) \in Nat /\ Len(Below) = Len(stack) - 1
      /\ Below = <<>> <=> Len(stack) = 1
      /\ \A k \in 1 .. Len(Below) : Below[k] = stack[k]
      /\ \A k \in 1 .. Len(Below) : FrameOK(Below[k], Expressions) /\ Waits(Below[k])
  BY <1>1, ExpressionTrees, Popped
<1>3. prog' = prog /\ Okay' = Okay /\ prog \in Programs
  BY DEF Return, Okay, Compiled
<1>4. /\ Chain(stack, prog) /\ Layout(layout)
      /\ \A k \in 1 .. Len(stack) :
           FrameGood(stack[k], layout, Okay) /\ Scoped(stack[k], layout, Okay)
  BY DEF Compiled
<1>5. CASE Below = <<>>
  <2>1. code' = cells /\ pc' = "done"  BY <1>5 DEF Return
  <2>2. Top.e = prog  BY <1>2, <1>4, <1>5 DEF Top, Chain
  <2> QED  BY <1>3, <2>1, <2>2 DEF Compiled
<1>6. CASE Below # <<>>
  <2> DEFINE n == Len(Below)
             f == Below[n]
             g == [f EXCEPT !.parts = Append(@, cells)]
             l == Len(f.parts)
  <2>1. /\ n \in Nat /\ n > 0 /\ FrameOK(f, Expressions) /\ f = stack[n]
        /\ n \in 1 .. Len(stack) /\ Len(stack) = n + 1
    BY <1>2, <1>6
  <2>2. g.e = f.e /\ g.parts = Append(f.parts, cells)
    <3> HIDE DEF f
    <3> QED  BY <2>1, GrownParts DEF g
  <2>3. stack' = [Below EXCEPT ![n] = g] /\ pc' = "compiling"
    BY <1>6 DEF Return
  <2> HIDE DEF g
  <2>4. /\ Len(stack') = n /\ stack'[n] = g
        /\ \A k \in 1 .. n - 1 : stack'[k] = stack[k]
    <3> DEFINE r == [Below EXCEPT ![Len(Below)] = g]
    <3>1. IsSeq(Below) /\ Len(Below) > 0  BY <1>2, <2>1
    <3>2. /\ Len(r) = Len(Below) /\ r[Len(Below)] = g
          /\ \A k \in 1 .. Len(Below) - 1 : r[k] = Below[k]
      BY <3>1, Replaced
    <3>3. stack' = r  BY <2>3
    <3>4. \A k \in 1 .. n - 1 : Below[k] = stack[k]  BY <1>2, <2>1
    <3> HIDE DEF r
    <3> QED  BY <3>2, <3>3, <3>4
  <2>5. /\ l \in Nat /\ Len(g.parts) = l + 1 /\ g.parts[l + 1] = cells
        /\ \A j \in 1 .. l : g.parts[j] = f.parts[j]
    BY <2>1, <2>2, Appended DEF FrameOK
  <2>6. Top.e = Parts(f.e)[l + 1]
    <3>1. n \in 1 .. Len(stack) - 1  BY <2>1
    <3>2. stack[n + 1].e = Parts(stack[n].e)[Len(stack[n].parts) + 1]
      BY <1>4, <3>1 DEF Chain
    <3>3. Top = stack[n + 1]  BY <2>1 DEF Top
    <3> QED  BY <2>1, <3>2, <3>3
  <2>7. ASSUME NEW k \in 1 .. Len(stack)
        PROVE  FrameGood(stack[k], layout', Okay) /\ Scoped(stack[k], layout', Okay)
    BY <1>4, FrameStays
  <2>8. FrameGood(g, layout', Okay)
    <3>1. FrameGood(f, layout', Okay)  BY <2>1, <2>7
    <3> HIDE DEF f, l
    <3>2. \A j \in 1 .. l + 1 : j \in 1 .. l \/ j = l + 1  BY <2>5
    <3>3. \A j \in 1 .. l : Good(Parts(g.e)[j], g.parts[j], layout', Okay)
      BY <2>2, <2>5, <3>1 DEF FrameGood, l
    <3>4. Good(Parts(g.e)[l + 1], g.parts[l + 1], layout', Okay)
      BY <2>2, <2>5, <2>6
    <3> QED  BY <2>5, <3>2, <3>3, <3>4 DEF FrameGood
  <2>9. Scoped(g, layout', Okay)
    <3>1. Scoped(f, layout', Okay)  BY <2>1, <2>7
    <3> QED  BY <2>2, <3>1 DEF Scoped
  <2>10. \A k \in 1 .. Len(stack') :
           FrameGood(stack'[k], layout', Okay) /\ Scoped(stack'[k], layout', Okay)
    <3>1. \A k \in 1 .. n : k = n \/ (k \in 1 .. n - 1 /\ k \in 1 .. Len(stack))
      BY <2>1
    <3> HIDE DEF n
    <3> QED  BY <2>4, <2>7, <2>8, <2>9, <3>1
  <2>11. Chain(stack', prog)
    <3>1. \A k \in 1 .. n - 1 :
            k \in 1 .. Len(stack) - 1 /\ (k + 1 = n \/ k + 1 \in 1 .. n - 1)
      BY <2>1
    <3>2. n = 1 \/ 1 \in 1 .. n - 1  BY <2>1
    <3>3. g.e = stack[n].e  BY <2>1, <2>2
    <3> HIDE DEF n, f
    <3>4. stack'[1].e = stack[1].e  BY <2>4, <3>2, <3>3
    <3>5. \A k \in 1 .. n - 1 : stack'[k + 1].e = stack[k + 1].e
      BY <2>4, <3>1, <3>3
    <3>6. \A k \in 1 .. n - 1 : stack'[k + 1].e = Parts(stack'[k].e)[Len(stack'[k].parts) + 1]
      BY <1>4, <2>4, <3>1, <3>5 DEF Chain
    <3> QED  BY <1>4, <2>4, <3>4, <3>6 DEF Chain
  <2> QED  BY <1>3, <2>3, <2>10, <2>11 DEF Compiled
<1> QED  BY <1>5, <1>6

-----------------------------------------------------------------------------
(* What each case of compile_expr returns is good for its expression.      *)

(* The parts of the topmost call are compiled: p are their cells.          *)
Finished(e, p, L, ok) ==
  /\ e \in Expressions /\ p \in Seq(CodeType)
  /\ Layout(L)
  /\ Len(p) \in Nat /\ Len(p) = Len(Parts(e))
  /\ \A j \in 1 .. Len(p) : Good(Parts(e)[j], p[j], L, ok)
  /\ ok => Undeclared[e] \subseteq NamesOf(L)

LEMMA TopFinished ==
  ASSUME TInv(Expressions), Compiled, NEW tags, Ready(tags)
  PROVE  /\ Finished(Top.e, Top.parts, layout, Okay)
         /\ Top.e.tag \in tags /\ pc = "compiling"
<1>1. pc = "compiling" /\ Top.e.tag \in tags /\ Len(Top.parts) = Len(Parts(Top.e))
  BY DEF Ready
<1> QED  BY <1>1, AtTop DEF Finished, FrameGood, Scoped

LEMMA OnePartGood ==
  ASSUME NEW e, e.tag \in {"LET_E", "ASSIGN_E", "DEREF_E"}, NEW p, NEW L, NEW ok,
         Finished(e, p, L, ok)
  PROVE  e \in Expressions /\ Good(e.e, p[1], L, ok) /\ Lets[e.e] \subseteq NamesOf(L)
<1>1. e \in Expressions  BY DEF Finished
<1>2. Parts(e) = <<e.e>>  BY <1>1, OnePart, PartsAre
<1>3. Len(Parts(e)) = 1 /\ Parts(e)[1] = e.e  BY <1>2
<1>4. 1 \in 1 .. Len(p)  BY <1>3 DEF Finished
<1>5. Good(Parts(e)[1], p[1], L, ok)  BY <1>4 DEF Finished
<1> QED  BY <1>1, <1>3, <1>5 DEF Good

LEMMA PartsKnown ==
  ASSUME NEW e, NEW p, NEW L, NEW ok, Finished(e, p, L, ok), e.tag # "RETURN_E",
         e.tag = "LET_E" => e.var \in NamesOf(L)
  PROVE  Lets[e] \subseteq NamesOf(L)
<1>1. e \in Expressions /\ Parts(e) = SubExprs(e)  BY PartsAre DEF Finished
<1>2. \A k \in 1 .. Len(SubExprs(e)) : Lets[SubExprs(e)[k]] \subseteq NamesOf(L)
  BY <1>1 DEF Finished, Good
<1> QED  BY <1>1, <1>2, LetsOfParts

LEMMA DeclaredIs ==
  ASSUME NEW L, Layout(L), NEW n
  PROVE  Declared(L, n) <=> n \in NamesOf(L)
<1>1. DOMAIN L = 1 .. Len(L)  BY LenProperties DEF Layout, IsSeq
<1> QED  BY <1>1 DEF Declared, NamesOf

LEMMA LetReturnsGood ==
  ASSUME NEW e, e.tag = "LET_E", NEW p, NEW L, NEW ok, Finished(e, p, L, ok),
         NEW K, K = Append(L, [name |-> e.var, type |-> e.type])
  PROVE  /\ Layout(K) /\ Extends(L, K)
         /\ Good(e, p[1] \o Byte(Addr(K, e.var)) \o <<Inst("STZ")>>, K, ok)
<1> DEFINE n == e.var
           d == [name |-> n, type |-> e.type]
<1>1. e \in Expressions /\ Good(e.e, p[1], L, ok) /\ Layout(L)
  <2>1. e \in Expressions /\ Good(e.e, p[1], L, ok)  BY OnePartGood
  <2> QED  BY <2>1 DEF Finished
<1>2. d.name = n /\ d.type \in Types /\ n \in Variables
  <2>1. e.type \in {"u8", "u16"}  BY <1>1, TreesAssumption DEF TreesAssumption
  <2>2. n \in Variables  BY <1>1 DEF Variables
  <2> QED  BY <2>1, <2>2 DEF Types
<1>3. K = Append(L, d) /\ IsSeq(L)  BY <1>1 DEF Layout
<1> HIDE DEF d
<1>4. /\ Len(L) \in Nat /\ IsSeq(K) /\ Len(K) = Len(L) + 1
      /\ \A k \in 1 .. Len(L) : K[k] = L[k]
      /\ K[Len(L) + 1] = d
  BY <1>3, Appended
<1>5. \A k \in 1 .. Len(K) : k \in 1 .. Len(L) \/ k = Len(L) + 1  BY <1>4
<1>6. Layout(K)  BY <1>1, <1>2, <1>4, <1>5 DEF Layout
<1>7. Extends(L, K)  BY <1>4 DEF Extends
<1>8. n \in NamesOf(K)
  <2>1. Len(L) + 1 \in 1 .. Len(K)  BY <1>4
  <2> QED  BY <1>2, <1>4, <2>1 DEF NamesOf
<1> DEFINE c == p[1]
           x == e.e
<1>9. Good(x, c, L, ok)  BY <1>1
<1>10. Lets[e] \subseteq NamesOf(K)
  <2>1. NamesOf(L) \subseteq NamesOf(K)  BY <1>1, <1>6, <1>7, NamesStay
  <2>2. SubExprs(e) = <<x>>  BY <1>1, OnePart
  <2>3. Len(SubExprs(e)) = 1 /\ SubExprs(e)[1] = x  BY <2>2
  <2>4. Lets[x] \subseteq NamesOf(K)  BY <1>9, <2>1 DEF Good
  <2> HIDE DEF x
  <2>5. \A k \in 1 .. Len(SubExprs(e)) : Lets[SubExprs(e)[k]] \subseteq NamesOf(K)
    BY <2>3, <2>4
  <2> QED  BY <1>1, <1>8, <2>5, LetsOfParts
<1> HIDE DEF c, x
<1>11. Good(x, c, K, ok)  BY <1>1, <1>6, <1>7, <1>9, GoodStays
<1> DEFINE a == Addr(K, n)
<1>12. a \in Bytes /\ (ok => n \in NamesOf(K) /\ a = Addr(K, n))
  BY <1>6, <1>8, AddrIsByte
<1> HIDE DEF a
<1>13. Good(e, c \o Byte(a) \o <<Inst("STZ")>>, K, ok)
  BY <1>1, <1>10, <1>11, <1>12, StoreGood DEF x
<1> QED  BY <1>6, <1>7, <1>13 DEF a, c

LEMMA AssignReturnsGood ==
  ASSUME NEW e, e.tag = "ASSIGN_E", NEW p, NEW L, NEW ok, Finished(e, p, L, ok),
         NEW a \in IF Declared(L, e.var) THEN {Addr(L, e.var)} ELSE StrayAddr
  PROVE  Good(e, p[1] \o Byte(a) \o <<Inst("STZ")>>, L, ok)
<1>1. e \in Expressions /\ Good(e.e, p[1], L, ok) /\ Layout(L)
  BY OnePartGood DEF Finished
<1>2. Declared(L, e.var) <=> e.var \in NamesOf(L)  BY <1>1, DeclaredIs
<1>3. ok => e.var \in NamesOf(L)
  <2>1. Uses(e) = {e.var}  BY DEF Uses
  <2> QED  BY <1>1, <2>1, OwnUses DEF Finished
<1>4. a \in Bytes
  <2>1. CASE Declared(L, e.var)  BY <1>1, <1>2, <2>1, AddrIsByte
  <2>2. CASE ~Declared(L, e.var)
    <3>1. StrayAddr \subseteq 0 .. 255  BY StrayAssumption DEF StrayAssumption
    <3> QED  BY <2>2, <3>1 DEF Bytes
  <2> QED  BY <2>1, <2>2
<1>5. ok => e.var \in NamesOf(L) /\ a = Addr(L, e.var)  BY <1>2, <1>3
<1>6. Lets[e] \subseteq NamesOf(L)  BY PartsKnown
<1> DEFINE c == p[1]
           x == e.e
<1>7. Good(x, c, L, ok)  BY <1>1
<1> HIDE DEF c, x
<1>8. Good(e, c \o Byte(a) \o <<Inst("STZ")>>, L, ok)
  BY <1>1, <1>4, <1>5, <1>6, <1>7, StoreGood DEF x
<1> QED  BY <1>8 DEF c

LEMMA DerefReturnsGood ==
  ASSUME NEW e, e.tag = "DEREF_E", NEW p, NEW L, NEW ok, Finished(e, p, L, ok)
  PROVE  Good(e, p[1] \o <<Inst("LDZ")>>, L, ok)
<1>1. e \in Expressions /\ Good(e.e, p[1], L, ok)  BY OnePartGood
<1>2. Lets[e] \subseteq NamesOf(L)  BY PartsKnown
<1> QED  BY <1>1, <1>2, DerefGood

LEMMA VariableReturnsGood ==
  ASSUME NEW e, e.tag = "VARIABLE_E", NEW p, NEW L, NEW ok, Finished(e, p, L, ok),
         Declared(L, e.name)
  PROVE  Good(e, Byte(Addr(L, e.name)) \o <<Inst("LDZ")>>, L, ok)
<1>1. e \in Expressions /\ Layout(L)  BY DEF Finished
<1>2. e.name \in NamesOf(L)  BY <1>1, DeclaredIs
<1> QED  BY <1>1, <1>2, VariableGood

-----------------------------------------------------------------------------
LEMMA BinaryReturnsGood ==
  ASSUME NEW e, e.tag \in BinaryTags, NEW p, NEW L, NEW ok, Finished(e, p, L, ok)
  PROVE  Good(e, p[1] \o p[2] \o <<Inst(BinaryInst[e.tag])>>, L, ok)
<1>1. e \in Expressions /\ e.tag \in BinTags /\ e.tag # "RETURN_E" /\ e.tag # "LET_E"
  BY BinaryTagsAre DEF Finished, BinTags
<1>2. Parts(e) = <<e.lhs, e.rhs>>  BY <1>1, BinaryParts, PartsAre
<1>3. Len(Parts(e)) = 2 /\ Parts(e)[1] = e.lhs /\ Parts(e)[2] = e.rhs  BY <1>2
<1>4. 1 \in 1 .. Len(p) /\ 2 \in 1 .. Len(p)  BY <1>3 DEF Finished
<1>5. Good(e.lhs, p[1], L, ok) /\ Good(e.rhs, p[2], L, ok)
  BY <1>3, <1>4 DEF Finished
<1>6. Lets[e] \subseteq NamesOf(L)  BY <1>1, PartsKnown
<1> DEFINE c == p[1]
           d == p[2]
<1> HIDE DEF c, d
<1>7. Good(e.lhs, c, L, ok) /\ Good(e.rhs, d, L, ok)  BY <1>5 DEF c, d
<1>8. Good(e, c \o d \o <<Inst(BinaryInst[e.tag])>>, L, ok)
  BY <1>1, <1>6, <1>7, BinaryGood
<1> QED  BY <1>8 DEF c, d

LEMMA DerefAssignReturnsGood ==
  ASSUME NEW e, e.tag = "DEREF_ASSIGN_E", NEW p, NEW L, NEW ok, Finished(e, p, L, ok)
  PROVE  Good(e, p[2] \o p[1] \o <<Inst("DEO")>>, L, ok)
<1>1. e \in Expressions  BY DEF Finished
<1>2. Parts(e) = <<e.e1, e.e2>>  BY <1>1, DerefAssignParts, PartsAre
<1>3. Len(Parts(e)) = 2 /\ Parts(e)[1] = e.e1 /\ Parts(e)[2] = e.e2  BY <1>2
<1>4. 1 \in 1 .. Len(p) /\ 2 \in 1 .. Len(p)  BY <1>3 DEF Finished
<1>5. Good(e.e1, p[1], L, ok) /\ Good(e.e2, p[2], L, ok)
  BY <1>3, <1>4 DEF Finished
<1>6. Lets[e] \subseteq NamesOf(L)  BY PartsKnown
<1> DEFINE c == p[1]
           d == p[2]
<1> HIDE DEF c, d
<1>7. Good(e.e1, c, L, ok) /\ Good(e.e2, d, L, ok)  BY <1>5 DEF c, d
<1>8. Good(e, d \o c \o <<Inst("DEO")>>, L, ok)
  BY <1>1, <1>6, <1>7, DerefAssignGood
<1> QED  BY <1>8 DEF c, d

LEMMA SequenceReturnsGood ==
  ASSUME NEW e, e.tag = "SEQUENCE_E", NEW p, NEW L, NEW ok, Finished(e, p, L, ok),
         NEW g, IsUpTo(p, Len(p), g)
  PROVE  Good(e, g[Len(p)], L, ok)
<1>1. e \in Expressions /\ Parts(e) = e.list  BY SequenceParts, PartsAre DEF Finished
<1> DEFINE n == Len(p)
<1>2. SeqParts(e, p, n, g, L, ok)  BY <1>1 DEF SeqParts, Finished
<1>3. Lets[e] \subseteq NamesOf(L)  BY PartsKnown
<1> HIDE DEF n
<1>4. Good(e, g[n], L, ok)  BY <1>2, <1>3, SequenceGood
<1> QED  BY <1>4 DEF n

LEMMA IfElseReturnsGood ==
  ASSUME NEW e, e.tag = "IF_ELSE_E", NEW p, NEW L, NEW ok, Finished(e, p, L, ok),
         NEW q, q = IF Len(p) = 3 THEN p[3] ELSE <<>>,
         Len(q) <= 255, Len(p[2]) <= 255
  PROVE  Good(e, Branches(p[1], p[2], q), L, ok)
<1> DEFINE n == Len(e.else_body)
           other == e.else_body[1]
<1>1. e \in Expressions /\ Parts(e) = SubExprs(e)  BY PartsAre DEF Finished
<1>2. /\ Len(Parts(e)) = 2 + n /\ n \in {0, 1}
      /\ Parts(e)[1] = e.cond /\ Parts(e)[2] = e.if_body
      /\ n = 1 => Parts(e)[3] = other
  BY <1>1, IfElseParts
<1>3. \A j \in 1 .. Len(p) : Good(Parts(e)[j], p[j], L, ok)  BY DEF Finished
<1>4. Len(p) = 2 + n  BY <1>2 DEF Finished
<1>5. n = 1 => Good(other, p[3], L, ok) /\ q = p[3]
  <2> SUFFICES ASSUME n = 1 PROVE Good(other, p[3], L, ok) /\ q = p[3]
    OBVIOUS
  <2> HIDE DEF n, other
  <2>1. Len(p) = 3 /\ 3 \in 1 .. Len(p)  BY <1>4
  <2> QED  BY <1>2, <1>3, <2>1
<1>6. n = 0 => q = <<>>
  <2> HIDE DEF n
  <2> QED  BY <1>4
<1>7. Good(e.cond, p[1], L, ok) /\ Good(e.if_body, p[2], L, ok)
  <2> HIDE DEF n, other
  <2>1. 1 \in 1 .. Len(p) /\ 2 \in 1 .. Len(p)  BY <1>2, <1>4
  <2> QED  BY <1>2, <1>3, <2>1
<1>8. q \in CodeType /\ (n = 0 => Len(q) = 0)
  <2>1. CASE n = 0
    <3>1. q = <<>>  BY <1>6, <2>1
    <3>2. Len(q) = 0  BY <3>1
    <3>3. q \in CodeType  BY <3>1, EmptySeq DEF CodeType
    <3> QED  BY <3>2, <3>3
  <2>2. CASE n = 1
    <3>1. q \in CodeType  BY <1>5, <2>2 DEF Good
    <3>2. n # 0  BY <2>2
    <3> QED  BY <3>1, <3>2
  <2> QED  BY <1>2, <2>1, <2>2
<1> DEFINE c == p[1]
           d == p[2]
<1>9. Lets[e] \subseteq NamesOf(L)  BY PartsKnown
<1>10. n = 1 => Good(other, q, L, ok)  BY <1>5
<1> HIDE DEF c, d
<1>11. IfParts(e, c, d, q, L, ok)
  BY <1>1, <1>7, <1>8, <1>10 DEF IfParts, c, d
<1>12. Good(e, Branches(c, d, q), L, ok)  BY <1>9, <1>11, IfElseGood
<1> QED  BY <1>12 DEF c, d

-----------------------------------------------------------------------------
LEMMA ExtendsSelf == ASSUME NEW L, Layout(L) PROVE Extends(L, L)
<1>1. Len(L) \in Nat  BY LenProperties DEF Layout, IsSeq
<1> QED  BY <1>1 DEF Extends

LEMMA CompiledSteps ==
  ASSUME TInv(Expressions), Compiled, Compile
  PROVE  Compiled'
<1>1. Layout(layout)  BY DEF Compiled
<1>2. ASSUME NEW cells, NEW delta, Return(cells, delta), layout' = layout,
             pc = "compiling", Good(Top.e, cells, layout, Okay)
      PROVE  Compiled'
  <2>1. Layout(layout') /\ Extends(layout, layout')  BY <1>1, <1>2, ExtendsSelf
  <2>2. Good(Top.e, cells, layout', Okay)  BY <1>2
  <2> QED  BY <1>2, <2>1, <2>2, CompiledReturns
<1>3. ASSUME prog' = prog, layout' = layout, pc' \in {"failing", "failed"}
      PROVE  Compiled'
  BY <1>3 DEF Compiled
<1>4. CASE Descend  BY <1>4, CompiledDescends
<1>5. CASE Let
  <2> DEFINE cells == Top.parts[1] \o Byte(Addr(layout', Top.e.var)) \o <<Inst("STZ")>>
  <2>1. /\ Ready({"LET_E"}) /\ Return(cells, 0)
        /\ layout' = Append(layout, [name |-> Top.e.var, type |-> Top.e.type])
    BY <1>5 DEF Let
  <2>2. Finished(Top.e, Top.parts, layout, Okay) /\ Top.e.tag = "LET_E" /\ pc = "compiling"
    BY <2>1, TopFinished
  <2>3. /\ Layout(layout') /\ Extends(layout, layout')
        /\ Good(Top.e, cells, layout', Okay)
    BY <2>1, <2>2, LetReturnsGood
  <2> HIDE DEF cells
  <2> QED  BY <2>1, <2>2, <2>3, CompiledReturns
<1>6. CASE Assign
  <2>1. Ready({"ASSIGN_E"}) /\ layout' = layout  BY <1>6 DEF Assign
  <2>2. PICK a \in IF Declared(layout, Top.e.var)
                   THEN {Addr(layout, Top.e.var)} ELSE StrayAddr :
          Return(Top.parts[1] \o Byte(a) \o <<Inst("STZ")>>, 0)
    BY <1>6 DEF Assign
  <2>3. Finished(Top.e, Top.parts, layout, Okay) /\ Top.e.tag = "ASSIGN_E" /\ pc = "compiling"
    BY <2>1, TopFinished
  <2>4. Good(Top.e, Top.parts[1] \o Byte(a) \o <<Inst("STZ")>>, layout, Okay)
    BY <2>2, <2>3, AssignReturnsGood
  <2> QED  BY <1>2, <2>1, <2>2, <2>3, <2>4
<1>7. CASE Binary
  <2> DEFINE cells == Top.parts[1] \o Top.parts[2] \o <<Inst(BinaryInst[Top.e.tag])>>
  <2>1. Ready(BinaryTags) /\ layout' = layout /\ Return(cells, 1 - 2)  BY <1>7 DEF Binary
  <2>2. Finished(Top.e, Top.parts, layout, Okay) /\ Top.e.tag \in BinaryTags /\ pc = "compiling"
    BY <2>1, TopFinished
  <2>3. Good(Top.e, cells, layout, Okay)  BY <2>2, BinaryReturnsGood
  <2> HIDE DEF cells
  <2> QED  BY <1>2, <2>1, <2>2, <2>3
<1>8. CASE Sequence
  <2> DEFINE IsIt(g) == g = [k \in 0 .. Len(Top.parts) |->
                               IF k = 0 THEN <<>> ELSE g[k - 1] \o Top.parts[k]]
             upTo == CHOOSE g : IsIt(g)
  <2>1. Ready({"SEQUENCE_E"}) /\ layout' = layout /\ Return(upTo[Len(Top.parts)], 0)
    BY <1>8 DEF Sequence
  <2>2. /\ Finished(Top.e, Top.parts, layout, Okay) /\ Top.e.tag = "SEQUENCE_E"
        /\ pc = "compiling"
    BY <2>1, TopFinished
  <2>3. Len(Top.parts) \in Nat  BY <2>2 DEF Finished
  <2>4. PICK h : IsUpTo(Top.parts, Len(Top.parts), h)  BY <2>3, UpToExists
  <2>5. IsIt(h)  BY <2>4 DEF IsUpTo
  <2>6. IsIt(upTo)  BY <2>5
  <2> HIDE DEF upTo
  <2>7. IsUpTo(Top.parts, Len(Top.parts), upTo)  BY <2>6 DEF IsUpTo
  <2>8. Good(Top.e, upTo[Len(Top.parts)], layout, Okay)  BY <2>2, <2>7, SequenceReturnsGood
  <2> QED  BY <1>2, <2>1, <2>2, <2>8
<1>9. CASE DerefAssign
  <2> DEFINE cells == Top.parts[2] \o Top.parts[1] \o <<Inst("DEO")>>
  <2>1. Ready({"DEREF_ASSIGN_E"}) /\ layout' = layout /\ Return(cells, -1)
    BY <1>9 DEF DerefAssign
  <2>2. /\ Finished(Top.e, Top.parts, layout, Okay) /\ Top.e.tag = "DEREF_ASSIGN_E"
        /\ pc = "compiling"
    BY <2>1, TopFinished
  <2>3. Good(Top.e, cells, layout, Okay)  BY <2>2, DerefAssignReturnsGood
  <2> HIDE DEF cells
  <2> QED  BY <1>2, <2>1, <2>2, <2>3
<1>10. CASE Deref
  <2> DEFINE cells == Top.parts[1] \o <<Inst("LDZ")>>
  <2>1. Ready({"DEREF_E"}) /\ layout' = layout /\ Return(cells, 0)  BY <1>10 DEF Deref
  <2>2. Finished(Top.e, Top.parts, layout, Okay) /\ Top.e.tag = "DEREF_E" /\ pc = "compiling"
    BY <2>1, TopFinished
  <2>3. Good(Top.e, cells, layout, Okay)  BY <2>2, DerefReturnsGood
  <2> HIDE DEF cells
  <2> QED  BY <1>2, <2>1, <2>2, <2>3
<1>11. CASE Variable
  <2> DEFINE cells == Byte(Addr(layout, Top.e.name)) \o <<Inst("LDZ")>>
  <2>1. /\ Ready({"VARIABLE_E"}) /\ layout' = layout /\ Return(cells, 1)
        /\ Declared(layout, Top.e.name)
    BY <1>11 DEF Variable
  <2>2. /\ Finished(Top.e, Top.parts, layout, Okay) /\ Top.e.tag = "VARIABLE_E"
        /\ pc = "compiling"
    BY <2>1, TopFinished
  <2>3. Good(Top.e, cells, layout, Okay)  BY <2>1, <2>2, VariableReturnsGood
  <2> HIDE DEF cells
  <2> QED  BY <1>2, <2>1, <2>2, <2>3
<1>12. CASE NumberLiteral
  <2> DEFINE cells == Literal(Top.e.value)
  <2>1. Ready({"NUMBER_E"}) /\ layout' = layout /\ Return(cells, 1)
    BY <1>12 DEF NumberLiteral
  <2>2. Finished(Top.e, Top.parts, layout, Okay) /\ Top.e.tag = "NUMBER_E" /\ pc = "compiling"
    BY <2>1, TopFinished
  <2>3. Good(Top.e, cells, layout, Okay)  BY <2>2, NumberGood DEF Finished
  <2> HIDE DEF cells
  <2> QED  BY <1>2, <2>1, <2>2, <2>3
<1>13. CASE CharLiteral
  <2> DEFINE cells == Byte(Widened(Top.e.c))
  <2>1. Ready({"CHAR_LITERAL_E"}) /\ layout' = layout /\ Return(cells, 1)
    BY <1>13 DEF CharLiteral
  <2>2. /\ Finished(Top.e, Top.parts, layout, Okay) /\ Top.e.tag = "CHAR_LITERAL_E"
        /\ pc = "compiling"
    BY <2>1, TopFinished
  <2>3. Good(Top.e, cells, layout, Okay)  BY <2>2, CharGood DEF Finished
  <2> HIDE DEF cells
  <2> QED  BY <1>2, <2>1, <2>2, <2>3
<1>14. CASE FunctionCall
  <2> DEFINE cells == <<>>
  <2>1. Ready({"FUNCTION_CALL_E"}) /\ layout' = layout /\ Return(cells, 1)
    BY <1>14 DEF FunctionCall
  <2>2. /\ Finished(Top.e, Top.parts, layout, Okay) /\ Top.e.tag = "FUNCTION_CALL_E"
        /\ pc = "compiling"
    BY <2>1, TopFinished
  <2>3. Good(Top.e, cells, layout, Okay)  BY <2>2, CallGood DEF Finished
  <2> HIDE DEF cells
  <2> QED  BY <1>2, <2>1, <2>2, <2>3
<1>15. CASE IfElse
  <2> DEFINE cells == Branches(Top.parts[1], IfBody, ElseBody)
  <2>1. /\ Ready({"IF_ELSE_E"}) /\ layout' = layout /\ Return(cells, NewElse - 2)
        /\ Len(ElseBody) <= 255 /\ Len(IfBody) <= 255
    BY <1>15 DEF IfElse
  <2>2. Finished(Top.e, Top.parts, layout, Okay) /\ Top.e.tag = "IF_ELSE_E" /\ pc = "compiling"
    BY <2>1, TopFinished
  <2>3. ElseBody = IF Len(Top.parts) = 3 THEN Top.parts[3] ELSE <<>>  BY DEF ElseBody
  <2>4. Good(Top.e, cells, layout, Okay)
    BY <2>1, <2>2, <2>3, IfElseReturnsGood DEF IfBody
  <2> HIDE DEF cells
  <2> QED  BY <1>2, <2>1, <2>2, <2>4
<1>16. CASE UndefinedVariable \/ Todo \/ IfElseTooLarge
  <2>1. PICK delta : Fail(delta)
    BY <1>16 DEF UndefinedVariable, Todo, IfElseTooLarge
  <2> QED  BY <1>3, <2>1 DEF Fail
<1>17. CASE Unwind  BY <1>3, <1>17 DEF Unwind
<1> QED
  BY <1>4, <1>5, <1>6, <1>7, <1>8, <1>9, <1>10, <1>11, <1>12, <1>13, <1>14,
     <1>15, <1>16, <1>17 DEF Compile

-----------------------------------------------------------------------------
(* The state of the machine, and its steps as the function Goes.           *)
Cur == [at |-> at, ws |-> ws, zp |-> zp, out |-> out, status |-> status]

MachineOK ==
  /\ at \in Int
  /\ ws \in Seq(Bytes)
  /\ zp \in [Bytes -> Bytes]
  /\ out \in Seq(Bytes \X Bytes)
  /\ status \in Statuses

LEMMA BytesOfCode ==
  ASSUME NEW r \in CodeType, NEW k \in 1 .. Len(r)
  PROVE  r[k].byte \in Bytes /\ r[k].op \in Opcodes \union {"RAW"}
<1>1. r[k] \in CellType  BY DEF CodeType
<1> QED  BY <1>1 DEF CellType, Bytes

LEMMA TheArguments ==
  ASSUME MachineOK
  PROVE  /\ Len(ws) \in Nat
         /\ Len(ws) >= 1 => M!Arg1 \in Bytes /\ M!Pop(1) \in Seq(Bytes)
         /\ Len(ws) >= 2 => M!Arg2 \in Bytes /\ M!Pop(2) \in Seq(Bytes)
<1>1. ws \in Seq(Bytes) /\ Len(ws) \in Nat  BY LenProperties DEF MachineOK
<1>2. ASSUME Len(ws) >= 1 PROVE M!Arg1 \in Bytes /\ M!Pop(1) \in Seq(Bytes)
  <2>1. 1 \in 0 .. Len(ws) /\ Len(ws) \in 1 .. Len(ws)  BY <1>1, <1>2
  <2> QED  BY <1>1, <2>1, Popping DEF M!Arg1, M!Pop
<1>3. ASSUME Len(ws) >= 2 PROVE M!Arg2 \in Bytes /\ M!Pop(2) \in Seq(Bytes)
  <2>1. 2 \in 0 .. Len(ws) /\ Len(ws) - 1 \in 1 .. Len(ws)  BY <1>1, <1>3
  <2> QED  BY <1>1, <2>1, Popping DEF M!Arg2, M!Pop
<1> QED  BY <1>1, <1>2, <1>3

LEMMA TheOperands ==
  ASSUME MachineOK, rom \in CodeType, at \in 0 .. Len(rom) - 1
  PROVE  M!Operand(1) \in Bytes /\ M!Operand(2) \in Bytes
<1>1. Len(rom) \in Nat /\ at \in Nat  BY LenIsNat
<1>2. \A k \in {1, 2} : at + k < Len(rom) => at + k + 1 \in 1 .. Len(rom)  BY <1>1
<1>3. 0 \in Bytes  BY DEF Bytes
<1> QED  BY <1>2, <1>3, BytesOfCode DEF M!Operand

LEMMA MachineSteps ==
  ASSUME MachineOK, rom \in CodeType, M!Execute
  PROVE  MachineOK' /\ rom' = rom /\ status = "running" /\ status' # "off"
<1>1. /\ Len(ws) \in Nat
      /\ Len(ws) >= 1 => M!Arg1 \in Bytes /\ M!Pop(1) \in Seq(Bytes)
      /\ Len(ws) >= 2 => M!Arg2 \in Bytes /\ M!Pop(2) \in Seq(Bytes)
  BY TheArguments
<1>2. at \in 0 .. Len(rom) - 1 => M!Operand(1) \in Bytes /\ M!Operand(2) \in Bytes
  BY TheOperands
<1>3. /\ at \in Int /\ ws \in Seq(Bytes) /\ zp \in [Bytes -> Bytes]
      /\ out \in Seq(Bytes \X Bytes)
  BY DEF MachineOK
<1>4. \A b \in Bytes : M!Signed(b) \in Int  BY DEF M!Signed, Bytes
<1>5. CASE M!Lit
  <2>1. M!Operand(1) \in Bytes  BY <1>2, <1>5 DEF M!Lit, M!Fetch
  <2> QED  BY <1>3, <1>5, <2>1 DEF M!Lit, M!Fetch, MachineOK, Statuses
<1>6. CASE M!Lit2
  <2>1. M!Operand(1) \in Bytes /\ M!Operand(2) \in Bytes  BY <1>2, <1>6 DEF M!Lit2, M!Fetch
  <2>2. <<M!Operand(1), M!Operand(2)>> \in Seq(Bytes)  BY <2>1
  <2>3. ws' \in Seq(Bytes)  BY <1>3, <1>6, <2>2, ConcatProperties DEF M!Lit2
  <2> QED  BY <1>3, <1>6, <2>3 DEF M!Lit2, M!Fetch, MachineOK, Statuses
<1>7. CASE M!Ldz
  <2>1. Len(ws) >= 1  BY <1>7 DEF M!Ldz, M!Fetch, M!Arity
  <2>2. ws' \in Seq(Bytes)  BY <1>1, <1>3, <1>7, <2>1 DEF M!Ldz
  <2> QED  BY <1>3, <1>7, <2>2 DEF M!Ldz, M!Fetch, MachineOK, Statuses
<1>8. CASE M!Stz
  <2>1. Len(ws) >= 2  BY <1>8 DEF M!Stz, M!Fetch, M!Arity
  <2>2. M!Arg1 \in Bytes /\ M!Arg2 \in Bytes /\ M!Pop(2) \in Seq(Bytes)  BY <1>1, <2>1
  <2>3. zp' \in [Bytes -> Bytes] /\ ws' \in Seq(Bytes)  BY <1>3, <1>8, <2>2 DEF M!Stz
  <2> QED  BY <1>3, <1>8, <2>3 DEF M!Stz, M!Fetch, MachineOK, Statuses
<1>9. CASE M!Deo
  <2>1. Len(ws) >= 2  BY <1>9 DEF M!Deo, M!Fetch, M!Arity
  <2>2. M!Arg1 \in Bytes /\ M!Arg2 \in Bytes /\ M!Pop(2) \in Seq(Bytes)  BY <1>1, <2>1
  <2>3. out' \in Seq(Bytes \X Bytes) /\ ws' \in Seq(Bytes)  BY <1>3, <1>9, <2>2 DEF M!Deo
  <2> QED  BY <1>3, <1>9, <2>3 DEF M!Deo, M!Fetch, MachineOK, Statuses
<1>10. CASE M!Compute
  <2>1. Len(ws) >= 2 /\ M!Here.op \in M!Ops2
    BY <1>10 DEF M!Compute, M!Fetch, M!Arity, M!Ops2
  <2>2. M!Arg1 \in Bytes /\ M!Arg2 \in Bytes /\ M!Pop(2) \in Seq(Bytes)  BY <1>1, <2>1
  <2>3. M!Arith(M!Here.op, M!Arg2, M!Arg1) \in Bytes  BY <2>1, <2>2, ArithIsByte
  <2>4. ws' \in Seq(Bytes)  BY <1>10, <2>2, <2>3 DEF M!Compute
  <2> QED  BY <1>3, <1>10, <2>4 DEF M!Compute, M!Fetch, MachineOK, Statuses
<1>11. CASE M!Jmp
  <2>1. Len(ws) >= 1  BY <1>11 DEF M!Jmp, M!Fetch, M!Arity
  <2>2. M!Signed(M!Arg1) \in Int /\ ws' \in Seq(Bytes)  BY <1>1, <1>4, <1>11, <2>1 DEF M!Jmp
  <2>3. at' \in Int  BY <1>3, <1>11, <2>2 DEF M!Jmp
  <2> QED  BY <1>3, <1>11, <2>2, <2>3 DEF M!Jmp, M!Fetch, MachineOK, Statuses
<1>12. CASE M!Jcn
  <2>1. Len(ws) >= 2  BY <1>12 DEF M!Jcn, M!Fetch, M!Arity
  <2>2. M!Signed(M!Arg1) \in Int /\ ws' \in Seq(Bytes)  BY <1>1, <1>4, <1>12, <2>1 DEF M!Jcn
  <2>3. at' \in Int  BY <1>3, <1>12, <2>2 DEF M!Jcn
  <2> QED  BY <1>3, <1>12, <2>2, <2>3 DEF M!Jcn, M!Fetch, MachineOK, Statuses
<1>13. CASE M!Break  BY <1>3, <1>13 DEF M!Break, MachineOK, Statuses
<1>14. CASE M!Astray  BY <1>3, <1>14 DEF M!Astray, MachineOK, Statuses
<1>15. CASE M!Underflow  BY <1>3, <1>15 DEF M!Underflow, MachineOK, Statuses
<1> QED
  BY <1>5, <1>6, <1>7, <1>8, <1>9, <1>10, <1>11, <1>12, <1>13, <1>14, <1>15
  DEF M!Execute

-----------------------------------------------------------------------------
(* A step of the machine is a step of the function Goes.                   *)
LEMMA Fetched ==
  ASSUME MachineOK, rom \in CodeType, NEW ops \in SUBSET Opcodes, M!Fetch(ops)
  PROVE  /\ rom[at + 1].op \in ops /\ Len(rom) \in Nat
         /\ Goes(rom, Cur) = Does(rom[at + 1].op, rom, Cur)
<1>1. at \in 0 .. Len(rom) - 1 /\ rom[at + 1].op \in ops /\ Len(ws) >= M!Arity(rom[at + 1].op)
  BY DEF M!Fetch, M!Here
<1>2. Len(rom) \in Nat /\ Len(ws) \in Nat  BY LenIsNat, TheArguments
<1>3. ~(at >= Len(rom)) /\ ~(at < 0)  BY <1>1, <1>2
<1>4. M!Arity(rom[at + 1].op) \in Int  BY DEF M!Arity
<1>5. ~(Len(ws) < M!Arity(rom[at + 1].op))  BY <1>1, <1>2, <1>4
<1>6. rom[at + 1].op # "RAW"  BY <1>1 DEF Opcodes, BinaryInst, BinaryTags
<1>7. Cur.at = at /\ Cur.ws = ws  BY DEF Cur
<1> QED  BY <1>1, <1>2, <1>3, <1>5, <1>6, <1>7 DEF Goes

LEMMA Executes ==
  ASSUME MachineOK, rom \in CodeType, M!Execute
  PROVE  Cur' = Goes(rom, Cur)
<1>1. /\ Cur.at = at /\ Cur.ws = ws /\ Cur.zp = zp /\ Cur.out = out
      /\ Cur.status = status
  BY DEF Cur
<1>2. Len(rom) \in Nat /\ Len(ws) \in Nat /\ at \in Int
  BY LenIsNat, TheArguments DEF MachineOK
<1>3. \A k : (IF at + k < Len(rom) THEN rom[at + k + 1].byte ELSE 0) = M!Operand(k)
  BY DEF M!Operand
<1>4. CASE M!Lit
  <2>1. "LIT" \in Opcodes  BY DEF Opcodes
  <2>2. rom[at + 1].op = "LIT" /\ Goes(rom, Cur) = Does("LIT", rom, Cur)
    BY <1>4, <2>1, Fetched DEF M!Lit
  <2> QED  BY <1>1, <1>3, <1>4, <2>2 DEF M!Lit, M!Fetch, M!Operand, Does, Cur
<1>5. CASE M!Lit2
  <2>1. "LIT2" \in Opcodes  BY DEF Opcodes
  <2>2. rom[at + 1].op = "LIT2" /\ Goes(rom, Cur) = Does("LIT2", rom, Cur)
    BY <1>5, <2>1, Fetched DEF M!Lit2
  <2> QED  BY <1>1, <1>3, <1>5, <2>2 DEF M!Lit2, M!Fetch, M!Operand, Does, Cur
<1>6. CASE M!Ldz
  <2>1. "LDZ" \in Opcodes  BY DEF Opcodes
  <2>2. rom[at + 1].op = "LDZ" /\ Goes(rom, Cur) = Does("LDZ", rom, Cur)
    BY <1>6, <2>1, Fetched DEF M!Ldz
  <2> QED  BY <1>1, <1>6, <2>2 DEF M!Ldz, M!Fetch, M!Pop, M!Arg1, Does, Cur
<1>7. CASE M!Stz
  <2>1. "STZ" \in Opcodes  BY DEF Opcodes
  <2>2. rom[at + 1].op = "STZ" /\ Goes(rom, Cur) = Does("STZ", rom, Cur)
    BY <1>7, <2>1, Fetched DEF M!Stz
  <2> QED  BY <1>1, <1>7, <2>2 DEF M!Stz, M!Fetch, M!Pop, M!Arg1, M!Arg2, Does, Cur
<1>8. CASE M!Deo
  <2>1. "DEO" \in Opcodes  BY DEF Opcodes
  <2>2. rom[at + 1].op = "DEO" /\ Goes(rom, Cur) = Does("DEO", rom, Cur)
    BY <1>8, <2>1, Fetched DEF M!Deo
  <2> QED  BY <1>1, <1>8, <2>2 DEF M!Deo, M!Fetch, M!Pop, M!Arg1, M!Arg2, Does, Cur
<1>9. CASE M!Compute
  <2>1. M!Ops2 \subseteq Opcodes  BY DEF Opcodes, M!Ops2, BinaryInst, BinaryTags
  <2>2. rom[at + 1].op \in M!Ops2 /\ Goes(rom, Cur) = Does(rom[at + 1].op, rom, Cur)
    BY <1>9, <2>1, Fetched DEF M!Compute
  <2> DEFINE op == rom[at + 1].op
  <2>3. op \notin {"LIT", "LIT2", "LDZ", "STZ", "DEO", "JMP", "JCN"}
    BY <2>2 DEF M!Ops2
  <2>4. /\ ws' = Append(M!Pop(2), M!Arith(op, M!Arg2, M!Arg1)) /\ at' = at + 1
        /\ zp' = zp /\ out' = out /\ status' = status
    BY <1>9 DEF M!Compute, M!Here
  <2>5. Goes(rom, Cur) = Does(op, rom, Cur)  BY <2>2
  <2> HIDE DEF op
  <2> QED  BY <1>1, <2>3, <2>4, <2>5 DEF M!Pop, M!Arg1, M!Arg2, Does, Cur
<1>10. CASE M!Jmp
  <2>1. "JMP" \in Opcodes  BY DEF Opcodes
  <2>2. rom[at + 1].op = "JMP" /\ Goes(rom, Cur) = Does("JMP", rom, Cur)
    BY <1>10, <2>1, Fetched DEF M!Jmp
  <2> QED  BY <1>1, <1>10, <2>2 DEF M!Jmp, M!Fetch, M!Pop, M!Arg1, Does, Cur
<1>11. CASE M!Jcn
  <2>1. "JCN" \in Opcodes  BY DEF Opcodes
  <2>2. rom[at + 1].op = "JCN" /\ Goes(rom, Cur) = Does("JCN", rom, Cur)
    BY <1>11, <2>1, Fetched DEF M!Jcn
  <2> QED  BY <1>1, <1>11, <2>2 DEF M!Jcn, M!Fetch, M!Pop, M!Arg1, M!Arg2, Does, Cur
<1>12. CASE M!Break
  <2>1. Goes(rom, Cur) = [Cur EXCEPT !.status = "halted"]  BY <1>1, <1>12 DEF Goes, M!Break
  <2> QED  BY <1>12, <2>1 DEF M!Break, Cur
<1>13. CASE M!Astray
  <2>1. ~(at >= Len(rom)) /\ (at < 0 \/ rom[at + 1].op = "RAW")
    BY <1>2, <1>13 DEF M!Astray, M!Here
  <2>2. Goes(rom, Cur) = [Cur EXCEPT !.status = "lost"]  BY <1>1, <2>1 DEF Goes
  <2> QED  BY <1>13, <2>2 DEF M!Astray, Cur
<1>14. CASE M!Underflow
  <2>1. ~(at >= Len(rom)) /\ ~(at < 0) /\ rom[at + 1].op # "RAW"
        /\ Len(ws) < M!Arity(rom[at + 1].op)
    BY <1>2, <1>14 DEF M!Underflow, M!Here
  <2>2. Goes(rom, Cur) = [Cur EXCEPT !.status = "underflow"]  BY <1>1, <2>1 DEF Goes
  <2> QED  BY <1>14, <2>2 DEF M!Underflow, Cur
<1> QED
  BY <1>4, <1>5, <1>6, <1>7, <1>8, <1>9, <1>10, <1>11, <1>12, <1>13, <1>14
  DEF M!Execute

-----------------------------------------------------------------------------
(* The rom is the code: what is printed is assembled to what it was.       *)
LEMMA Loaded ==
  ASSUME NEW cells \in CodeType
  PROVE  uxnasm(fprintf_uxn_program(cells)) = cells
<1>1. /\ Len(cells) \in Nat /\ DOMAIN cells = 1 .. Len(cells)
      /\ \A k \in 1 .. Len(cells) : cells[k] \in CellType
      /\ cells = [k \in DOMAIN cells |-> cells[k]]
  <2>1. cells \in Seq(CellType)  BY DEF CodeType
  <2>2. cells \in [1 .. Len(cells) -> CellType] /\ Len(cells) \in Nat
    BY <2>1, LenProperties
  <2> QED  BY <2>2
<1> DEFINE listing == fprintf_uxn_program(cells)
<1>2. listing = [k \in DOMAIN cells |-> Printed(cells[k])]  BY DEF fprintf_uxn_program
<1>3. DOMAIN listing = DOMAIN cells /\ \A k \in DOMAIN cells : listing[k] = Printed(cells[k])
  BY <1>2
<1> HIDE DEF listing
<1>4. \A k \in DOMAIN cells : Assembled(listing[k]) = cells[k]
  <2> SUFFICES ASSUME NEW k \in DOMAIN cells PROVE Assembled(Printed(cells[k])) = cells[k]
    BY <1>3
  <2>1. cells[k] \in CellType  BY <1>1
  <2>2. \A cell \in CellType : Assembled(Printed(cell)) = cell
    BY WordsAssumption DEF WordsAssumption, CellType, Inst, Raw
  <2> QED  BY <2>1, <2>2
<1>5. uxnasm(listing) = [k \in DOMAIN listing |-> Assembled(listing[k])]  BY DEF uxnasm
<1>6. uxnasm(listing) = [k \in DOMAIN cells |-> cells[k]]  BY <1>3, <1>4, <1>5
<1> QED  BY <1>1, <1>6 DEF listing

-----------------------------------------------------------------------------
(* The end a loaded body comes to, whatever the machine has done so far:   *)
(* it is ahead of the machine's state.  A machine that ends has been       *)
(* through the whole program, or found the stack too short where an        *)
(* expression without a value was used for its value, or came to the       *)
(* second byte of a character that is not ASCII.                           *)
AsItShould(body, L, ok, T) ==
  ~Lacks(body) =>
    /\ IsStatement[body] => T.ws = <<>>
    /\ ok /\ Clean(body) /\ FitsZeroPage(L) => Mirrors(L, Eval[body][Fresh], T)

Ends(body, L, ok, T) ==
  \/ T.status = "underflow" /\ Lacks(body)
  \/ T.status = "lost" /\ Splits(body)
  \/ T.status = "halted" /\ AsItShould(body, L, ok, T)

Destined(r, s, body, L, ok) ==
  StaysOnTrack(body) => \E T : Reaches(r, s, T) /\ Ends(body, L, ok, T)

(* The machine before its first instruction.                               *)
Zeros == [a \in 0 .. 255 |-> 0]

Start == [at |-> 0, ws |-> <<>>, zp |-> Zeros, out |-> <<>>, status |-> "running"]

LEMMA StartRuns == Start \in Running /\ Start.at = 0 /\ Start.ws = <<>>
<1>1. Zeros \in [Bytes -> Bytes]  BY DEF Zeros, Bytes
<1>2. <<>> \in Seq(Bytes) /\ <<>> \in Seq(Bytes \X Bytes)  OBVIOUS
<1> QED  BY <1>1, <1>2 DEF Start, Running

LEMMA FreshMirrored ==
  ASSUME NEW L, Layout(L)
  PROVE  Mirrors(L, Fresh, Start)
<1>1. Fresh \in States
  <2>1. NoValue \in Values /\ 0 \in Values  BY DEF Values, NoValue
  <2>2. [n \in Variables |-> 0] \in [Variables -> Values]  BY <2>1
  <2>3. <<>> \in Seq(Values \X Values)  OBVIOUS
  <2> QED  BY <2>1, <2>2, <2>3 DEF Fresh, States
<1>2. Start.out = Fresh.out  BY DEF Start, Fresh
<1>3. ASSUME NEW n \in NamesOf(L)
      PROVE  Start.zp[Addr(L, n)] = Fresh.env[n]
  <2>1. Addr(L, n) \in Bytes  BY <1>3, AddrIsByte
  <2>2. n \in Variables  BY <1>3 DEF NamesOf, Layout
  <2>3. Start.zp = Zeros /\ Fresh.env = [m \in Variables |-> 0]  BY DEF Start, Fresh
  <2>4. Zeros[Addr(L, n)] = 0  BY <2>1 DEF Zeros, Bytes
  <2> QED  BY <2>2, <2>3, <2>4
<1> QED  BY <1>1, <1>2, <1>3 DEF Mirrors

LEMMA AllAt ==
  ASSUME NEW c \in CodeType
  PROVE  At(c, 0, c) /\ Len(c) \in Nat
<1>1. Len(c) \in Nat  BY LenIsNat
<1> DEFINE n == Len(c)
<1>2. \A k \in 1 .. n : 0 + k \in 1 .. n /\ c[0 + k] = c[k]
  <2> HIDE DEF n
  <2> QED  BY <1>1
<1> QED  BY <1>1, <1>2 DEF At

(* Good code, run from its start, comes to the end it should.              *)
LEMMA GoodIsDestined ==
  ASSUME NEW body \in Expressions, NEW c, NEW L, NEW ok, Good(body, c, L, ok), Layout(L)
  PROVE  Destined(c, Start, body, L, ok)
<1> SUFFICES ASSUME StaysOnTrack(body)
             PROVE  \E T : Reaches(c, Start, T) /\ Ends(body, L, ok, T)
  BY DEF Destined
<1>1. c \in CodeType /\ Behaves(body, c, L, ok)  BY DEF Good
<1>2. Start \in Running /\ Start.at = 0 /\ Start.ws = <<>>  BY StartRuns
<1>3. At(c, Start.at, c) /\ Len(c) \in Nat  BY <1>1, <1>2, AllAt
<1>4. \/ Trouble(body, c, Start)
      \/ \E t : Comes(c, Start, t, Len(c)) /\ Leaves(body, L, ok, Start, t)
  BY <1>1, <1>2, <1>3 DEF Behaves
<1>5. CASE Trouble(body, c, Start)
  <2>1. CASE Lacks(body) /\ Stuck(c, Start)  BY <2>1 DEF Stuck, Ends
  <2>2. CASE Splits(body) /\ Adrift(c, Start)  BY <2>2 DEF Adrift, Ends
  <2> QED  BY <1>5, <2>1, <2>2 DEF Trouble
<1>6. CASE \E t : Comes(c, Start, t, Len(c)) /\ Leaves(body, L, ok, Start, t)
  <2>1. PICK t : Comes(c, Start, t, Len(c)) /\ Leaves(body, L, ok, Start, t)  BY <1>6
  <2>2. t \in Running /\ t.at >= Len(c) /\ Reaches(c, Start, t)
    BY <1>2, <1>3, <2>1 DEF Comes, Further
  <2> DEFINE T == [t EXCEPT !.status = "halted"]
  <2>3. Goes(c, t) = T  BY <2>2 DEF Goes
  <2>4. t.status = "running" /\ T.status = "halted" /\ T.ws = t.ws /\ T.zp = t.zp
        /\ T.out = t.out
    BY <2>2 DEF Running
  <2> HIDE DEF T
  <2>5. Forward(t, T)  BY <2>4 DEF Forward
  <2>6. Reaches(c, t, T)  BY <2>3, <2>4, <2>5, ReachesNext
  <2>7. Reaches(c, Start, T)  BY <2>2, <2>6, ReachesOn
  <2>8. AsItShould(body, L, ok, T)
    <3>1. ASSUME ~Lacks(body), IsStatement[body] PROVE T.ws = <<>>
      BY <1>2, <2>1, <2>4, <3>1 DEF Leaves
    <3>2. ASSUME ~Lacks(body), ok /\ Clean(body), FitsZeroPage(L)
          PROVE  Mirrors(L, Eval[body][Fresh], T)
      <4>1. Fits(L, L)  BY <3>2, ExtendsSelf DEF Fits
      <4>2. Mirrors(L, Fresh, Start)  BY FreshMirrored
      <4>3. Mirrors(L, Eval[body][Fresh], t)  BY <2>1, <3>2, <4>1, <4>2 DEF Leaves
      <4> QED  BY <2>4, <4>3 DEF Mirrors
    <3> QED  BY <3>1, <3>2 DEF AsItShould
  <2> QED  BY <2>4, <2>7, <2>8 DEF Ends
<1> QED  BY <1>4, <1>5, <1>6

(* A step brings the machine nearer to its end.                            *)
LEMMA NearerTheEnd ==
  ASSUME NEW r, NEW s, NEW body, NEW L, NEW ok, Destined(r, s, body, L, ok),
         s.status = "running"
  PROVE  /\ Destined(r, Goes(r, s), body, L, ok)
         /\ StaysOnTrack(body) => Forward(s, Goes(r, s))
<1>1. ASSUME StaysOnTrack(body)
      PROVE  /\ \E T : Reaches(r, Goes(r, s), T) /\ Ends(body, L, ok, T)
             /\ Forward(s, Goes(r, s))
  <2>1. PICK T : Reaches(r, s, T) /\ Ends(body, L, ok, T)  BY <1>1 DEF Destined
  <2>2. s # T  BY <2>1 DEF Ends
  <2> QED  BY <2>1, <2>2, ReachesFrom
<1> QED  BY <1>1 DEF Destined

(* A machine that has stopped is at its end.                               *)
LEMMA AtTheEnd ==
  ASSUME NEW r, NEW s, NEW body, NEW L, NEW ok, Destined(r, s, body, L, ok),
         s.status # "running", StaysOnTrack(body)
  PROVE  Ends(body, L, ok, s)
<1>1. PICK T : Reaches(r, s, T) /\ Ends(body, L, ok, T)  BY DEF Destined
<1>2. s = T  BY <1>1, ReachesFrom
<1> QED  BY <1>1, <1>2

-----------------------------------------------------------------------------
(* The invariant of compiler and machine.                                  *)
RInv ==
  /\ TInv(Expressions)
  /\ Compiled
  /\ MachineOK
  /\ status # "off" => /\ pc = "done" /\ rom = code
                       /\ Destined(rom, Cur, prog, layout, Okay)

LEMMA RunStarts == CRInit => RInv
<1> SUFFICES ASSUME CRInit PROVE RInv
  OBVIOUS
<1>1. Init /\ status = "off"  BY DEF CRInit
<1>2. Trees(Expressions) /\ Literals(Expressions)  BY ExpressionTrees
<1>3. TInv(Expressions)  BY <1>1, <1>2, Started, CodeStarted DEF TInv
<1>4. Compiled  BY <1>1, CompiledStarts
<1>5. MachineOK
  <2>1. zp \in [Bytes -> Bytes]  BY DEF CRInit, Bytes
  <2>2. ws \in Seq(Bytes) /\ out \in Seq(Bytes \X Bytes)  BY DEF CRInit
  <2>3. at = 0 /\ status = "off"  BY DEF CRInit
  <2> QED  BY <2>1, <2>2, <2>3 DEF MachineOK, Statuses
<1> QED  BY <1>1, <1>3, <1>4, <1>5 DEF RInv

LEMMA CompilerSteps ==
  ASSUME RInv, CompileStep
  PROVE  RInv' /\ status = "off"
<1>1. Compile /\ UNCHANGED machine  BY DEF CompileStep
<1>2. Trees(Expressions) /\ Literals(Expressions)  BY ExpressionTrees
<1>3. TInv(Expressions)'  BY <1>1, <1>2, TInvSteps DEF RInv
<1>4. Compiled'  BY <1>1, CompiledSteps DEF RInv
<1>5. pc # "done"
  <2>1. CASE Unwind  BY <2>1 DEF Unwind
  <2>2. CASE ~Unwind
    <3>1. pc = "compiling"
      BY <1>1, <2>2 DEF Compile, Descend, Let, Assign, Binary, Sequence, DerefAssign,
         Deref, Variable, NumberLiteral, CharLiteral, FunctionCall, IfElse,
         UndefinedVariable, Todo, IfElseTooLarge, Ready
    <3> QED  BY <3>1
  <2> QED  BY <2>1, <2>2
<1>6. status = "off" /\ status' = status  BY <1>1, <1>5 DEF RInv, machine
<1>7. MachineOK'  BY <1>1 DEF RInv, machine, MachineOK
<1> QED  BY <1>3, <1>4, <1>6, <1>7 DEF RInv

(* The state of the compiler stays as it is.                               *)
LEMMA CompilerRests ==
  ASSUME RInv, UNCHANGED cgVars
  PROVE  TInv(Expressions)' /\ Compiled'
<1>1. Trees(Expressions) /\ Literals(Expressions)  BY ExpressionTrees
<1>2. TInv(Expressions)'  BY <1>1, TInvSteps DEF RInv
<1>3. Compiled'
  <2>1. Layout(layout') /\ prog' \in Programs  BY DEF RInv, Compiled, cgVars
  <2>2. Okay' = Okay  BY DEF Okay, cgVars
  <2> QED  BY <2>1, <2>2 DEF RInv, Compiled, cgVars
<1> QED  BY <1>2, <1>3

LEMMA Loads ==
  ASSUME RInv, LoadRom
  PROVE  RInv' /\ status = "off"
<1>1. pc = "done" /\ status = "off" /\ UNCHANGED cgVars  BY DEF LoadRom, M!Load
<1>2. TInv(Expressions)' /\ Compiled'  BY <1>1, CompilerRests
<1>3. Good(prog, code, layout, Okay) /\ Layout(layout) /\ prog \in Expressions
  BY <1>1, BodiesAssumption DEF RInv, Compiled, BodiesAssumption
<1>4. code \in CodeType  BY <1>3 DEF Good
<1>5. rom' = code  BY <1>4, Loaded DEF LoadRom, M!Load
<1>6. Cur' = Start  BY DEF LoadRom, M!Load, Cur, Start, Zeros
<1>7. Destined(code, Start, prog, layout, Okay)  BY <1>3, GoodIsDestined
<1>8. MachineOK'
  <2>1. zp' \in [Bytes -> Bytes]  BY DEF LoadRom, M!Load, Bytes
  <2>2. ws' \in Seq(Bytes) /\ out' \in Seq(Bytes \X Bytes)  BY DEF LoadRom, M!Load
  <2>3. at' = 0 /\ status' = "running"  BY DEF LoadRom, M!Load
  <2> QED  BY <2>1, <2>2, <2>3 DEF MachineOK, Statuses
<1>9. Okay' = Okay  BY <1>1 DEF Okay, cgVars
<1>10. Destined(rom', Cur', prog', layout', Okay')
  BY <1>1, <1>5, <1>6, <1>7, <1>9 DEF cgVars
<1> QED  BY <1>1, <1>2, <1>5, <1>8, <1>10 DEF RInv, cgVars

LEMMA RunSteps ==
  ASSUME RInv, RunStep
  PROVE  /\ RInv'
         /\ StaysOnTrack(prog) => at' > at \/ status' # status
<1>1. M!Execute /\ UNCHANGED cgVars  BY DEF RunStep
<1>2. status = "running"  BY <1>1 DEF M!Execute, M!Lit, M!Lit2, M!Ldz, M!Stz, M!Deo,
        M!Compute, M!Jmp, M!Jcn, M!Break, M!Astray, M!Underflow, M!Fetch
<1>3. pc = "done" /\ rom = code /\ Destined(rom, Cur, prog, layout, Okay)
  BY <1>2 DEF RInv
<1>4. rom \in CodeType  BY <1>3 DEF RInv, Compiled, Good
<1>5. MachineOK' /\ rom' = rom  BY <1>1, <1>4, MachineSteps DEF RInv
<1>6. Cur' = Goes(rom, Cur)  BY <1>1, <1>4, Executes DEF RInv
<1>7. Cur.status = "running"  BY <1>2 DEF Cur
<1>8. /\ Destined(rom, Goes(rom, Cur), prog, layout, Okay)
      /\ StaysOnTrack(prog) => Forward(Cur, Goes(rom, Cur))
  BY <1>3, <1>7, NearerTheEnd
<1>9. TInv(Expressions)' /\ Compiled'  BY <1>1, CompilerRests
<1>10. Okay' = Okay  BY <1>1 DEF Okay, cgVars
<1>11. Destined(rom', Cur', prog', layout', Okay')
  BY <1>1, <1>5, <1>6, <1>8, <1>10 DEF cgVars
<1>12. StaysOnTrack(prog) => at' > at \/ status' # status
  <2>1. StaysOnTrack(prog) => Forward(Cur, Cur')  BY <1>6, <1>8
  <2>2. Cur'.at = at' /\ Cur'.status = status' /\ Cur.at = at /\ Cur.status = status
    BY DEF Cur
  <2> QED  BY <2>1, <2>2 DEF Forward
<1> QED  BY <1>1, <1>3, <1>5, <1>9, <1>11, <1>12 DEF RInv, cgVars

LEMMA RunRests ==
  ASSUME RInv, UNCHANGED crVars
  PROVE  RInv'
<1>1. UNCHANGED cgVars /\ UNCHANGED machine  BY DEF crVars
<1>2. TInv(Expressions)' /\ Compiled'  BY <1>1, CompilerRests
<1>3. MachineOK'  BY <1>1 DEF RInv, MachineOK, machine
<1>4. Okay' = Okay /\ Cur' = Cur  BY <1>1 DEF Okay, Cur, cgVars, machine
<1> QED  BY <1>1, <1>2, <1>3, <1>4 DEF RInv, cgVars, machine

LEMMA RInvSteps == RInv /\ [CRNext]_crVars => RInv'
BY CompilerSteps, Loads, RunSteps, RunRests DEF CRNext

-----------------------------------------------------------------------------
LEMMA RInvTypes == RInv => CRTypeOK
<1> SUFFICES ASSUME RInv PROVE CRTypeOK
  OBVIOUS
<1>1. TypeOK  BY TInvTypes, ExpressionTrees DEF RInv
<1>2. \A k \in DOMAIN ws : ws[k] \in 0 .. 255
  <2>1. ws \in Seq(Bytes)  BY DEF RInv, MachineOK
  <2>2. \A k \in DOMAIN ws : ws[k] \in Bytes  BY <2>1, LenProperties, ElementOfSeq
  <2> QED  BY <2>2 DEF Bytes
<1>3. \A a \in 0 .. 255 : zp[a] \in 0 .. 255  BY DEF RInv, MachineOK, Bytes
<1> QED  BY <1>1, <1>2, <1>3 DEF RInv, MachineOK, Statuses, CRTypeOK

LEMMA RInvEnds ==
  ASSUME RInv, StaysOnTrack(prog), status \notin {"off", "running"}
  PROVE  Ends(prog, layout, Okay, Cur)
<1>1. Destined(rom, Cur, prog, layout, Okay)  BY DEF RInv
<1>2. Cur.status # "running"  BY DEF Cur
<1> QED  BY <1>1, <1>2, AtTheEnd

LEMMA RInvTrouble == RInv => OnlyKnownTrouble
<1> SUFFICES ASSUME RInv, StaysOnTrack(prog)
             PROVE  /\ status = "lost" => Somewhere(SplitChar, prog)
                    /\ status = "underflow" => Somewhere(MissesValue, prog)
  BY DEF OnlyKnownTrouble
<1>1. status \notin {"off", "running"} => Ends(prog, layout, Okay, Cur)  BY RInvEnds
<1>2. Cur.status = status  BY DEF Cur
<1> QED  BY <1>1, <1>2 DEF Ends, Lacks, Splits

LEMMA RInvWellFormed ==
  ASSUME RInv, status = "halted", WellFormed(prog)
  PROVE  AsItShould(prog, layout, Okay, Cur) /\ ~Lacks(prog) /\ IsStatement[prog]
<1>1. prog \in Expressions  BY BodiesAssumption DEF RInv, Compiled, BodiesAssumption
<1>2. StaysOnTrack(prog) /\ ~Lacks(prog) /\ IsStatement[prog]  BY <1>1, WellFormedStays
<1>3. Ends(prog, layout, Okay, Cur)  BY <1>2, RInvEnds
<1>4. Cur.status = "halted"  BY DEF Cur
<1> QED  BY <1>2, <1>3, <1>4 DEF Ends

LEMMA RInvBalanced == RInv => Balanced
<1> SUFFICES ASSUME RInv, status = "halted", WellFormed(prog) PROVE ws = <<>>
  BY DEF Balanced
<1>1. Cur.ws = ws  BY DEF Cur
<1> QED  BY <1>1, RInvWellFormed DEF AsItShould

LEMMA RInvAgrees == RInv => Agree
<1> SUFFICES ASSUME RInv, status = "halted", WellFormed(prog), FitsZeroPage(layout),
                    ~Somewhere(ComparesOrEqual, prog)
             PROVE  AsMeant
  BY DEF Agree
<1>1. Okay /\ Clean(prog)  BY DEF WellFormed, Okay, Clean
<1>2. Mirrors(layout, Eval[prog][Fresh], Cur)
  BY <1>1, RInvWellFormed DEF AsItShould
<1>3. DeclaredNames = NamesOf(layout)
  <2>1. DOMAIN layout = 1 .. Len(layout)
    BY LenProperties DEF RInv, Compiled, Layout, IsSeq
  <2> QED  BY <2>1 DEF DeclaredNames, NamesOf
<1>4. Cur.zp = zp /\ Cur.out = out  BY DEF Cur
<1> QED  BY <1>2, <1>3, <1>4 DEF AsMeant, Meaning, Mirrors

-----------------------------------------------------------------------------
(* Through compilation and run alike, every byte on the stack and on the   *)
(* zero page is a byte, and the compiler's state has its shape: for every  *)
(* set of expression trees.                                                *)
THEOREM RunTypeCorrect == CRSpec => []CRTypeOK
BY RunStarts, RInvSteps, RInvTypes, PTL DEF CRSpec

(* For every body whose jumps fit a signed byte: the machine executes a    *)
(* byte of a literal only where the body has a character that is not       *)
(* ASCII, and the stack is too short only where something without a value  *)
(* was used for its value.                                                 *)
THEOREM RunKnownTrouble == CRSpec => []OnlyKnownTrouble
BY RunStarts, RInvSteps, RInvTrouble, PTL DEF CRSpec

(* Every well-formed body leaves the working stack empty.                  *)
THEOREM RunBalanced == CRSpec => []Balanced
BY RunStarts, RInvSteps, RInvBalanced, PTL DEF CRSpec

(* The compiler is correct: the run of every well-formed body without the  *)
(* two comparisons that are compiled as others, whose variables have room  *)
(* on the zero page, ends with the variables and the output that the body  *)
(* means.                                                                  *)
THEOREM RunAgrees == CRSpec => []Agree
BY RunStarts, RInvSteps, RInvAgrees, PTL DEF CRSpec

(* The machine never goes back in the code of a body whose jumps and       *)
(* numbers fit.                                                            *)
THEOREM RunForward == CRSpec => ForwardOnly
<1>1. RInv /\ [CRNext]_crVars =>
        [StaysOnTrack(prog) => at' > at \/ status' # status \/ status = "off"]_machine
  <2> SUFFICES ASSUME RInv, [CRNext]_crVars
               PROVE  [StaysOnTrack(prog) =>
                         at' > at \/ status' # status \/ status = "off"]_machine
    OBVIOUS
  <2>1. CASE CompileStep  BY <2>1 DEF CompileStep
  <2>2. CASE LoadRom  BY <2>2, Loads
  <2>3. CASE RunStep  BY <2>3, RunSteps
  <2>4. CASE UNCHANGED crVars  BY <2>4 DEF crVars
  <2> QED  BY <2>1, <2>2, <2>3, <2>4 DEF CRNext
<1> QED  BY <1>1, RunStarts, RInvSteps, PTL DEF CRSpec, ForwardOnly
=============================================================================
