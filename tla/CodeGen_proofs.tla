---------------------------- MODULE CodeGen_proofs ----------------------------
(***************************************************************************)
(* Proofs about what compile_expr allocates, frees and returns, for every  *)
(* expression tree.                                                        *)
(***************************************************************************)
EXTENDS CodeGen, CommonLemmas, SequenceTheorems, TLAPS

-----------------------------------------------------------------------------
(* Sums over the stack.  HeldBy is a function defined by recursion on the  *)
(* number of frames; that there is such a function, and what it adds up    *)
(* to, is shown by looking for the least number of frames that is an       *)
(* exception.  So are Addr and the program of a sequence, below.           *)
Adds(d, n, g) ==
  g = [k \in 0 .. n |-> IF k = 0 THEN 0 ELSE g[k - 1] + d[k]]

LEMMA AddsExists ==
  ASSUME NEW d, NEW n \in Nat
  PROVE  \E g : Adds(d, n, g)
<1> DEFINE T == {m \in Nat : ~\E g : Adds(d, m, g)}
<1> SUFFICES ASSUME T # {} PROVE FALSE
  OBVIOUS
<1>1. PICK m \in T : \A y \in T : m <= y  BY Least
<1>2. m # 0
  <2>1. Adds(d, 0, [k \in 0 .. 0 |-> 0])  BY DEF Adds
  <2> QED  BY <1>1, <2>1
<1>3. m - 1 \in Nat /\ m - 1 \notin T  BY <1>1, <1>2
<1>4. PICK g : Adds(d, m - 1, g)  BY <1>3
<1> DEFINE h == [k \in 0 .. m |-> IF k = m THEN g[m - 1] + d[m] ELSE g[k]]
<1>5. ASSUME NEW k \in 0 .. m
      PROVE  h[k] = IF k = 0 THEN 0 ELSE h[k - 1] + d[k]
  <2>1. CASE k = m  BY <1>2, <1>3, <2>1
  <2>2. CASE k # m
    <3>1. k \in 0 .. m - 1 /\ (k # 0 => k - 1 \in 0 .. m - 1)  BY <1>3, <2>2
    <3>2. g[k] = IF k = 0 THEN 0 ELSE g[k - 1] + d[k]
      BY <1>4, <3>1 DEF Adds
    <3> QED  BY <2>2, <3>1, <3>2
  <2> QED  BY <2>1, <2>2
<1>6. Adds(d, m, h)  BY <1>5 DEF Adds
<1> QED  BY <1>1, <1>6

IsSum(s, n, g) ==
  g = [k \in 0 .. n |-> IF k = 0 THEN 0 ELSE g[k - 1] + Held(s[k])]

LEMMA SumExists ==
  ASSUME NEW s, NEW n \in Nat
  PROVE  \E g : IsSum(s, n, g)
<1> DEFINE d == [k \in 1 .. n |-> Held(s[k])]
<1>1. PICK g : Adds(d, n, g)  BY AddsExists
<1>2. \A k \in 0 .. n : k # 0 => d[k] = Held(s[k])  OBVIOUS
<1> HIDE DEF d
<1>3. IsSum(s, n, g)  BY <1>1, <1>2 DEF Adds, IsSum
<1> QED  BY <1>3

LEMMA HeldByIs ==
  ASSUME NEW s, Len(s) \in Nat
  PROVE  \E g : IsSum(s, Len(s), g) /\ HeldBy(s) = g[Len(s)]
<1> DEFINE sum == CHOOSE g : IsSum(s, Len(s), g)
<1>1. IsSum(s, Len(s), sum)  BY SumExists
<1>2. HeldBy(s) = sum[Len(s)]  BY DEF HeldBy, IsSum
<1> QED  BY <1>1, <1>2

LEMMA SumsAgree ==
  ASSUME NEW s, NEW t, NEW n \in Nat, NEW m \in Nat, n <= m, NEW g, NEW h,
         IsSum(s, m, g), IsSum(t, n, h), \A k \in 1 .. n : Held(s[k]) = Held(t[k])
  PROVE  g[n] = h[n]
<1> DEFINE T == {k \in 0 .. n : g[k] # h[k]}
<1> SUFFICES ASSUME T # {} PROVE FALSE
  OBVIOUS
<1>0. T \subseteq Nat  OBVIOUS
<1>1. PICK k \in T : \A y \in T : k <= y  BY <1>0, Least
<1>2. k \in 0 .. n /\ k \in 0 .. m /\ g[k] # h[k]  BY <1>1
<1>3. /\ g[k] = IF k = 0 THEN 0 ELSE g[k - 1] + Held(s[k])
      /\ h[k] = IF k = 0 THEN 0 ELSE h[k - 1] + Held(t[k])
  BY <1>2 DEF IsSum
<1>4. k # 0  BY <1>2, <1>3
<1>5. k - 1 \in 0 .. n /\ k - 1 \notin T  BY <1>1, <1>2, <1>4
<1> QED  BY <1>2, <1>3, <1>4, <1>5

(* Nothing is held by no frames, and one frame more holds what it holds.   *)
LEMMA HeldNone == ASSUME NEW s, Len(s) = 0 PROVE HeldBy(s) = 0
<1>1. PICK g : IsSum(s, 0, g) /\ HeldBy(s) = g[0]  BY HeldByIs
<1> QED  BY <1>1 DEF IsSum

LEMMA HeldOneMore ==
  ASSUME NEW s, NEW t, Len(t) \in Nat, Len(s) = Len(t) + 1,
         \A k \in 1 .. Len(t) : Held(s[k]) = Held(t[k])
  PROVE  HeldBy(s) = HeldBy(t) + Held(s[Len(s)])
<1>1. PICK g : IsSum(s, Len(s), g) /\ HeldBy(s) = g[Len(s)]  BY HeldByIs
<1>2. PICK h : IsSum(t, Len(t), h) /\ HeldBy(t) = h[Len(t)]  BY HeldByIs
<1>3. g[Len(t)] = h[Len(t)]
  <2> DEFINE n == Len(t)
             m == Len(s)
  <2>1. IsSum(s, m, g) /\ IsSum(t, n, h)  BY <1>1, <1>2
  <2>2. n \in Nat /\ m \in Nat /\ n <= m  OBVIOUS
  <2>3. \A k \in 1 .. n : Held(s[k]) = Held(t[k])  OBVIOUS
  <2> HIDE DEF n, m
  <2>4. g[n] = h[n]  BY <2>1, <2>2, <2>3, SumsAgree, SMTT(40)
  <2> QED  BY <2>4 DEF n
<1>4. g[Len(s)] = g[Len(s) - 1] + Held(s[Len(s)])  BY <1>1 DEF IsSum
<1> QED  BY <1>1, <1>2, <1>3, <1>4

-----------------------------------------------------------------------------
LEMMA Shortened ==
  ASSUME NEW q, IsSeq(q), Len(q) > 0
  PROVE  LET r == SubSeq(q, 1, Len(q) - 1) IN
         /\ IsSeq(r) /\ Len(q) \in Nat /\ Len(r) = Len(q) - 1
         /\ \A k \in 1 .. Len(r) : r[k] = q[k]
         /\ r = <<>> <=> Len(q) = 1
<1> DEFINE S == {q[k] : k \in DOMAIN q}
           r == SubSeq(q, 1, Len(q) - 1)
<1>1. q \in Seq(S)  BY DEF IsSeq
<1>2. /\ Len(q) \in Nat /\ Len(r) = Len(q) - 1 /\ r \in Seq(S)
      /\ \A k \in 1 .. Len(r) : r[k] = q[k]
  <2>1. Len(q) \in Nat /\ \A i \in 1 .. Len(q) - 1 : q[i] \in S  BY <1>1
  <2>2. /\ r \in Seq(S)
        /\ Len(r) = IF 1 <= Len(q) - 1 THEN Len(q) - 1 - 1 + 1 ELSE 0
        /\ \A k \in 1 .. Len(q) - 1 - 1 + 1 : r[k] = q[1 + k - 1]
    <3> DEFINE n == Len(q) - 1
    <3>1. n \in Int /\ 1 \in Int  BY <2>1
    <3>2. \A i \in 1 .. n : q[i] \in S  BY <2>1
    <3> HIDE DEF n, S
    <3>3. /\ SubSeq(q, 1, n) \in Seq(S)
          /\ Len(SubSeq(q, 1, n)) = IF 1 <= n THEN n - 1 + 1 ELSE 0
          /\ \A k \in 1 .. n - 1 + 1 : SubSeq(q, 1, n)[k] = q[1 + k - 1]
      BY <3>1, <3>2, SubSeqProperties
    <3> QED  BY <3>3 DEF n
  <2>3. Len(r) = Len(q) - 1
    <3> HIDE DEF r
    <3>1. Len(r) = IF 1 <= Len(q) - 1 THEN Len(q) - 1 - 1 + 1 ELSE 0  BY <2>2
    <3> DEFINE n == Len(q)
    <3>2. n \in Nat /\ n > 0  BY <1>1, LenProperties
    <3>3. Len(r) = IF 1 <= n - 1 THEN n - 1 - 1 + 1 ELSE 0  BY <3>1
    <3> HIDE DEF n
    <3>4. Len(r) = n - 1  BY <3>2, <3>3
    <3> QED  BY <3>4 DEF n
  <2>4. \A k \in 1 .. Len(r) : 1 + k - 1 = k /\ k \in 1 .. Len(q) - 1 - 1 + 1
    BY <2>1, <2>3
  <2> QED  BY <2>1, <2>2, <2>3, <2>4
<1>3. r = <<>> <=> Len(q) = 1
  <2>1. r = <<>> <=> Len(r) = 0  BY <1>2, EmptySeq
  <2> QED  BY <1>2, <2>1
<1> HIDE DEF r
<1>4. r \in Seq({r[k] : k \in DOMAIN r})
  <2>1. \A k \in 1 .. Len(r) : r[k] \in {r[j] : j \in DOMAIN r}  BY <1>2
  <2> QED  BY <1>2, <2>1
<1> QED  BY <1>2, <1>3, <1>4 DEF IsSeq, r

LEMMA Replaced ==
  ASSUME NEW q, IsSeq(q), Len(q) > 0, NEW x
  PROVE  LET r == [q EXCEPT ![Len(q)] = x] IN
         /\ IsSeq(r) /\ Len(r) = Len(q) /\ r[Len(q)] = x
         /\ \A k \in 1 .. Len(q) - 1 : r[k] = q[k]
<1> DEFINE S == {q[k] : k \in DOMAIN q} \union {x}
           r == [q EXCEPT ![Len(q)] = x]
<1>1. q \in Seq(S) /\ x \in S /\ Len(q) \in Nat  BY DEF IsSeq
<1>2. /\ Len(r) = Len(q) /\ r \in Seq(S) /\ r[Len(q)] = x
      /\ \A k \in 1 .. Len(q) - 1 : r[k] = q[k]
  BY <1>1
<1> HIDE DEF r
<1>3. r \in Seq({r[k] : k \in DOMAIN r})
  <2>1. \A k \in 1 .. Len(r) : r[k] \in {r[j] : j \in DOMAIN r}  BY <1>2
  <2> QED  BY <1>2, <2>1
<1> QED  BY <1>2, <1>3 DEF IsSeq, r

-----------------------------------------------------------------------------
(* Expression trees: the parts of an expression are expressions, and a     *)
(* conditional has a condition, a body and at most one else body.          *)
Trees(E) ==
  /\ Programs \subseteq E
  /\ \A e \in E : /\ Parts(e) \in Seq(E)
                  /\ e.tag = "IF_ELSE_E" => Len(Parts(e)) \in {2, 3}

(* A call in progress has compiled some of its parts.                      *)
FrameOK(f, E) ==
  /\ f = [e |-> f.e, parts |-> f.parts]
  /\ f.e \in E
  /\ IsSeq(f.parts)
  /\ Len(f.parts) <= Len(Parts(f.e))

Waits(f) == Len(f.parts) < Len(Parts(f.e))

StackOK(E) ==
  /\ IsSeq(stack)
  /\ \A k \in 1 .. Len(stack) : FrameOK(stack[k], E)
  /\ \A k \in 1 .. Len(stack) : pc # "compiling" \/ k # Len(stack) => Waits(stack[k])
  /\ pc \in {"compiling", "failing"} => Len(stack) > 0
  /\ pc = "failed" => Len(stack) = 0

(* What is alive, as far as a failure has not made it unknown.             *)
Accounted ==
  /\ live \in Int
  /\ pc = "compiling" => live = HeldBy(stack)
  /\ pc = "done" => live = 1
  /\ /\ pc \in {"failing", "failed"}
     /\ cause.tag \in {"RETURN_E", "STRING_LITERAL_E"}
     /\ "DEREF_ASSIGN_E" \notin cause.around
     => /\ live = HeldBy(stack)
        /\ \A k \in 1 .. Len(stack) : stack[k].e.tag # "DEREF_ASSIGN_E"

IInv(E) == StackOK(E) /\ Accounted

LEMMA FrameHolds ==
  ASSUME NEW E, Trees(E), NEW f, FrameOK(f, E)
  PROVE  Len(f.parts) \in Nat /\ Len(Parts(f.e)) \in Nat /\ Held(f) \in Nat
<1>1. Len(f.parts) \in Nat  BY LenProperties DEF FrameOK, IsSeq
<1>2. Len(Parts(f.e)) \in Nat  BY LenProperties DEF FrameOK, Trees
<1> QED  BY <1>1, <1>2 DEF Held

LEMMA HeldNat ==
  ASSUME NEW s, Len(s) \in Nat, \A k \in 1 .. Len(s) : Held(s[k]) \in Nat
  PROVE  HeldBy(s) \in Nat
<1>1. PICK g : IsSum(s, Len(s), g) /\ HeldBy(s) = g[Len(s)]  BY HeldByIs
<1> DEFINE T == {k \in 0 .. Len(s) : g[k] \notin Nat}
<1>2. T = {}
  <2> SUFFICES ASSUME T # {} PROVE FALSE
    OBVIOUS
  <2>0. T \subseteq Nat  OBVIOUS
  <2>1. PICK k \in T : \A y \in T : k <= y  BY <2>0, Least
  <2>2. k \in 0 .. Len(s) /\ g[k] \notin Nat  BY <2>1
  <2>3. g[k] = IF k = 0 THEN 0 ELSE g[k - 1] + Held(s[k])
    BY <1>1, <2>2 DEF IsSum
  <2>4. k # 0  BY <2>2, <2>3
  <2>5. k - 1 \in 0 .. Len(s) /\ k - 1 \notin T  BY <2>1, <2>2, <2>4
  <2>6. g[k - 1] \in Nat  BY <2>5
  <2> QED  BY <2>2, <2>3, <2>4, <2>6
<1> QED  BY <1>1, <1>2

(* A part more: one program more, unless a sequence has swallowed it.      *)
LEMMA Grown ==
  ASSUME NEW E, Trees(E), NEW f, FrameOK(f, E), Waits(f), NEW c
  PROVE  LET g == [f EXCEPT !.parts = Append(@, c)] IN
         /\ FrameOK(g, E) /\ g.e = f.e
         /\ Held(g) = Held(f) + 1 - Entered(f.e)
<1> DEFINE g == [f EXCEPT !.parts = Append(@, c)]
<1>1. g = [e |-> f.e, parts |-> Append(f.parts, c)]
  BY DEF FrameOK
<1>2. g.e = f.e /\ g.parts = Append(f.parts, c)  BY <1>1
<1>3. Len(g.parts) = Len(f.parts) + 1 /\ IsSeq(g.parts)
  BY <1>2, Appended DEF FrameOK
<1>4. Len(f.parts) \in Nat /\ Len(Parts(f.e)) \in Nat  BY FrameHolds
<1>5. FrameOK(g, E)
  BY <1>1, <1>2, <1>3, <1>4 DEF FrameOK, Waits
<1> HIDE DEF g
<1>6. Held(g) = Held(f) + 1 - Entered(f.e)
  BY <1>2, <1>3, <1>4 DEF Held, Entered
<1> QED  BY <1>2, <1>5, <1>6 DEF g

-----------------------------------------------------------------------------
(* Taking the topmost call off the stack.                                  *)
LEMMA Popped ==
  ASSUME NEW E, Trees(E), StackOK(E), Len(stack) > 0
  PROVE  /\ IsSeq(Below) /\ Len(stack) \in Nat /\ Len(Below) = Len(stack) - 1
         /\ Below = <<>> <=> Len(stack) = 1
         /\ \A k \in 1 .. Len(Below) : Below[k] = stack[k]
         /\ FrameOK(Top, E) /\ Held(Top) \in Nat
         /\ \A k \in 1 .. Len(Below) : FrameOK(Below[k], E) /\ Waits(Below[k])
         /\ HeldBy(Below) \in Nat
         /\ HeldBy(stack) = HeldBy(Below) + Held(Top)
<1>1. /\ IsSeq(Below) /\ Len(stack) \in Nat /\ Len(Below) = Len(stack) - 1
      /\ Below = <<>> <=> Len(stack) = 1
      /\ \A k \in 1 .. Len(Below) : Below[k] = stack[k]
  BY Shortened DEF StackOK, Below
<1>2. FrameOK(Top, E)  BY <1>1 DEF StackOK, Top
<1>3. Held(Top) \in Nat  BY <1>2, FrameHolds
<1>4. \A k \in 1 .. Len(Below) : FrameOK(Below[k], E) /\ Waits(Below[k])
  BY <1>1 DEF StackOK
<1>5. \A k \in 1 .. Len(Below) : Held(Below[k]) \in Nat
  BY <1>4, FrameHolds
<1>6. Len(Below) \in Nat  BY <1>1
<1>7. HeldBy(Below) \in Nat  BY <1>5, <1>6, HeldNat
<1>8. \A k \in 1 .. Len(Below) : Held(stack[k]) = Held(Below[k])  BY <1>1
<1>9. Len(stack) = Len(Below) + 1  BY <1>1
<1>10. HeldBy(stack) = HeldBy(Below) + Held(stack[Len(stack)])
  BY <1>6, <1>8, <1>9, HeldOneMore
<1> QED  BY <1>1, <1>2, <1>3, <1>4, <1>7, <1>10 DEF Top

(* A call is entered: it has compiled nothing yet.                         *)
LEMMA Entering ==
  ASSUME NEW E, Trees(E), NEW e \in E
  PROVE  /\ FrameOK(Frame(e), E)
         /\ Held(Frame(e)) = Entered(e)
<1>1. Frame(e).e = e /\ Frame(e).parts = <<>>
      /\ Frame(e) = [e |-> Frame(e).e, parts |-> Frame(e).parts]
  BY DEF Frame
<1>2. Len(Parts(e)) \in Nat  BY LenProperties DEF Trees
<1>3. IsSeq(<<>>) /\ Len(<<>>) = 0  BY EmptySeq DEF IsSeq
<1> QED  BY <1>1, <1>2, <1>3 DEF FrameOK, Held, Entered

LEMMA Started ==
  ASSUME NEW E, Trees(E), Init
  PROVE  IInv(E)
<1>1. prog \in E /\ stack = <<Frame(prog)>> /\ pc = "compiling"
      /\ live = Entered(prog)
  BY DEF Init, Trees
<1>2. FrameOK(Frame(prog), E) /\ Held(Frame(prog)) = Entered(prog)
  BY <1>1, Entering
<1>3. Len(stack) = 1 /\ stack[1] = Frame(prog) /\ IsSeq(stack)
  <2>1. stack \in Seq({Frame(prog)}) /\ Len(stack) = 1 /\ stack[1] = Frame(prog)
    BY <1>1
  <2>2. {stack[k] : k \in DOMAIN stack} = {Frame(prog)}
    BY <2>1, LenProperties
  <2> QED  BY <2>1, <2>2 DEF IsSeq
<1>4. StackOK(E)
  BY <1>1, <1>2, <1>3 DEF StackOK
<1>5. HeldBy(stack) = live
  <2>1. Len(<<>>) = 0  OBVIOUS
  <2>2. HeldBy(<<>>) = 0  BY <2>1, HeldNone
  <2>3. HeldBy(stack) = HeldBy(<<>>) + Held(stack[Len(stack)])
    <3> DEFINE none == <<>>
    <3>1. Len(none) \in Nat /\ Len(stack) = Len(none) + 1
      BY <1>3, <2>1
    <3>2. \A k \in 1 .. Len(none) : Held(stack[k]) = Held(none[k])  BY <2>1
    <3> HIDE DEF none
    <3>3. HeldBy(stack) = HeldBy(none) + Held(stack[Len(stack)])
      BY <3>1, <3>2, HeldOneMore
    <3> QED  BY <3>3 DEF none
  <2>4. Entered(prog) \in Int  BY DEF Entered
  <2> QED  BY <1>1, <1>2, <1>3, <2>2, <2>3, <2>4
<1>6. Accounted
  BY <1>1, <1>5 DEF Accounted, Entered
<1> QED  BY <1>4, <1>6 DEF IInv

LEMMA Descended ==
  ASSUME NEW E, Trees(E), IInv(E), Descend
  PROVE  IInv(E)'
<1>1. pc = "compiling" /\ pc' = "compiling" /\ Waits(Top) /\ Len(stack) > 0
  BY DEF Descend, Waits, IInv, StackOK
<1> DEFINE part == Parts(Top.e)[Len(Top.parts) + 1]
<1>2. stack' = Append(stack, Frame(part)) /\ live' = live + Entered(part)
  BY DEF Descend
<1>3. FrameOK(Top, E) /\ Len(stack) \in Nat /\ IsSeq(stack)
  BY <1>1, Popped DEF IInv, StackOK
<1>4. part \in E
  <2>1. Parts(Top.e) \in Seq(E)  BY <1>3 DEF Trees, FrameOK
  <2>2. Len(Top.parts) \in Nat  BY <1>3, FrameHolds
  <2>3. Len(Top.parts) + 1 \in 1 .. Len(Parts(Top.e))
    BY <1>1, <2>1, <2>2, LenProperties DEF Waits
  <2> QED  BY <2>1, <2>3
<1> HIDE DEF part
<1>5. FrameOK(Frame(part), E) /\ Held(Frame(part)) = Entered(part)
  BY <1>4, Entering
<1>6. /\ Len(stack') = Len(stack) + 1 /\ IsSeq(stack')
      /\ \A k \in 1 .. Len(stack) : stack'[k] = stack[k]
      /\ stack'[Len(stack) + 1] = Frame(part)
  BY <1>2, <1>3, Appended
<1>7. \A k \in 1 .. Len(stack) : FrameOK(stack[k], E) /\ Waits(stack[k])
  BY <1>1, <1>3 DEF IInv, StackOK, Top
<1>8. StackOK(E)'
  <2>1. \A k \in 1 .. Len(stack') : k = Len(stack) + 1 \/ k \in 1 .. Len(stack)
    BY <1>3, <1>6
  <2>2. \A k \in 1 .. Len(stack') : FrameOK(stack'[k], E)
    BY <2>1, <1>5, <1>6, <1>7
  <2>3. \A k \in 1 .. Len(stack') : k # Len(stack') => Waits(stack'[k])
    BY <2>1, <1>6, <1>7
  <2> QED  BY <1>1, <1>3, <1>6, <2>2, <2>3 DEF StackOK
<1>9. HeldBy(stack') = HeldBy(stack) + Entered(part)
  <2>1. \A k \in 1 .. Len(stack) : Held(stack'[k]) = Held(stack[k])  BY <1>6
  <2>2. HeldBy(stack') = HeldBy(stack) + Held(stack'[Len(stack')])
    BY <1>3, <1>6, <2>1, HeldOneMore
  <2> QED  BY <1>5, <1>6, <2>2
<1>10. Accounted'
  <2>1. live \in Int /\ live = HeldBy(stack)  BY <1>1 DEF IInv, Accounted
  <2>2. live' \in Int  BY <1>2, <2>1 DEF Entered
  <2> QED  BY <1>1, <1>2, <1>9, <2>1, <2>2 DEF Accounted
<1> QED  BY <1>8, <1>10 DEF IInv

(* compile_expr returns a program: its caller, if there is one, has one    *)
(* part more.  Every case leaves one program where it held Held(Top).      *)
LEMMA Returned ==
  ASSUME NEW E, Trees(E), IInv(E), pc = "compiling",
         NEW cells, NEW delta \in Int, delta = 1 - Held(Top), Return(cells, delta)
  PROVE  IInv(E)'
<1>1. Len(stack) > 0 /\ StackOK(E) /\ live \in Int /\ live = HeldBy(stack)
  BY DEF IInv, StackOK, Accounted
<1>2. /\ IsSeq(Below) /\ Len(stack) \in Nat /\ Len(Below) = Len(stack) - 1
      /\ Below = <<>> <=> Len(stack) = 1
      /\ \A k \in 1 .. Len(Below) : Below[k] = stack[k]
      /\ Held(Top) \in Nat
      /\ \A k \in 1 .. Len(Below) : FrameOK(Below[k], E) /\ Waits(Below[k])
      /\ HeldBy(Below) \in Nat
      /\ HeldBy(stack) = HeldBy(Below) + Held(Top)
  BY <1>1, Popped
<1>3. live + delta = HeldBy(Below) + 1  BY <1>1, <1>2
<1>4. CASE Below = <<>>
  <2>1. stack' = <<>> /\ pc' = "done" /\ live' = live + delta
    BY <1>4 DEF Return
  <2>2. Len(<<>>) = 0 /\ IsSeq(<<>>)  BY EmptySeq DEF IsSeq
  <2>3. live' = 1  BY <1>2, <1>3, <1>4, <2>1, <2>2, HeldNone
  <2>4. StackOK(E)'  BY <2>1, <2>2 DEF StackOK
  <2>5. Accounted'  BY <2>1, <2>3 DEF Accounted
  <2> QED  BY <2>4, <2>5 DEF IInv
<1>5. CASE Below # <<>>
  <2> DEFINE n == Len(Below)
             f == Below[n]
             g == [f EXCEPT !.parts = Append(@, cells)]
  <2>1. n \in Nat /\ n > 0 /\ FrameOK(f, E) /\ Waits(f) /\ Held(f) \in Int
    BY <1>2, <1>5, FrameHolds
  <2>2. FrameOK(g, E) /\ Held(g) = Held(f) + 1 - Entered(f.e)
    BY <2>1, Grown
  <2>3. /\ stack' = [Below EXCEPT ![n] = g]
        /\ live' = live + delta - Entered(f.e)
        /\ pc' = "compiling"
    BY <1>5 DEF Return
  <2> HIDE DEF g
  <2>4. /\ IsSeq(stack') /\ Len(stack') = n /\ stack'[n] = g
        /\ \A k \in 1 .. n - 1 : stack'[k] = Below[k]
    <3> DEFINE r == [Below EXCEPT ![Len(Below)] = g]
    <3>1. IsSeq(Below) /\ Len(Below) > 0  BY <1>2, <2>1
    <3>2. /\ IsSeq(r) /\ Len(r) = Len(Below) /\ r[Len(Below)] = g
          /\ \A k \in 1 .. Len(Below) - 1 : r[k] = Below[k]
      BY <3>1, Replaced
    <3>3. stack' = r  BY <2>3
    <3> HIDE DEF r
    <3> QED  BY <3>2, <3>3
  <2>5. StackOK(E)'
    <3>1. \A k \in 1 .. n : k = n \/ k \in 1 .. n - 1  BY <2>1
    <3>2. \A k \in 1 .. n : FrameOK(stack'[k], E)
      BY <1>2, <2>1, <2>2, <2>4, <3>1
    <3>3. \A k \in 1 .. n : k # n => Waits(stack'[k])
      BY <1>2, <2>1, <2>4, <3>1
    <3> QED  BY <2>1, <2>3, <2>4, <3>2, <3>3 DEF StackOK
  <2>6. HeldBy(stack') = HeldBy(Below) + 1 - Entered(f.e)
    <3> DEFINE rest == SubSeq(Below, 1, n - 1)
    <3>1. /\ Len(rest) = n - 1
          /\ \A k \in 1 .. n - 1 : rest[k] = Below[k]
      BY <1>2, <2>1, Shortened
    <3> HIDE DEF rest
    <3>2. Len(rest) \in Nat /\ n = Len(rest) + 1  BY <2>1, <3>1
    <3>3. \A k \in 1 .. Len(rest) : Held(Below[k]) = Held(rest[k])
      BY <3>1
    <3>4. HeldBy(Below) = HeldBy(rest) + Held(f)
      BY <3>2, <3>3, HeldOneMore
    <3>5. \A k \in 1 .. Len(rest) : Held(stack'[k]) = Held(rest[k])
      BY <2>4, <3>1
    <3>6. HeldBy(stack') = HeldBy(rest) + Held(g)
      BY <2>4, <3>2, <3>5, HeldOneMore
    <3>7. HeldBy(rest) \in Nat
      <4>1. \A k \in 1 .. Len(rest) : Held(rest[k]) \in Nat
        BY <1>2, <2>1, <3>1, FrameHolds
      <4> QED  BY <3>2, <4>1, HeldNat
    <3> QED  BY <2>1, <2>2, <3>4, <3>6, <3>7 DEF Entered
  <2>7. Accounted'
    <3> DEFINE x == Entered(f.e)
               b == HeldBy(Below)
    <3>1. x \in Int /\ b \in Int  BY <1>2 DEF Entered
    <3>2. /\ live' = live + delta - x /\ live + delta = b + 1
          /\ HeldBy(stack') = b + 1 - x
      BY <1>3, <2>3, <2>6
    <3> HIDE DEF x, b
    <3>3. live' \in Int /\ live' = HeldBy(stack')
      <4>1. live \in Int /\ live + delta = b + 1 /\ live' = live + delta - x
        BY <1>1, <3>2
      <4>2. live' = b + 1 - x /\ b + 1 - x \in Int  BY <3>1, <4>1
      <4> QED  BY <3>2, <4>2
    <3> QED  BY <2>3, <3>3 DEF Accounted
  <2> QED  BY <2>5, <2>7 DEF IInv
<1> QED  BY <1>4, <1>5

(* compile_expr returns NULL.                                              *)
LEMMA Failed ==
  ASSUME NEW E, Trees(E), IInv(E), pc = "compiling", NEW delta \in Int, Fail(delta),
         Top.e.tag \in {"RETURN_E", "STRING_LITERAL_E"} => delta = 0 /\ Held(Top) = 0
  PROVE  IInv(E)'
<1>1. Len(stack) > 0 /\ StackOK(E) /\ live \in Int /\ live = HeldBy(stack)
  BY DEF IInv, StackOK, Accounted
<1>2. /\ IsSeq(Below) /\ Len(stack) \in Nat /\ Len(Below) = Len(stack) - 1
      /\ Below = <<>> <=> Len(stack) = 1
      /\ \A k \in 1 .. Len(Below) : FrameOK(Below[k], E) /\ Waits(Below[k])
      /\ HeldBy(Below) \in Nat
      /\ HeldBy(stack) = HeldBy(Below) + Held(Top)
  BY <1>1, Popped
<1>3. /\ stack' = Below /\ live' = live + delta
      /\ pc' = IF Below = <<>> THEN "failed" ELSE "failing"
      /\ cause' = [tag |-> Top.e.tag, around |-> Tags(Below)]
  BY DEF Fail
<1>4. StackOK(E)'
  BY <1>2, <1>3 DEF StackOK
<1>5. Accounted'
  <2>1. cause'.tag \in {"RETURN_E", "STRING_LITERAL_E"} => live' = HeldBy(Below)
    BY <1>1, <1>2, <1>3
  <2>2. DOMAIN Below = 1 .. Len(Below)  BY <1>2, LenProperties DEF IsSeq
  <2>3. "DEREF_ASSIGN_E" \notin cause'.around
        => \A k \in 1 .. Len(Below) : Below[k].e.tag # "DEREF_ASSIGN_E"
    BY <1>3, <2>2 DEF Tags
  <2> QED  BY <1>1, <1>3, <2>1, <2>3 DEF Accounted
<1> QED  BY <1>4, <1>5 DEF IInv

(* A call that waits for a part frees what it holds, unless it is that of   *)
(* a *e1 = e2.                                                             *)
LEMMA Frees ==
  ASSUME NEW E, Trees(E), NEW f, FrameOK(f, E), Waits(f)
  PROVE  /\ Freed(f) \in Nat /\ Freed(f) <= Held(f)
         /\ f.e.tag # "DEREF_ASSIGN_E" => Freed(f) = Held(f)
<1>1. Len(f.parts) \in Nat /\ Len(f.parts) < Len(Parts(f.e))
  BY FrameHolds DEF Waits
<1>2. CASE f.e.tag \in BinaryTags \union {"IF_ELSE_E", "SEQUENCE_E"}
  BY <1>1, <1>2 DEF Freed, Held, BinaryTags, BinaryInst
<1>3. CASE f.e.tag \in {"LET_E", "ASSIGN_E", "DEREF_E"}
  <2>1. Len(Parts(f.e)) = 1
    BY <1>3 DEF Parts, BinaryTags, BinaryInst
  <2>2. Len(f.parts) = 0  BY <1>1, <2>1
  <2> QED  BY <1>3, <2>2 DEF Freed, Held, BinaryTags, BinaryInst
<1>4. CASE f.e.tag = "DEREF_ASSIGN_E"
  BY <1>1, <1>4 DEF Freed, Held, BinaryTags, BinaryInst
<1>5. CASE f.e.tag \notin BinaryTags \union
        {"IF_ELSE_E", "SEQUENCE_E", "LET_E", "ASSIGN_E", "DEREF_E", "DEREF_ASSIGN_E"}
  <2>1. Len(Parts(f.e)) = 0
    BY <1>5 DEF Parts, BinaryTags, BinaryInst
  <2> QED  BY <1>1, <2>1
<1> QED  BY <1>2, <1>3, <1>4, <1>5

(* NULL passes through a call that was waiting: it frees what it holds.    *)
LEMMA Unwound ==
  ASSUME NEW E, Trees(E), IInv(E), Unwind
  PROVE  IInv(E)'
<1>1. Len(stack) > 0 /\ StackOK(E) /\ live \in Int /\ pc = "failing"
  BY DEF IInv, StackOK, Accounted, Unwind
<1>2. /\ IsSeq(Below) /\ Len(stack) \in Nat /\ Len(Below) = Len(stack) - 1
      /\ Below = <<>> <=> Len(stack) = 1
      /\ \A k \in 1 .. Len(Below) : Below[k] = stack[k]
      /\ FrameOK(Top, E) /\ Held(Top) \in Nat
      /\ \A k \in 1 .. Len(Below) : FrameOK(Below[k], E) /\ Waits(Below[k])
      /\ HeldBy(Below) \in Nat
      /\ HeldBy(stack) = HeldBy(Below) + Held(Top)
  BY <1>1, Popped
<1>3. /\ stack' = Below /\ live' = live - Freed(Top) /\ cause' = cause
      /\ pc' = IF Below = <<>> THEN "failed" ELSE "failing"
  BY DEF Unwind
<1>4. Waits(Top)  BY <1>1, <1>2 DEF StackOK, Top
<1>5. Freed(Top) \in Int  BY <1>2, <1>4, Frees
<1>6. Top.e.tag # "DEREF_ASSIGN_E" => Freed(Top) = Held(Top)
  BY <1>2, <1>4, Frees
<1>7. StackOK(E)'
  BY <1>2, <1>3 DEF StackOK
<1>8. Accounted'
  <2>1. ASSUME cause.tag \in {"RETURN_E", "STRING_LITERAL_E"},
               "DEREF_ASSIGN_E" \notin cause.around
        PROVE  /\ live' = HeldBy(Below)
               /\ \A k \in 1 .. Len(Below) : Below[k].e.tag # "DEREF_ASSIGN_E"
    <3>1. /\ live = HeldBy(stack)
          /\ \A k \in 1 .. Len(stack) : stack[k].e.tag # "DEREF_ASSIGN_E"
      BY <1>1, <2>1 DEF IInv, Accounted
    <3>2. Top.e.tag # "DEREF_ASSIGN_E"  BY <1>1, <1>2, <3>1 DEF Top
    <3> QED  BY <1>1, <1>2, <1>3, <1>6, <3>1, <3>2
  <2>2. live' \in Int  BY <1>1, <1>3, <1>5
  <2> QED  BY <1>1, <1>3, <2>1, <2>2 DEF Accounted
<1> QED  BY <1>7, <1>8 DEF IInv

-----------------------------------------------------------------------------
(* Every step keeps the account.                                           *)
LEMMA Stepped ==
  ASSUME NEW E, Trees(E), IInv(E), Compile
  PROVE  IInv(E)'
<1> USE DEF Ready
<1>0. pc = "compiling" =>
        /\ FrameOK(Top, E)
        /\ Len(Top.parts) \in Nat /\ Len(Parts(Top.e)) \in Nat
  BY Popped, FrameHolds DEF IInv, StackOK
<1>1. CASE Descend  BY <1>1, Descended
<1>2. CASE Let
  <2>1. Len(Top.parts) = 1 /\ Top.e.tag = "LET_E" /\ pc = "compiling"
    BY <1>2 DEF Let, Parts, BinaryTags, BinaryInst
  <2>2. 0 = 1 - Held(Top)  BY <2>1 DEF Held
  <2> QED  BY <1>2, <2>1, <2>2, Returned DEF Let
<1>3. CASE Assign
  <2>1. Len(Top.parts) = 1 /\ Top.e.tag = "ASSIGN_E" /\ pc = "compiling"
    BY <1>3 DEF Assign, Parts, BinaryTags, BinaryInst
  <2>2. 0 = 1 - Held(Top)  BY <2>1 DEF Held
  <2>3. PICK a : Return(Top.parts[1] \o Byte(a) \o <<Inst("STZ")>>, 0)
    BY <1>3 DEF Assign
  <2> QED  BY <2>1, <2>2, <2>3, Returned
<1>4. CASE Binary
  <2>1. Len(Top.parts) = 2 /\ Top.e.tag \in BinaryTags /\ pc = "compiling"
    BY <1>4 DEF Binary, Parts, BinaryTags, BinaryInst
  <2>2. 1 - 2 = 1 - Held(Top)  BY <2>1 DEF Held, BinaryTags, BinaryInst
  <2> QED  BY <1>4, <2>1, <2>2, Returned DEF Binary
<1>5. CASE Sequence
  <2>1. Top.e.tag = "SEQUENCE_E" /\ pc = "compiling"
    BY <1>5 DEF Sequence
  <2>2. 0 = 1 - Held(Top)  BY <2>1 DEF Held
  <2>3. PICK cells : Return(cells, 0)
    BY <1>5 DEF Sequence
  <2> QED  BY <2>1, <2>2, <2>3, Returned
<1>6. CASE DerefAssign
  <2>1. Len(Top.parts) = 2 /\ Top.e.tag = "DEREF_ASSIGN_E" /\ pc = "compiling"
    BY <1>6 DEF DerefAssign, Parts, BinaryTags, BinaryInst
  <2>2. -1 = 1 - Held(Top) /\ -1 \in Int  BY <2>1 DEF Held
  <2> QED  BY <1>6, <2>1, <2>2, Returned DEF DerefAssign
<1>7. CASE Deref
  <2>1. Len(Top.parts) = 1 /\ Top.e.tag = "DEREF_E" /\ pc = "compiling"
    BY <1>7 DEF Deref, Parts, BinaryTags, BinaryInst
  <2>2. 0 = 1 - Held(Top)  BY <2>1 DEF Held
  <2> QED  BY <1>7, <2>1, <2>2, Returned DEF Deref
<1>8. ASSUME NEW tag \in {"VARIABLE_E", "NUMBER_E", "CHAR_LITERAL_E", "FUNCTION_CALL_E",
                          "RETURN_E", "STRING_LITERAL_E"},
             Ready({tag})
      PROVE  pc = "compiling" /\ Top.e.tag = tag /\ Held(Top) = 0
  <2>1. pc = "compiling" /\ Top.e.tag = tag /\ Len(Top.parts) = 0
    BY <1>8 DEF Parts, BinaryTags, BinaryInst
  <2> QED  BY <2>1 DEF Held
<1>9. CASE Variable
  <2>1. pc = "compiling" /\ Held(Top) = 0  BY <1>8, <1>9 DEF Variable
  <2>2. 1 = 1 - Held(Top)  BY <2>1
  <2> QED  BY <1>9, <2>1, <2>2, Returned DEF Variable
<1>10. CASE UndefinedVariable
  <2>1. pc = "compiling" /\ Top.e.tag = "VARIABLE_E"
    BY <1>10 DEF UndefinedVariable
  <2> QED  BY <1>10, <2>1, Failed DEF UndefinedVariable
<1>11. CASE NumberLiteral
  <2>1. pc = "compiling" /\ Held(Top) = 0  BY <1>8, <1>11 DEF NumberLiteral
  <2>2. 1 = 1 - Held(Top)  BY <2>1
  <2> QED  BY <1>11, <2>1, <2>2, Returned DEF NumberLiteral
<1>12. CASE CharLiteral
  <2>1. pc = "compiling" /\ Held(Top) = 0  BY <1>8, <1>12 DEF CharLiteral
  <2>2. 1 = 1 - Held(Top)  BY <2>1
  <2> QED  BY <1>12, <2>1, <2>2, Returned DEF CharLiteral
<1>13. CASE FunctionCall
  <2>1. pc = "compiling" /\ Held(Top) = 0  BY <1>8, <1>13 DEF FunctionCall
  <2>2. 1 = 1 - Held(Top)  BY <2>1
  <2> QED  BY <1>13, <2>1, <2>2, Returned DEF FunctionCall
<1>14. CASE Todo
  <2>1. pc = "compiling" /\ Held(Top) = 0
    BY <1>8, <1>14 DEF Todo
  <2> QED  BY <1>14, <2>1, Failed DEF Todo
<1>15. CASE IfElse
  <2>1. Top.e.tag = "IF_ELSE_E" /\ pc = "compiling" /\ Len(Top.parts) \in {2, 3}
    BY <1>0, <1>15 DEF IfElse, Trees, FrameOK
  <2>2. NewElse - 2 = 1 - Held(Top) /\ NewElse - 2 \in Int
    <3>1. Held(Top) = Len(Top.parts)  BY <2>1 DEF Held
    <3>2. CASE Len(Top.parts) = 2  BY <3>1, <3>2 DEF NewElse
    <3>3. CASE Len(Top.parts) = 3  BY <3>1, <3>3 DEF NewElse
    <3> QED  BY <2>1, <3>2, <3>3
  <2> QED  BY <1>15, <2>1, <2>2, Returned DEF IfElse
<1>16. CASE IfElseTooLarge
  <2>1. Top.e.tag = "IF_ELSE_E" /\ pc = "compiling"
    BY <1>16 DEF IfElseTooLarge
  <2>2. NewElse \in Int  BY DEF NewElse
  <2> QED  BY <1>16, <2>1, <2>2, Failed DEF IfElseTooLarge
<1>17. CASE Unwind  BY <1>17, Unwound
<1> QED
  BY <1>1, <1>2, <1>3, <1>4, <1>5, <1>6, <1>7, <1>9, <1>10, <1>11, <1>12,
     <1>13, <1>14, <1>15, <1>16, <1>17 DEF Compile

LEMMA Untouched ==
  ASSUME NEW E, IInv(E), UNCHANGED cgVars
  PROVE  IInv(E)'
BY DEF IInv, StackOK, Accounted, cgVars, FrameOK, Waits

(* While nothing has failed, the partial programs alive are exactly those  *)
(* an active call of compile_expr holds, and after a success the only one  *)
(* left is the result: for every set of expression trees.                  *)
THEOREM CompileLosesNothing ==
  ASSUME NEW CONSTANT Expr, Trees(Expr)
  PROVE  Spec => []NothingLost
<1>1. Init => IInv(Expr)  BY Started
<1>2. IInv(Expr) /\ [Compile]_cgVars => IInv(Expr)'  BY Stepped, Untouched
<1>3. IInv(Expr) => NothingLost  BY DEF IInv, Accounted, NothingLost
<1> QED  BY <1>1, <1>2, <1>3, PTL DEF Spec

(* When a return or a string literal made the compilation fail, every      *)
(* partial program has been freed on the way out, unless the device of a   *)
(* *e1 = e2 was waiting: for every set of expression trees.                *)
THEOREM CompileFailsClean ==
  ASSUME NEW CONSTANT Expr, Trees(Expr)
  PROVE  Spec => []CleanFailure
<1>1. Init => IInv(Expr)  BY Started
<1>2. IInv(Expr) /\ [Compile]_cgVars => IInv(Expr)'  BY Stepped, Untouched
<1>3. IInv(Expr) => CleanFailure
  <2> SUFFICES ASSUME IInv(Expr), pc = "failed",
                      cause.tag \in {"RETURN_E", "STRING_LITERAL_E"},
                      "DEREF_ASSIGN_E" \notin cause.around
               PROVE  live = 0
    BY DEF CleanFailure
  <2>1. Len(stack) = 0 /\ live = HeldBy(stack)
    BY DEF IInv, StackOK, Accounted
  <2> QED  BY <2>1, HeldNone
<1> QED  BY <1>1, <1>2, <1>3, PTL DEF Spec

-----------------------------------------------------------------------------
(* Only a failure has a cause, and nothing compiles after it.              *)
Caused == cause.tag # "none" => pc \in {"failing", "failed"}

(* A failure is never forgotten while the calls that were waiting return:  *)
(* for every set of bodies, trees or not.                                  *)
THEOREM CompileStaysFailed == Spec => FailureIsFinal
<1>1. Init => Caused  BY DEF Init, Caused
<1>2. Caused /\ [Compile]_cgVars
      => Caused' /\ [cause.tag # "none" => pc' # "done" /\ cause' = cause]_cgVars
  <2> SUFFICES ASSUME Caused, [Compile]_cgVars
      PROVE  Caused' /\ [cause.tag # "none" => pc' # "done" /\ cause' = cause]_cgVars
    OBVIOUS
  <2>1. CASE UNCHANGED cgVars  BY <2>1 DEF Caused, cgVars
  <2>2. CASE Unwind  BY <2>2 DEF Unwind, Caused
  <2>3. CASE pc = "compiling" /\ Compile /\ ~Unwind
    <3>1. cause.tag = "none"  BY <2>3 DEF Caused
    <3>2. cause' = cause \/ pc' \in {"failing", "failed"}
      BY <2>3 DEF Compile, Descend, Let, Assign, Binary, Sequence, DerefAssign, Deref,
                  Variable, UndefinedVariable, NumberLiteral, CharLiteral, FunctionCall,
                  Todo, IfElse, IfElseTooLarge, Return, Fail
    <3> QED  BY <3>1, <3>2 DEF Caused
  <2>4. Compile => Unwind \/ pc = "compiling"
    BY DEF Compile, Descend, Let, Assign, Binary, Sequence, DerefAssign, Deref,
           Variable, UndefinedVariable, NumberLiteral, CharLiteral, FunctionCall,
           Todo, IfElse, IfElseTooLarge, Ready
  <2> QED  BY <2>1, <2>2, <2>3, <2>4
<1>3. Spec => []Caused /\ [][cause.tag # "none" => pc' # "done" /\ cause' = cause]_cgVars
  BY <1>1, <1>2, PTL DEF Spec
<1> QED  BY <1>3 DEF FailureIsFinal

-----------------------------------------------------------------------------
(* The cells.                                                              *)
CellType == [op : Opcodes, byte : {0}] \union [op : {"RAW"}, byte : 0 .. 255]
CodeType == Seq(CellType)

LEMMA CodeIsCode == ASSUME NEW cells \in CodeType PROVE IsCode(cells)
<1>1. \A k \in DOMAIN cells : cells[k] \in CellType
  BY LenProperties DEF CodeType
<1> QED  BY <1>1 DEF IsCode, CellType

LEMMA InstIsCode ==
  ASSUME NEW o \in Opcodes
  PROVE  <<Inst(o)>> \in CodeType
<1>1. Inst(o) \in CellType  BY DEF Inst, CellType
<1> QED  BY <1>1 DEF CodeType

LEMMA Joined ==
  ASSUME NEW c \in CodeType, NEW d \in CodeType
  PROVE  c \o d \in CodeType
BY ConcatProperties DEF CodeType

LEMMA NumberIsCode ==
  ASSUME NEW n \in Nat
  PROVE  Number(n) \in CodeType
<1>1. /\ Raw(n % 256) \in CellType
      /\ Raw((n % 4096) % 256) \in CellType
  <2>1. n % 256 \in 0 .. 255 /\ n % 4096 \in Nat  OBVIOUS
  <2>2. (n % 4096) % 256 \in 0 .. 255  BY <2>1
  <2> QED  BY <2>1, <2>2 DEF Raw, CellType
<1> QED  BY <1>1 DEF Number, CodeType

LEMMA ByteIsCode ==
  ASSUME NEW n \in Nat
  PROVE  Byte(n) \in CodeType
<1>1. <<Inst("LIT")>> \in CodeType  BY InstIsCode DEF Opcodes
<1> QED  BY <1>1, NumberIsCode, Joined DEF Byte

LEMMA LiteralIsCode ==
  ASSUME NEW n \in Nat
  PROVE  Literal(n) \in CodeType
<1>1. <<Inst("LIT")>> \in CodeType /\ <<Inst("LIT2")>> \in CodeType
  BY InstIsCode DEF Opcodes
<1>2. Number(n) \in CodeType  BY NumberIsCode
<1> QED  BY <1>1, <1>2, Joined DEF Literal

LEMMA LenIsNat == ASSUME NEW c \in CodeType PROVE Len(c) \in Nat
BY LenProperties DEF CodeType

LEMMA BranchesAreCode ==
  ASSUME NEW a \in CodeType, NEW b \in CodeType, NEW c \in CodeType
  PROVE  Branches(a, b, c) \in CodeType
<1>1. Len(b) \in Nat /\ Len(c) \in Nat  BY LenIsNat
<1>2. Byte(Len(c) + 3) \in CodeType /\ Byte(Len(b)) \in CodeType
  BY <1>1, ByteIsCode
<1>3. <<Inst("JCN")>> \in CodeType /\ <<Inst("JMP")>> \in CodeType
  BY InstIsCode DEF Opcodes
<1>4. a \o Byte(Len(c) + 3) \in CodeType  BY <1>2, Joined
<1>5. a \o Byte(Len(c) + 3) \o <<Inst("JCN")>> \in CodeType  BY <1>3, <1>4, Joined
<1>6. a \o Byte(Len(c) + 3) \o <<Inst("JCN")>> \o c \in CodeType  BY <1>5, Joined
<1>7. a \o Byte(Len(c) + 3) \o <<Inst("JCN")>> \o c \o Byte(Len(b)) \in CodeType
  BY <1>2, <1>6, Joined
<1>8. a \o Byte(Len(c) + 3) \o <<Inst("JCN")>> \o c \o Byte(Len(b))
        \o <<Inst("JMP")>> \in CodeType
  BY <1>3, <1>7, Joined
<1>9. a \o Byte(Len(c) + 3) \o <<Inst("JCN")>> \o c \o Byte(Len(b))
        \o <<Inst("JMP")>> \o b \in CodeType
  BY <1>8, Joined
<1> QED  BY <1>9 DEF Branches

(* The parts of a sequence, one behind the other.                          *)
IsUpTo(s, n, g) ==
  g = [k \in 0 .. n |-> IF k = 0 THEN <<>> ELSE g[k - 1] \o s[k]]

LEMMA UpToExists ==
  ASSUME NEW s, NEW n \in Nat
  PROVE  \E g : IsUpTo(s, n, g)
<1> DEFINE T == {m \in Nat : ~\E g : IsUpTo(s, m, g)}
<1> SUFFICES ASSUME T # {} PROVE FALSE
  OBVIOUS
<1>1. PICK m \in T : \A y \in T : m <= y  BY Least
<1>2. m # 0
  <2>1. IsUpTo(s, 0, [k \in 0 .. 0 |-> <<>>])  BY DEF IsUpTo
  <2> QED  BY <1>1, <2>1
<1>3. m - 1 \in Nat /\ m - 1 \notin T  BY <1>1, <1>2
<1>4. PICK g : IsUpTo(s, m - 1, g)  BY <1>3
<1> DEFINE h == [k \in 0 .. m |-> IF k = m THEN g[m - 1] \o s[m] ELSE g[k]]
<1>5. ASSUME NEW k \in 0 .. m
      PROVE  h[k] = IF k = 0 THEN <<>> ELSE h[k - 1] \o s[k]
  <2>1. CASE k = m  BY <1>2, <1>3, <2>1
  <2>2. CASE k # m
    <3>1. k \in 0 .. m - 1 /\ (k # 0 => k - 1 \in 0 .. m - 1)  BY <1>3, <2>2
    <3>2. g[k] = IF k = 0 THEN <<>> ELSE g[k - 1] \o s[k]
      BY <1>4, <3>1 DEF IsUpTo
    <3> QED  BY <2>2, <3>1, <3>2
  <2> QED  BY <2>1, <2>2
<1>6. IsUpTo(s, m, h)  BY <1>5 DEF IsUpTo
<1> QED  BY <1>1, <1>6

LEMMA UpToIsCode ==
  ASSUME NEW s \in Seq(CodeType), NEW g, IsUpTo(s, Len(s), g)
  PROVE  g[Len(s)] \in CodeType
<1> DEFINE T == {k \in 0 .. Len(s) : g[k] \notin CodeType}
<1>0. Len(s) \in Nat  BY LenProperties
<1>1. T = {}
  <2> SUFFICES ASSUME T # {} PROVE FALSE
    OBVIOUS
  <2>0. T \subseteq Nat  OBVIOUS
  <2>1. PICK k \in T : \A y \in T : k <= y  BY <2>0, Least
  <2>2. k \in 0 .. Len(s) /\ g[k] \notin CodeType  BY <2>1
  <2>3. g[k] = IF k = 0 THEN <<>> ELSE g[k - 1] \o s[k]
    BY <2>2 DEF IsUpTo
  <2>4. <<>> \in CodeType  BY EmptySeq DEF CodeType
  <2>5. k # 0  BY <2>2, <2>3, <2>4
  <2>6. k - 1 \in 0 .. Len(s) /\ k - 1 \notin T  BY <2>1, <2>2, <2>5
  <2>7. g[k - 1] \in CodeType /\ s[k] \in CodeType  BY <1>0, <2>2, <2>5, <2>6
  <2> QED  BY <2>2, <2>3, <2>5, <2>7, Joined
<1> QED  BY <1>0, <1>1

(* The addresses of variables.                                             *)
Types == {"u8", "u16"}

LEMMA AddrIsNat ==
  ASSUME NEW vars, IsSeq(vars), \A k \in 1 .. Len(vars) : vars[k].type \in Types,
         NEW n, Declared(vars, n)
  PROVE  Addr(vars, n) \in Nat
<1> DEFINE Is(k) == vars[k].name = n /\ \A j \in 1 .. k - 1 : vars[j].name # n
           T == {k \in DOMAIN vars : vars[k].name = n}
           first == CHOOSE k \in DOMAIN vars : Is(k)
           IsAddr(g) == g = [k \in 0 .. Len(vars) |->
                               IF k = 0 THEN 0 ELSE g[k - 1] + Size(vars[k].type)]
           sum == CHOOSE g : IsAddr(g)
<1>1. Len(vars) \in Nat /\ DOMAIN vars = 1 .. Len(vars)
  BY LenProperties DEF IsSeq
<1>2. first \in 1 .. Len(vars)
  <2>1. T \subseteq Nat /\ T # {}  BY <1>1 DEF Declared
  <2>2. PICK k \in T : \A y \in T : k <= y  BY <2>1, Least
  <2>3. \A j \in 1 .. k - 1 : j \notin T /\ j \in DOMAIN vars  BY <1>1, <2>2
  <2>4. k \in DOMAIN vars /\ Is(k)  BY <2>2, <2>3
  <2> QED  BY <1>1, <2>4
<1>3. Addr(vars, n) = sum[first - 1] % 256
  BY DEF Addr
<1>4. ASSUME NEW k \in 1 .. Len(vars) PROVE Size(vars[k].type) \in Nat
  BY DEF Types, Size
<1> DEFINE d == [k \in 1 .. Len(vars) |-> Size(vars[k].type)]
<1>5. PICK h : Adds(d, Len(vars), h)  BY <1>1, AddsExists
<1>6. \A k \in 0 .. Len(vars) : k # 0 => d[k] = Size(vars[k].type)  OBVIOUS
<1> HIDE DEF first, d
<1>7. IsAddr(h)  BY <1>5, <1>6 DEF Adds
<1>8. IsAddr(sum)  BY <1>7
<1> HIDE DEF sum
<1>9. \A k \in 0 .. Len(vars) : sum[k] \in Nat
  <2> DEFINE U == {k \in 0 .. Len(vars) : sum[k] \notin Nat}
  <2> SUFFICES ASSUME U # {} PROVE FALSE
    OBVIOUS
  <2>0. U \subseteq Nat  BY <1>1
  <2>1. PICK k \in U : \A y \in U : k <= y  BY <2>0, Least
  <2>2. k \in 0 .. Len(vars) /\ sum[k] \notin Nat  BY <2>1
  <2>3. sum[k] = IF k = 0 THEN 0 ELSE sum[k - 1] + Size(vars[k].type)
    BY <1>8, <2>2
  <2>4. k # 0  BY <2>2, <2>3
  <2>5. k \in 1 .. Len(vars) /\ k - 1 \in 0 .. Len(vars) /\ k - 1 \notin U
    BY <1>1, <2>1, <2>2, <2>4
  <2>6. sum[k - 1] \in Nat /\ Size(vars[k].type) \in Nat  BY <1>4, <2>5
  <2> QED  BY <2>2, <2>3, <2>4, <2>6
<1>10. first - 1 \in 0 .. Len(vars)  BY <1>1, <1>2
<1> QED  BY <1>3, <1>9, <1>10

(* What a literal and a declaration may say.                               *)
Literals(E) ==
  \A e \in E : /\ e.tag = "NUMBER_E" => e.value \in Nat
               /\ e.tag = "CHAR_LITERAL_E" => e.c \in Int
               /\ e.tag = "LET_E" => e.type \in Types

LayoutOK == IsSeq(layout) /\ \A k \in 1 .. Len(layout) : layout[k].type \in Types

Coded ==
  /\ pc \in {"compiling", "failing", "done", "failed"}
  /\ pc \in {"done", "failed"} => Len(stack) = 0
  /\ \A k \in 1 .. Len(stack) : stack[k].parts \in Seq(CodeType)
  /\ code \in CodeType
  /\ LayoutOK
  /\ pc \in {"failing", "failed"} => live >= HeldBy(stack)

TInv(E) == IInv(E) /\ Coded

LEMMA CodeReturned ==
  ASSUME NEW E, Trees(E), TInv(E), pc = "compiling", LayoutOK',
         NEW cells \in CodeType, NEW delta, Return(cells, delta)
  PROVE  Coded'
<1>1. Len(stack) > 0 /\ StackOK(E) /\ Coded
  BY DEF TInv, IInv, StackOK
<1>2. /\ IsSeq(Below) /\ Len(stack) \in Nat /\ Len(Below) = Len(stack) - 1
      /\ Below = <<>> <=> Len(stack) = 1
      /\ \A k \in 1 .. Len(Below) : Below[k] = stack[k]
      /\ \A k \in 1 .. Len(Below) : FrameOK(Below[k], E)
  BY <1>1, Popped
<1>3. CASE Below = <<>>
  <2>1. stack' = <<>> /\ pc' = "done" /\ code' = cells
    BY <1>3 DEF Return
  <2>2. Len(<<>>) = 0  OBVIOUS
  <2> QED  BY <2>1, <2>2 DEF Coded
<1>4. CASE Below # <<>>
  <2> DEFINE n == Len(Below)
             f == Below[n]
             g == [f EXCEPT !.parts = Append(@, cells)]
  <2>1. n \in Nat /\ n > 0 /\ FrameOK(f, E) /\ f = stack[n] /\ n \in 1 .. Len(stack)
    BY <1>2, <1>4
  <2>2. g.parts = Append(f.parts, cells)
    BY <2>1 DEF FrameOK
  <2>3. g.parts \in Seq(CodeType)
    <3>1. f.parts \in Seq(CodeType)  BY <1>1, <2>1 DEF Coded
    <3> QED  BY <2>2, <3>1
  <2>4. stack' = [Below EXCEPT ![n] = g] /\ pc' = "compiling" /\ code' = code
    BY <1>4 DEF Return
  <2> HIDE DEF g
  <2>5. /\ Len(stack') = n /\ stack'[n] = g
        /\ \A k \in 1 .. n - 1 : stack'[k] = Below[k]
    <3> DEFINE r == [Below EXCEPT ![Len(Below)] = g]
    <3>1. IsSeq(Below) /\ Len(Below) > 0  BY <1>2, <2>1
    <3>2. /\ Len(r) = Len(Below) /\ r[Len(Below)] = g
          /\ \A k \in 1 .. Len(Below) - 1 : r[k] = Below[k]
      BY <3>1, Replaced
    <3>3. stack' = r  BY <2>4
    <3> HIDE DEF r
    <3> QED  BY <3>2, <3>3
  <2>6. \A k \in 1 .. n : stack'[k].parts \in Seq(CodeType)
    <3>1. \A k \in 1 .. n : k = n \/ k \in 1 .. n - 1  BY <2>1
    <3>2. \A k \in 1 .. n - 1 : stack'[k] = stack[k] /\ k \in 1 .. Len(stack)
      BY <1>2, <2>1, <2>5
    <3> QED  BY <1>1, <2>3, <2>5, <3>1, <3>2 DEF Coded
  <2> QED  BY <1>1, <2>4, <2>5, <2>6 DEF Coded
<1> QED  BY <1>3, <1>4

LEMMA CodeFailed ==
  ASSUME NEW E, Trees(E), TInv(E), pc = "compiling", NEW delta \in Nat, Fail(delta)
  PROVE  Coded'
<1>1. Len(stack) > 0 /\ StackOK(E) /\ Coded /\ live \in Int /\ live = HeldBy(stack)
  BY DEF TInv, IInv, StackOK, Accounted
<1>2. /\ Len(stack) \in Nat /\ Len(Below) = Len(stack) - 1
      /\ Below = <<>> <=> Len(stack) = 1
      /\ \A k \in 1 .. Len(Below) : Below[k] = stack[k]
      /\ HeldBy(Below) \in Nat /\ Held(Top) \in Nat
      /\ HeldBy(stack) = HeldBy(Below) + Held(Top)
  BY <1>1, Popped
<1>3. /\ stack' = Below /\ live' = live + delta /\ code' = code /\ layout' = layout
      /\ pc' = IF Below = <<>> THEN "failed" ELSE "failing"
  BY DEF Fail
<1>4. live' >= HeldBy(Below)  BY <1>1, <1>2, <1>3
<1>5. \A k \in 1 .. Len(Below) : Below[k].parts \in Seq(CodeType)
  BY <1>1, <1>2 DEF Coded
<1>6. pc' \in {"done", "failed"} => Len(Below) = 0  BY <1>2, <1>3
<1> QED  BY <1>1, <1>3, <1>4, <1>5, <1>6 DEF Coded, LayoutOK

LEMMA CodeUnwound ==
  ASSUME NEW E, Trees(E), TInv(E), Unwind
  PROVE  Coded'
<1>1. /\ Len(stack) > 0 /\ StackOK(E) /\ Coded /\ pc = "failing"
      /\ live \in Int /\ live >= HeldBy(stack)
  BY DEF TInv, IInv, StackOK, Accounted, Unwind, Coded
<1>2. /\ Len(stack) \in Nat /\ Len(Below) = Len(stack) - 1
      /\ Below = <<>> <=> Len(stack) = 1
      /\ \A k \in 1 .. Len(Below) : Below[k] = stack[k]
      /\ FrameOK(Top, E) /\ HeldBy(Below) \in Nat /\ Held(Top) \in Nat
      /\ HeldBy(stack) = HeldBy(Below) + Held(Top)
  BY <1>1, Popped
<1>3. /\ stack' = Below /\ live' = live - Freed(Top) /\ code' = code /\ layout' = layout
      /\ pc' = IF Below = <<>> THEN "failed" ELSE "failing"
  BY DEF Unwind
<1>4. Waits(Top)  BY <1>1, <1>2 DEF StackOK, Top
<1>5. Freed(Top) \in Nat /\ Freed(Top) <= Held(Top)  BY <1>2, <1>4, Frees
<1>6. live' >= HeldBy(stack')  BY <1>1, <1>2, <1>3, <1>5
<1>7. pc' \in {"failing", "failed"} /\ (pc' = "failed" => Len(stack') = 0)
  BY <1>2, <1>3
<1>8. \A k \in 1 .. Len(stack') : stack'[k].parts \in Seq(CodeType)
  <2>1. \A k \in 1 .. Len(stack) : stack[k].parts \in Seq(CodeType)  BY <1>1 DEF Coded
  <2>2. \A k \in 1 .. Len(Below) : k \in 1 .. Len(stack)  BY <1>2
  <2> QED  BY <1>2, <1>3, <2>1, <2>2
<1>9. code' \in CodeType /\ LayoutOK'  BY <1>1, <1>3 DEF Coded, LayoutOK
<1> QED  BY <1>6, <1>7, <1>8, <1>9 DEF Coded

LEMMA CodeStarted ==
  ASSUME Init
  PROVE  Coded
<1>1. /\ stack = <<Frame(prog)>> /\ pc = "compiling" /\ layout = <<>> /\ code = <<>>
  BY DEF Init
<1>2. Len(stack) = 1 /\ stack[1].parts = <<>>  BY <1>1 DEF Frame
<1>3. LayoutOK  BY <1>1, EmptySeq DEF LayoutOK, IsSeq
<1>4. /\ \A k \in 1 .. Len(stack) : stack[k].parts \in Seq(CodeType)
      /\ code \in CodeType
  <2>1. \A k \in 1 .. Len(stack) : k = 1  BY <1>2
  <2>2. <<>> \in Seq(CodeType) /\ <<>> \in CodeType  BY EmptySeq DEF CodeType
  <2> QED  BY <1>1, <1>2, <2>1, <2>2
<1> QED  BY <1>1, <1>3, <1>4 DEF Coded

LEMMA CodeDescended ==
  ASSUME NEW E, Trees(E), TInv(E), Descend
  PROVE  Coded'
<1>1. /\ pc = "compiling" /\ pc' = "compiling" /\ code' = code /\ layout' = layout
      /\ IsSeq(stack) /\ Coded
  BY DEF Descend, TInv, IInv, StackOK
<1>2. PICK e : stack' = Append(stack, Frame(e))  BY DEF Descend
<1>3. /\ Len(stack) \in Nat /\ Len(stack') = Len(stack) + 1
      /\ \A k \in 1 .. Len(stack) : stack'[k] = stack[k]
      /\ stack'[Len(stack) + 1] = Frame(e)
  BY <1>1, <1>2, Appended
<1>4. \A k \in 1 .. Len(stack') : k \in 1 .. Len(stack) \/ k = Len(stack) + 1
  BY <1>3
<1>5. Frame(e).parts \in Seq(CodeType)  BY EmptySeq DEF Frame
<1>6. \A k \in 1 .. Len(stack') : stack'[k].parts \in Seq(CodeType)
  BY <1>1, <1>3, <1>4, <1>5 DEF Coded
<1> QED  BY <1>1, <1>6 DEF Coded, LayoutOK

LEMMA CodeStepped ==
  ASSUME NEW E, Trees(E), Literals(E), TInv(E), Compile
  PROVE  Coded'
<1> USE DEF Ready
<1>0. /\ LayoutOK /\ IInv(E)
      /\ pc = "compiling" =>
           /\ FrameOK(Top, E) /\ Top.e \in E
           /\ Top.parts \in Seq(CodeType)
           /\ Len(Top.parts) \in Nat
           /\ Top.e.tag = "IF_ELSE_E" => Len(Parts(Top.e)) \in {2, 3}
  <2>1. LayoutOK /\ IInv(E) /\ StackOK(E)  BY DEF TInv, Coded, IInv
  <2>2. ASSUME pc = "compiling"
        PROVE  FrameOK(Top, E) /\ Top.parts \in Seq(CodeType) /\ Len(Top.parts) \in Nat
    <3>1. Len(stack) > 0  BY <2>1, <2>2 DEF StackOK
    <3>2. FrameOK(Top, E) /\ Len(stack) \in Nat  BY <2>1, <3>1, Popped
    <3>3. Top.parts \in Seq(CodeType)  BY <3>1, <3>2 DEF TInv, Coded, Top
    <3> QED  BY <3>2, <3>3, LenProperties
  <2> QED  BY <2>1, <2>2 DEF FrameOK, Trees
<1>lit. pc = "compiling" =>
         /\ Top.e.tag = "NUMBER_E" => Top.e.value \in Nat
         /\ Top.e.tag = "CHAR_LITERAL_E" => Top.e.c \in Int
         /\ Top.e.tag = "LET_E" => Top.e.type \in Types
  <2> SUFFICES ASSUME pc = "compiling"
      PROVE  /\ Top.e.tag = "NUMBER_E" => Top.e.value \in Nat
             /\ Top.e.tag = "CHAR_LITERAL_E" => Top.e.c \in Int
             /\ Top.e.tag = "LET_E" => Top.e.type \in Types
    OBVIOUS
  <2>1. Top.e \in E  BY <1>0
  <2> QED  BY <2>1 DEF Literals
<1>1. ASSUME NEW k \in 1 .. Len(Top.parts), pc = "compiling"
      PROVE  Top.parts[k] \in CodeType
  BY <1>0, <1>1
<1>2. ASSUME NEW o \in {"STZ", "LDZ", "DEO"}
      PROVE  <<Inst(o)>> \in CodeType
  BY <1>2, InstIsCode DEF Opcodes
<1>3. layout' = layout => LayoutOK'  BY <1>0 DEF LayoutOK
<1>4. CASE Descend  BY <1>4, CodeDescended
<1>5. CASE Let
  <2> DEFINE d == [name |-> Top.e.var, type |-> Top.e.type]
             a == Addr(layout', Top.e.var)
  <2>1. /\ Len(Top.parts) = 1 /\ Top.e.tag = "LET_E" /\ pc = "compiling"
        /\ layout' = Append(layout, d)
        /\ Return(Top.parts[1] \o Byte(a) \o <<Inst("STZ")>>, 0)
    BY <1>5 DEF Let, Parts, BinaryTags, BinaryInst
  <2>2. d.type \in Types /\ d.name = Top.e.var  BY <1>lit, <2>1
  <2> HIDE DEF d
  <2>3. /\ Len(layout) \in Nat /\ IsSeq(layout') /\ Len(layout') = Len(layout) + 1
        /\ \A k \in 1 .. Len(layout) : layout'[k] = layout[k]
        /\ layout'[Len(layout) + 1] = d
    BY <1>0, <2>1, Appended DEF LayoutOK
  <2>4. \A k \in 1 .. Len(layout') : layout'[k].type \in Types
    <3>1. \A k \in 1 .. Len(layout') : k \in 1 .. Len(layout) \/ k = Len(layout) + 1
      BY <2>3
    <3> QED  BY <1>0, <2>2, <2>3, <3>1 DEF LayoutOK
  <2>5. Declared(layout', Top.e.var)
    <3>1. DOMAIN layout' = 1 .. Len(layout')  BY <2>3, LenProperties DEF IsSeq
    <3>2. Len(layout) + 1 \in DOMAIN layout'  BY <2>3, <3>1
    <3> QED  BY <2>2, <2>3, <3>2 DEF Declared
  <2>6. a \in Nat  BY <2>3, <2>4, <2>5, AddrIsNat
  <2> HIDE DEF a
  <2>7. Top.parts[1] \o Byte(a) \o <<Inst("STZ")>> \in CodeType
    BY <1>1, <1>2, <2>1, <2>6, ByteIsCode, Joined
  <2>8. LayoutOK'  BY <2>3, <2>4 DEF LayoutOK
  <2> QED  BY <2>1, <2>7, <2>8, CodeReturned
<1>6. CASE Assign
  <2>1. Len(Top.parts) = 1 /\ Top.e.tag = "ASSIGN_E" /\ pc = "compiling" /\ LayoutOK'
    BY <1>3, <1>6 DEF Assign, Parts, BinaryTags, BinaryInst
  <2>2. PICK a \in IF Declared(layout, Top.e.var)
                   THEN {Addr(layout, Top.e.var)} ELSE StrayAddr :
          Return(Top.parts[1] \o Byte(a) \o <<Inst("STZ")>>, 0)
    BY <1>6 DEF Assign
  <2>3. a \in Nat
    <3>1. CASE Declared(layout, Top.e.var)
      BY <1>0, <2>2, <3>1, AddrIsNat DEF LayoutOK
    <3>2. CASE ~Declared(layout, Top.e.var)
      <4>1. a \in StrayAddr  BY <3>2
      <4>2. StrayAddr \subseteq 0 .. 255  BY StrayAssumption DEF StrayAssumption
      <4> QED  BY <4>1, <4>2
    <3> QED  BY <3>1, <3>2
  <2>4. Top.parts[1] \o Byte(a) \o <<Inst("STZ")>> \in CodeType
    BY <1>1, <1>2, <2>1, <2>3, ByteIsCode, Joined
  <2> QED  BY <2>1, <2>2, <2>4, CodeReturned
<1>7. CASE Binary
  <2>1. /\ Len(Top.parts) = 2 /\ Top.e.tag \in BinaryTags /\ pc = "compiling" /\ LayoutOK'
        /\ Return(Top.parts[1] \o Top.parts[2] \o <<Inst(BinaryInst[Top.e.tag])>>, 1 - 2)
    BY <1>3, <1>7 DEF Binary, Parts, BinaryTags, BinaryInst
  <2>2. BinaryInst[Top.e.tag] \in Opcodes  BY <2>1 DEF Opcodes
  <2>3. Top.parts[1] \o Top.parts[2] \o <<Inst(BinaryInst[Top.e.tag])>> \in CodeType
    BY <1>1, <2>1, <2>2, InstIsCode, Joined
  <2> QED  BY <2>1, <2>3, CodeReturned
<1>8. CASE Sequence
  <2> DEFINE IsIt(g) == g = [k \in 0 .. Len(Top.parts) |->
                               IF k = 0 THEN <<>> ELSE g[k - 1] \o Top.parts[k]]
             upTo == CHOOSE g : IsIt(g)
  <2>1. pc = "compiling" /\ LayoutOK'  BY <1>3, <1>8 DEF Sequence
  <2>2. Return(upTo[Len(Top.parts)], 0)  BY <1>8 DEF Sequence
  <2>3. PICK h : IsUpTo(Top.parts, Len(Top.parts), h)  BY <1>0, <2>1, UpToExists
  <2>4. IsIt(h)  BY <2>3 DEF IsUpTo
  <2>5. IsIt(upTo)  BY <2>4
  <2> HIDE DEF upTo
  <2>6. IsUpTo(Top.parts, Len(Top.parts), upTo)  BY <2>5 DEF IsUpTo
  <2>7. upTo[Len(Top.parts)] \in CodeType  BY <1>0, <2>1, <2>6, UpToIsCode
  <2> QED  BY <2>1, <2>2, <2>7, CodeReturned
<1>9. CASE DerefAssign
  <2>1. /\ Len(Top.parts) = 2 /\ pc = "compiling" /\ LayoutOK'
        /\ Return(Top.parts[2] \o Top.parts[1] \o <<Inst("DEO")>>, -1)
    BY <1>3, <1>9 DEF DerefAssign, Parts, BinaryTags, BinaryInst
  <2>2. Top.parts[2] \o Top.parts[1] \o <<Inst("DEO")>> \in CodeType
    BY <1>1, <1>2, <2>1, Joined
  <2> QED  BY <2>1, <2>2, CodeReturned
<1>10. CASE Deref
  <2>1. /\ Len(Top.parts) = 1 /\ pc = "compiling" /\ LayoutOK'
        /\ Return(Top.parts[1] \o <<Inst("LDZ")>>, 0)
    BY <1>3, <1>10 DEF Deref, Parts, BinaryTags, BinaryInst
  <2>2. Top.parts[1] \o <<Inst("LDZ")>> \in CodeType
    BY <1>1, <1>2, <2>1, Joined
  <2> QED  BY <2>1, <2>2, CodeReturned
<1>11. CASE Variable
  <2>1. /\ pc = "compiling" /\ LayoutOK' /\ Declared(layout, Top.e.name)
        /\ Return(Byte(Addr(layout, Top.e.name)) \o <<Inst("LDZ")>>, 1)
    BY <1>3, <1>11 DEF Variable
  <2>2. Addr(layout, Top.e.name) \in Nat
    BY <1>0, <2>1, AddrIsNat DEF LayoutOK
  <2>3. Byte(Addr(layout, Top.e.name)) \o <<Inst("LDZ")>> \in CodeType
    BY <1>2, <2>2, ByteIsCode, Joined
  <2> QED  BY <2>1, <2>3, CodeReturned
<1>12. CASE UndefinedVariable
  BY <1>12, CodeFailed DEF UndefinedVariable
<1>13. CASE NumberLiteral
  <2>1. /\ pc = "compiling" /\ LayoutOK' /\ Top.e.value \in Nat
        /\ Return(Literal(Top.e.value), 1)
    BY <1>3, <1>13, <1>lit DEF NumberLiteral
  <2> QED  BY <2>1, LiteralIsCode, CodeReturned
<1>14. CASE CharLiteral
  <2>1. /\ pc = "compiling" /\ LayoutOK' /\ Top.e.c \in Int
        /\ Return(Byte(Widened(Top.e.c)), 1)
    BY <1>3, <1>14, <1>lit DEF CharLiteral
  <2>2. Widened(Top.e.c) \in Nat  BY <1>3, <1>lit, <2>1 DEF Widened
  <2> QED  BY <2>1, <2>2, ByteIsCode, CodeReturned
<1>15. CASE FunctionCall
  <2>1. <<>> \in CodeType  BY EmptySeq DEF CodeType
  <2> QED  BY <1>3, <1>15, <2>1, CodeReturned DEF FunctionCall
<1>16. CASE Todo  BY <1>16, CodeFailed DEF Todo
<1>17. CASE IfElse
  <2>1. /\ pc = "compiling" /\ LayoutOK' /\ Len(Top.parts) \in {2, 3}
        /\ Return(Branches(Top.parts[1], IfBody, ElseBody), NewElse - 2)
    BY <1>0, <1>3, <1>17 DEF IfElse
  <2>2. Top.parts[1] \in CodeType /\ IfBody \in CodeType
    BY <1>1, <2>1 DEF IfBody
  <2>3. ElseBody \in CodeType
    <3>1. <<>> \in CodeType  BY EmptySeq DEF CodeType
    <3>2. Len(Top.parts) = 3 => Top.parts[3] \in CodeType  BY <1>1, <2>1
    <3> QED  BY <3>1, <3>2 DEF ElseBody
  <2>4. Branches(Top.parts[1], IfBody, ElseBody) \in CodeType
    BY <2>2, <2>3, BranchesAreCode
  <2> QED  BY <2>1, <2>4, CodeReturned
<1>18. CASE IfElseTooLarge
  <2>1. NewElse \in Nat  BY DEF NewElse
  <2> QED  BY <1>18, <2>1, CodeFailed DEF IfElseTooLarge
<1>19. CASE Unwind  BY <1>19, CodeUnwound
<1> QED
  BY <1>4, <1>5, <1>6, <1>7, <1>8, <1>9, <1>10, <1>11, <1>12, <1>13, <1>14,
     <1>15, <1>16, <1>17, <1>18, <1>19 DEF Compile

LEMMA TInvSteps ==
  ASSUME NEW E, Trees(E), Literals(E), TInv(E), [Compile]_cgVars
  PROVE  TInv(E)'
<1>1. CASE Compile  BY <1>1, Stepped, CodeStepped DEF TInv
<1>2. CASE UNCHANGED cgVars
  <2>1. IInv(E)'  BY <1>2, Untouched DEF TInv
  <2>2. Coded'  BY <1>2 DEF TInv, Coded, LayoutOK, cgVars
  <2> QED  BY <2>1, <2>2 DEF TInv
<1> QED  BY <1>1, <1>2

LEMMA TInvTypes ==
  ASSUME NEW E, Trees(E), TInv(E)
  PROVE  TypeOK
<1>1. IsSeq(stack) /\ StackOK(E) /\ Coded /\ Accounted
  BY DEF TInv, IInv, StackOK
<1>2. Len(stack) \in Nat /\ DOMAIN stack = 1 .. Len(stack) /\ (stack = <<>> <=> Len(stack) = 0)
  BY <1>1, LenProperties, EmptySeq DEF IsSeq
<1>3. DOMAIN layout = 1 .. Len(layout)
  BY <1>1, LenProperties DEF Coded, LayoutOK, IsSeq
<1>4. ASSUME NEW k \in DOMAIN stack
      PROVE  /\ Len(stack[k].parts) <= Len(Parts(stack[k].e))
             /\ \A j \in DOMAIN stack[k].parts : IsCode(stack[k].parts[j])
  <2>1. stack[k].parts \in Seq(CodeType)  BY <1>1, <1>2 DEF Coded
  <2>2. \A j \in DOMAIN stack[k].parts : stack[k].parts[j] \in CodeType
    BY <2>1, LenProperties
  <2> QED  BY <1>1, <1>2, <2>2, CodeIsCode DEF StackOK, FrameOK
<1>5. IsCode(code)  BY <1>1, CodeIsCode DEF Coded
<1>6. live \in Nat
  <2>1. HeldBy(stack) \in Nat
    <3>1. \A k \in 1 .. Len(stack) : Held(stack[k]) \in Nat
      BY <1>1, FrameHolds DEF StackOK
    <3> QED  BY <1>2, <3>1, HeldNat
  <2> QED  BY <1>1, <2>1 DEF Coded, Accounted
<1>7. \A k \in DOMAIN layout : layout[k].type \in {"u8", "u16"}
  BY <1>1, <1>3 DEF Coded, LayoutOK, Types
<1>8. /\ pc \in {"compiling", "failing", "done", "failed"}
      /\ pc \in {"compiling", "failing"} <=> stack # <<>>
  <2>1. pc \in {"compiling", "failing", "done", "failed"}  BY <1>1 DEF Coded
  <2>2. CASE pc \in {"compiling", "failing"}
    <3>0. Len(stack) > 0  BY <1>1, <2>2 DEF StackOK
    <3>1. Len(stack) # 0  BY <1>2, <3>0
    <3> QED  BY <1>2, <2>1, <2>2, <3>1
  <2>3. CASE pc \in {"done", "failed"}
    <3>1. Len(stack) = 0  BY <1>1, <2>3 DEF Coded
    <3> QED  BY <1>2, <2>1, <2>3, <3>1
  <2> QED  BY <2>1, <2>2, <2>3
<1> QED  BY <1>4, <1>5, <1>6, <1>7, <1>8 DEF TypeOK

(* Whatever is compiled, every cell handed on is an instruction the        *)
(* machine has or one byte, no call has compiled more parts than its       *)
(* expression has, and the count of allocated programs never drops below   *)
(* zero: for every set of expression trees.                                *)
THEOREM CompileTypeCorrect ==
  ASSUME NEW CONSTANT Expr, Trees(Expr), Literals(Expr)
  PROVE  Spec => []TypeOK
<1>1. Init => TInv(Expr)  BY Started, CodeStarted DEF TInv
<1>2. TInv(Expr) /\ [Compile]_cgVars => TInv(Expr)'  BY TInvSteps
<1>3. TInv(Expr) => TypeOK  BY TInvTypes
<1> QED  BY <1>1, <1>2, <1>3, PTL DEF Spec
=============================================================================
