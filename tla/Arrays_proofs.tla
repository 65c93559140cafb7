---------------------------- MODULE Arrays_proofs ----------------------------
(***************************************************************************)
(* Proofs about the arrays of the compiler: first how they grow, for every *)
(* width of the counters, every set of kinds of array, every set of        *)
(* concatenated lengths and every bound of the model; then about the two   *)
(* parallel ones of the variable layout, for every set of names, every     *)
(* number of declarations and every size of the zero page.  Void variables *)
(* are allowed: nothing is promised of the declarations behind the first.  *)
(***************************************************************************)
EXTENDS GrowArray, VarLayout, CommonLemmas

(***************************************************************************)
(* The bound on the store is not inductive: the next append compares cap   *)
(* with len, so the block must be known to hold everything in use, and to  *)
(* be small enough that one more doubling does not wrap.  The one state in *)
(* which it does not hold everything in use is the one right after a wide  *)
(* literal went into a program of one opcode with a block of one cell.     *)
(***************************************************************************)
JustWide == array.wide /\ len = 3 /\ cap = 2

CoversLen == len <= Limit => len <= cap \/ JustWide

GrowInv ==
  GrowTypeOK /\ CoversLen /\ InBounds /\ BlockIsProportional /\ OverrunByOne

(* A counter below its modulus is not changed by the wrap.                 *)
LEMMA ModSmall == ASSUME NEW x \in Nat, x < Mod PROVE x % Mod = x
  BY ModAssumption

(* Up to Limit, one more doubling of a block as long as the array fits the *)
(* counter.                                                                *)
LEMMA LimitFacts ==
    /\ Limit \in Nat
    /\ Limit < Mod
    /\ ~array.eager => 2 * Limit <= Mod
    /\ array.eager => 2 * Limit < Mod
  BY ModAssumption DEF Limit

(* The capacity after one resize is a value of the counter's type.         *)
LEMMA NextCapType ==
  ASSUME GrowTypeOK, NEW n \in Nat
  PROVE  NextCap(n) \in 0 .. Mod - 1
  BY ModAssumption DEF GrowTypeOK, NextCap

(* One resize is enough for one more element, and keeps the block in       *)
(* proportion, even right after a wide literal.                            *)
LEMMA OneResizeIsEnough ==
  ASSUME GrowInv, NEW n \in Nat, n = len + 1, n <= Limit
  PROVE  n <= NextCap(n) /\ NextCap(n) <= 2 * n
<1> DEFINE c == NextCap(n)
<1>1. /\ len \in Nat /\ cap \in Nat
      /\ len <= cap \/ (len = 3 /\ cap = 2)
      /\ cap <= 2 * len
  BY LimitFacts DEF GrowInv, GrowTypeOK, CoversLen, JustWide, BlockIsProportional
<1>2. CASE ~MustGrow(n)
  <2>1. n <= cap
    BY <1>1, <1>2 DEF MustGrow
  <2> QED  BY <1>1, <1>2, <2>1 DEF NextCap
<1>3. CASE MustGrow(n) /\ cap = 0
  <2>1. c = 1  BY <1>3 DEF NextCap
  <2> QED  BY <1>1, <1>3, <2>1
<1>4. CASE MustGrow(n) /\ cap # 0
  <2>1. cap <= n
    BY <1>1, <1>4 DEF MustGrow
  <2>2. 2 * cap < Mod
    <3>1. CASE array.eager  BY <1>1, <2>1, <3>1, LimitFacts, ModAssumption
    <3>2. CASE ~array.eager
      <4>1. cap < n  BY <1>4, <3>2 DEF MustGrow
      <4> QED  BY <1>1, <4>1, <3>2, LimitFacts, ModAssumption
    <3> QED  BY <3>1, <3>2
  <2>3. c = 2 * cap  BY <1>1, <1>4, <2>2, ModSmall DEF NextCap
  <2> QED  BY <1>1, <1>4, <2>1, <2>3
<1> QED  BY <1>2, <1>3, <1>4

(* After a wide literal the block has room for all of the literal but its  *)
(* last cell, or for the whole of it.                                      *)
LEMMA OneResizeForTwo ==
  ASSUME GrowInv, len = 1, 3 <= Limit
  PROVE  NextCap(3) \in {2, 4}
<1>1. cap \in Nat /\ 1 <= cap /\ cap <= 2
  BY LimitFacts DEF GrowInv, GrowTypeOK, CoversLen, JustWide, BlockIsProportional
<1>2. MustGrow(3)  BY <1>1 DEF MustGrow
<1>3. 4 < Mod  BY LimitFacts, ModAssumption
<1>4. 2 * cap \in {2, 4} /\ (2 * cap) % Mod = 2 * cap
  BY <1>1, <1>3, ModSmall, ModAssumption
<1> QED  BY <1>1, <1>2, <1>4 DEF NextCap

-----------------------------------------------------------------------------
LEMMA GrowStarts == GrowInit => GrowInv
  BY ModAssumption, LimitFacts
     DEF GrowInit, GrowInv, GrowTypeOK, CoversLen, InBounds, BlockIsProportional,
         OverrunByOne

LEMMA AppendOneKept == GrowInv /\ AppendOne => GrowInv'
<1> SUFFICES ASSUME GrowInv, AppendOne PROVE GrowInv'
  OBVIOUS
<1>1. len \in Nat /\ cap \in Nat /\ len < Mod
  BY ModAssumption DEF GrowInv, GrowTypeOK
<1>2. len' = len + 1 /\ len' \in 0 .. Mod - 1 /\ touched' = len'
  <2>1. len + 1 \in Nat /\ len + 1 < Mod
    BY <1>1, MaxLenAssumption, ModAssumption DEF AppendOne
  <2> QED  BY <2>1, ModSmall, ModAssumption DEF AppendOne
<1>3. cap' = NextCap(len')
  BY DEF AppendOne
<1>4. GrowTypeOK'
  <2>1. NextCap(len') \in 0 .. Mod - 1
    BY <1>2, NextCapType DEF GrowInv
  <2>2. len' \in Nat  BY <1>1, <1>2
  <2> QED  BY <1>2, <1>3, <2>1, <2>2 DEF GrowInv, GrowTypeOK, AppendOne
<1>5. len' <= Limit => len' <= cap' /\ cap' <= 2 * len'
  BY <1>2, <1>3, OneResizeIsEnough
<1>6. len' \in Nat /\ cap' \in Nat /\ Limit' = Limit
  BY <1>4, ModAssumption DEF GrowTypeOK, Limit, AppendOne
<1>7. CoversLen' /\ InBounds' /\ BlockIsProportional' /\ OverrunByOne'
  BY <1>2, <1>5, <1>6
     DEF CoversLen, InBounds, BlockIsProportional, OverrunByOne
<1> QED  BY <1>4, <1>7 DEF GrowInv

LEMMA AppendWideKept == GrowInv /\ AppendWide => GrowInv'
<1> SUFFICES ASSUME GrowInv, AppendWide PROVE GrowInv'
  OBVIOUS
<1>1. len = 1 /\ len + 2 = 3 /\ 3 < Mod /\ array' = array /\ array.wide
  BY MaxLenAssumption, ModAssumption DEF AppendWide
<1>2. len' = 3 /\ touched' = 3 /\ cap' = NextCap(3)
  <2>1. 3 % Mod = 3  BY <1>1, ModSmall
  <2> QED  BY <1>1, <2>1 DEF AppendWide
<1>3. Limit' = Limit  BY <1>1 DEF Limit
<1>4. GrowTypeOK'
  <2>1. NextCap(3) \in 0 .. Mod - 1  BY NextCapType DEF GrowInv
  <2> QED  BY <1>1, <1>2, <2>1, ModAssumption DEF GrowInv, GrowTypeOK
<1>5. 3 <= Limit => cap' \in {2, 4}
  BY <1>1, <1>2, OneResizeForTwo
<1> QED
  BY <1>1, <1>2, <1>3, <1>4, <1>5
     DEF GrowInv, CoversLen, JustWide, InBounds, BlockIsProportional,
         OverrunByOne

LEMMA JoinKept ==
  ASSUME GrowInv, NEW m \in JoinSizes, Join(m)
  PROVE  GrowInv'
<1>1. len \in Nat /\ m \in Nat
  BY JoinAssumption DEF GrowInv, GrowTypeOK
<1>2. len' = len + m
  <2>1. len + m \in Nat /\ len + m < Mod
    BY <1>1, MaxLenAssumption, ModAssumption DEF Join
  <2> QED  BY <2>1, ModSmall DEF Join
<1>3. cap' = len' /\ touched' = len' /\ len' \in 0 .. Mod - 1
  BY <1>1, <1>2, MaxLenAssumption, ModAssumption DEF Join
<1>4. GrowTypeOK'
  BY <1>3, ModAssumption DEF GrowInv, GrowTypeOK, Join
<1>5. len' \in Nat /\ cap' \in Nat /\ touched' \in Nat
  BY <1>1, <1>2, <1>3
<1>6. /\ len' <= cap' /\ touched' <= cap' /\ touched' <= cap' + 1
      /\ cap' <= 2 * len'
  <2>1. \A k \in Nat : k <= k /\ k <= k + 1 /\ k <= 2 * k  OBVIOUS
  <2> QED  BY <2>1, <1>3, <1>5
<1>7. CoversLen' /\ InBounds' /\ BlockIsProportional' /\ OverrunByOne'
  BY <1>6 DEF CoversLen, InBounds, BlockIsProportional, OverrunByOne
<1> QED  BY <1>4, <1>7 DEF GrowInv

LEMMA GrowKept == GrowInv /\ [GrowNext]_growVars => GrowInv'
<1> SUFFICES ASSUME GrowInv, [GrowNext]_growVars PROVE GrowInv'
  OBVIOUS
<1>1. CASE AppendOne   BY <1>1, AppendOneKept
<1>2. CASE AppendWide  BY <1>2, AppendWideKept
<1>3. CASE \E m \in JoinSizes : Join(m)
  <2> PICK m \in JoinSizes : Join(m)  BY <1>3
  <2> QED  BY JoinKept
<1>4. CASE UNCHANGED growVars
  BY <1>4 DEF growVars, GrowInv, GrowTypeOK, CoversLen, JustWide, InBounds,
              BlockIsProportional, OverrunByOne, Limit
<1> QED  BY <1>1, <1>2, <1>3, <1>4 DEF GrowNext

LEMMA GrowAlways == GrowSpec => []GrowInv
  BY GrowStarts, GrowKept, PTL DEF GrowSpec

-----------------------------------------------------------------------------
(* The counters stay values of their C type, whatever is compiled.         *)
THEOREM GrowTypeCorrect == GrowSpec => []GrowTypeOK
<1>1. GrowInit => GrowTypeOK
  BY ModAssumption DEF GrowInit, GrowTypeOK
<1>2. GrowTypeOK /\ [GrowNext]_growVars => GrowTypeOK'
  <2> SUFFICES ASSUME GrowTypeOK, [GrowNext]_growVars PROVE GrowTypeOK'
    OBVIOUS
  <2>0. len \in Nat /\ cap \in Nat  BY DEF GrowTypeOK
  <2>1. CASE AppendOne \/ AppendWide
    <3>1. len' \in 0 .. Mod - 1
      BY <2>0, <2>1, ModAssumption DEF AppendOne, AppendWide
    <3>2. NextCap(len') \in 0 .. Mod - 1  BY <3>1, NextCapType
    <3> QED  BY <2>0, <2>1, <3>1, <3>2 DEF GrowTypeOK, AppendOne, AppendWide
  <2>2. ASSUME NEW m \in JoinSizes, Join(m) PROVE GrowTypeOK'
    BY <2>0, <2>2, JoinAssumption, ModAssumption DEF Join, GrowTypeOK
  <2>3. CASE UNCHANGED growVars  BY <2>3 DEF growVars, GrowTypeOK
  <2> QED  BY <2>1, <2>2, <2>3 DEF GrowNext
<1> QED  BY <1>1, <1>2, PTL DEF GrowSpec

(* No append and no concatenation stores outside the block of a token      *)
(* list, a function list, a variable list or a partial program without     *)
(* wide literals, up to half the range of its counters.                    *)
THEOREM GrowInBounds == GrowSpec => []InBounds
<1>1. GrowInv => InBounds  BY DEF GrowInv
<1> QED  BY <1>1, GrowAlways, PTL

(* Doubling never reserves more than twice what is used.                   *)
THEOREM GrowProportional == GrowSpec => []BlockIsProportional
<1>1. GrowInv => BlockIsProportional  BY DEF GrowInv
<1> QED  BY <1>1, GrowAlways, PTL

(* The one overrun the code has, a wide literal's last cell, is one cell.  *)
THEOREM GrowOverrunByOne == GrowSpec => []OverrunByOne
<1>1. GrowInv => OverrunByOne  BY DEF GrowInv
<1> QED  BY <1>1, GrowAlways, PTL

(* An append after the overrun grows the block enough for everything in    *)
(* use: the missing room is never carried along.                           *)
THEOREM GrowRepaired == GrowSpec => RepairedByNextStore
<1>1. GrowInv /\ AppendOne /\ len' <= Limit => touched' <= cap'
  <2> SUFFICES ASSUME GrowInv, AppendOne, len' <= Limit
               PROVE  touched' <= cap'
    OBVIOUS
  <2>1. len + 1 \in Nat /\ len + 1 < Mod
    BY MaxLenAssumption, ModAssumption DEF GrowInv, GrowTypeOK, AppendOne
  <2>2. len' = len + 1  BY <2>1, ModSmall DEF AppendOne
  <2>3. len' <= NextCap(len')  BY <2>1, <2>2, OneResizeIsEnough
  <2> QED  BY <2>3 DEF AppendOne
<1>2. GrowInv /\ [GrowNext]_growVars
        => [AppendOne /\ len' <= Limit => touched' <= cap']_growVars
  BY <1>1
<1> QED  BY <1>2, GrowAlways, PTL DEF GrowSpec, RepairedByNextStore

-----------------------------------------------------------------------------
(***************************************************************************)
(* The inductive invariant.  Three facts relate the search to the history: *)
(* start is the running sum of the sizes, so a declaration starts where    *)
(* the ones before it end; a search has passed no declaration of the name  *)
(* it wants; and its sum is the start of the declaration it looks at.      *)
(***************************************************************************)
Layout ==
  /\ start[1] = 0
  /\ \A j, k \in 1 .. Len(names) + 1 :
       j < k => start[j] + Size(types[j]) <= start[k]
  /\ \A k \in 1 .. Len(names) : start[k + 1] = start[k] + Size(types[k])

Scan ==
  pc = "scan" =>
    /\ \A j \in 1 .. i - 1 : names[j] # wanted
    /\ Clean(i) => addr = start[i] % AddrMod
    /\ why = "let" => Declared(wanted)

IsFirst(k, n) == names[k] = n /\ \A j \in 1 .. k - 1 : names[j] # n

Answers ==
  \A p \in told :
    \E k \in 1 .. Len(names) :
      /\ IsFirst(k, p[1])
      /\ Clean(k) => p[2] = start[k] % AddrMod

IInv == TypeOK /\ Layout /\ Scan /\ Answers

-----------------------------------------------------------------------------
LEMMA SizeNat == ASSUME NEW t PROVE Size(t) \in Nat
  BY DEF Size

(* At most one element of a sequence is the first that equals n.           *)
LEMMA FirstOfSeq ==
  ASSUME NEW s \in Seq(Names), NEW n, NEW k \in 1 .. Len(s),
         s[k] = n, \A j \in 1 .. k - 1 : s[j] # n
  PROVE  (CHOOSE m \in 1 .. Len(s) :
            s[m] = n /\ \A j \in 1 .. m - 1 : s[j] # n) = k
<1>1. Len(s) \in Nat  OBVIOUS
<1>2. \A m \in 1 .. Len(s) :
        s[m] = n /\ (\A j \in 1 .. m - 1 : s[j] # n) => m = k
  <2> SUFFICES ASSUME NEW m \in 1 .. Len(s), s[m] = n,
                      \A j \in 1 .. m - 1 : s[j] # n
               PROVE  m = k
    OBVIOUS
  <2>1. ~(m < k)  BY <1>1
  <2>2. ~(k < m)  BY <1>1
  <2> QED  BY <1>1, <2>1, <2>2
<1> QED  BY <1>2

(* A declaration that is the first of its name is the one First chooses.   *)
LEMMA FirstIs ==
  ASSUME names \in Seq(Names), NEW n,
         NEW k \in 1 .. Len(names), IsFirst(k, n)
  PROVE  First(n) = k
  BY FirstOfSeq DEF First, IsFirst

-----------------------------------------------------------------------------
LEMMA InitIInv == Init => IInv
<1> SUFFICES ASSUME Init PROVE IInv
  OBVIOUS
<1>1. TypeOK  BY AddrModAssumption DEF Init, TypeOK
<1>2. Len(names) = 0  BY DEF Init
<1>3. Layout  BY <1>2 DEF Layout, Init
<1> QED  BY <1>1, <1>3 DEF Init, IInv, Scan, Answers

LEMMA TypeStep == TypeOK /\ [Next]_vars => TypeOK'
<1> SUFFICES ASSUME TypeOK, [Next]_vars PROVE TypeOK'
  OBVIOUS
<1> USE AddrModAssumption
<1>1. ASSUME NEW n \in Names, NEW t \in Types, Let(n, t) PROVE TypeOK'
  <2>1. start[Len(start)] + Size(t) \in Nat
    BY SizeNat DEF TypeOK
  <2>2. /\ names' \in Seq(Names) /\ types' \in Seq(Types)
        /\ start' \in Seq(Nat)
        /\ Len(names') = Len(names) + 1
        /\ Len(types') = Len(types) + 1
        /\ Len(start') = Len(start) + 1
    BY <1>1, <2>1 DEF Let, TypeOK
  <2>3. /\ pc' = "scan" /\ why' = "let" /\ wanted' \in Names
        /\ i' = 1 /\ addr' = 0 /\ told' = told /\ refused' = refused
    BY <1>1 DEF Let, StartScan
  <2> QED  BY <2>2, <2>3 DEF TypeOK
<1>2. ASSUME NEW n \in Names, NEW c \in {"assign", "use"}, Search(c, n)
      PROVE  TypeOK'
  <2>1. i' = 1 /\ 1 \in 1 .. Len(names) + 1
    BY <1>2 DEF Search, StartScan, TypeOK
  <2> QED  BY <1>2, <2>1 DEF Search, StartScan, TypeOK
<1>3. CASE Skip
  <2>1. i' \in 1 .. Len(names) + 1
    BY <1>3 DEF Skip, TypeOK
  <2>2. addr' \in 0 .. AddrMod - 1
    <3>1. types[i] \in Types  BY <1>3 DEF Skip, TypeOK
    <3>2. SizeRead(types[i]) \subseteq Nat
      BY GarbageAssumption, SizeNat DEF SizeRead
    <3>3. PICK s \in SizeRead(types[i]) : addr' = (addr + s) % AddrMod
      BY <1>3 DEF Skip
    <3>4. addr + s \in Nat  BY <3>2 DEF TypeOK
    <3>5. (addr + s) % AddrMod \in 0 .. AddrMod - 1  BY <3>4
    <3> QED  BY <3>3, <3>5
  <2> QED  BY <1>3, <2>1, <2>2 DEF Skip, TypeOK
<1>4. CASE Found    BY <1>4 DEF Found, TypeOK
<1>5. CASE Missing  BY <1>5 DEF Missing, TypeOK
<1>6. CASE UNCHANGED vars  BY <1>6 DEF vars, TypeOK
<1> QED  BY <1>1, <1>2, <1>3, <1>4, <1>5, <1>6 DEF Next

(* What appending a declaration leaves as it was.                          *)
LEMMA LetKeeps ==
  ASSUME TypeOK, NEW n \in Names, NEW t \in Types, Let(n, t)
  PROVE  /\ Len(names') = Len(names) + 1
         /\ \A k \in 1 .. Len(names) :
              names'[k] = names[k] /\ types'[k] = types[k]
         /\ \A k \in 1 .. Len(names) + 1 : start'[k] = start[k]
         /\ names'[Len(names) + 1] = n
         /\ types'[Len(names) + 1] = t
         /\ start'[Len(names) + 2] = start[Len(names) + 1] + Size(t)
<1>1. names \in Seq(Names) /\ types \in Seq(Types) /\ start \in Seq(Nat)
  BY DEF TypeOK
<1>2. Len(types) = Len(names) /\ Len(start) = Len(names) + 1
  BY DEF TypeOK
<1> QED  BY <1>1, <1>2 DEF Let

LEMMA LetIInv ==
  ASSUME IInv, TypeOK', NEW n \in Names, NEW t \in Types, Let(n, t)
  PROVE  IInv'
<1> DEFINE L == Len(names)
<1>0. TypeOK  BY DEF IInv
<1>1. L \in Nat /\ \A k \in 1 .. L + 1 : start[k] \in Nat
  BY SMTT(40), <1>0 DEF TypeOK
<1>2. /\ Len(names)' = L + 1
      /\ \A k \in 1 .. L : names'[k] = names[k] /\ types'[k] = types[k]
      /\ \A k \in 1 .. L + 1 : start'[k] = start[k]
      /\ names'[L + 1] = n
      /\ types'[L + 1] = t
      /\ start'[L + 2] = start[L + 1] + Size(t)
  BY <1>0, LetKeeps
<1>3. ASSUME NEW k \in 1 .. L + 1
      PROVE  start'[k + 1] = start'[k] + Size(types'[k])
  <2>1. CASE k = L + 1  BY <1>1, <1>2, <2>1
  <2>2. CASE k # L + 1
    <3>1. k \in 1 .. L /\ k \in 1 .. L + 1 /\ k + 1 \in 1 .. L + 1
      BY <1>1, <2>2
    <3> QED  BY <1>2, <3>1 DEF IInv, Layout
  <2> QED  BY <2>1, <2>2
<1>6. ASSUME NEW j \in 1 .. L + 2, NEW k \in 1 .. L + 2, j < k
      PROVE  start'[j] + Size(types'[j]) <= start'[k]
  <2>1. CASE k <= L + 1
    <3>1. j \in 1 .. L /\ k \in 1 .. L + 1 /\ j < k  BY <1>1, <1>6, <2>1
    <3>2. start[j] + Size(types[j]) <= start[k]
      BY <1>1, <3>1 DEF IInv, Layout
    <3> QED  BY <1>2, <1>1, <3>1, <3>2
  <2>2. CASE k = L + 2 /\ j = L + 1
    <3>1. start'[j] = start[j]  BY <1>1, <1>2, <2>2
    <3>2. start[j] + Size(t) \in Nat  BY <1>1, <2>2, SizeNat
    <3> QED  BY <1>1, <1>2, <2>2, <3>1, <3>2
  <2>3. CASE k = L + 2 /\ j < L + 1
    <3>1. j \in 1 .. L /\ L + 1 \in 1 .. L + 1 /\ j < L + 1  BY <1>1, <2>3
    <3>2. start[j] + Size(types[j]) <= start[L + 1]
      BY <1>1, <3>1 DEF IInv, Layout
    <3>3. Size(t) \in Nat /\ Size(types[j]) \in Nat  BY SizeNat
    <3> QED  BY <1>1, <1>2, <2>3, <3>1, <3>2, <3>3
  <2> QED  BY <1>1, <1>6, <2>1, <2>2, <2>3
<1>7. Layout'
  <2>1. start'[1] = 0  BY <1>1, <1>2 DEF IInv, Layout
  <2> QED  BY <1>2, <1>3, <1>6, <2>1 DEF Layout
<1>4. Scan'
  <2>1. i' = 1 /\ addr' = 0 /\ wanted' = n
    BY DEF Let, StartScan
  <2>2. start'[1] = 0
    <3>1. start[1] = 0
      BY DEF IInv, Layout
    <3> QED  BY <1>1, <1>2, <3>1
  <2> QED  BY <1>1, <1>2, <2>1, <2>2, AddrModAssumption
           DEF Scan, Clean, Declared
<1>5. Answers'
  <2> SUFFICES ASSUME NEW p \in told
               PROVE  \E k \in 1 .. L + 1 :
                        /\ IsFirst(k, p[1])'
                        /\ Clean(k)' => p[2] = start'[k] % AddrMod
    BY <1>2 DEF Answers, Let
  <2>1. PICK k \in 1 .. L :
          IsFirst(k, p[1]) /\ (Clean(k) => p[2] = start[k] % AddrMod)
    BY DEF IInv, Answers
  <2>2. IsFirst(k, p[1])' /\ (Clean(k)' => Clean(k)) /\ start'[k] = start[k]
    <3>1. \A j \in 1 .. k : j \in 1 .. L  BY <1>1
    <3>2. IsFirst(k, p[1])'  BY <1>1, <1>2, <2>1, <3>1 DEF IsFirst
    <3>3. Clean(k)' => Clean(k)  BY <1>1, <1>2, <2>1, <3>1 DEF Clean
    <3> QED  BY <1>1, <1>2, <3>2, <3>3
  <2> QED  BY <1>1, <2>1, <2>2
<1> QED  BY <1>7, <1>4, <1>5 DEF IInv

LEMMA SearchIInv ==
  ASSUME IInv, TypeOK', NEW n \in Names, NEW c \in {"assign", "use"},
         Search(c, n)
  PROVE  IInv'
<1>1. UNCHANGED <<names, types, start, told>>  BY DEF Search
<1>2. Layout' /\ Answers'
  BY <1>1 DEF IInv, Layout, Answers, IsFirst, Clean
<1>3. Scan'
  <2>1. i' = 1 /\ addr' = 0 /\ why' # "let" /\ start'[1] = 0
    BY <1>1 DEF Search, StartScan, IInv, Layout
  <2> QED  BY <2>1, AddrModAssumption DEF Scan
<1> QED  BY <1>2, <1>3 DEF IInv

(* The sum of a search that only passes clean declarations stays the start *)
(* of the declaration it looks at, modulo the width of an address: the     *)
(* running sum leaves no gap between two declarations.                     *)
LEMMA SkipIInv ==
  ASSUME IInv, TypeOK', Skip
  PROVE  IInv'
<1>1. UNCHANGED <<names, types, start, told>>  BY DEF Skip
<1>2. Layout' /\ Answers'
  BY <1>1 DEF IInv, Layout, Answers, IsFirst, Clean
<1>3. i \in 1 .. Len(names) /\ i' = i + 1 /\ wanted' = wanted
      /\ why' = why /\ pc = "scan" /\ names[i] # wanted
  BY DEF Skip, IInv, TypeOK
<1>4. ASSUME Clean(i + 1)
      PROVE  addr' = start[i + 1] % AddrMod
  <2>1. Clean(i) /\ types[i] # "void"
    BY <1>3, <1>4 DEF Clean
  <2>2. addr = start[i] % AddrMod
    BY <1>3, <2>1 DEF IInv, Scan
  <2>3. addr' = (addr + Size(types[i])) % AddrMod
    BY <2>1 DEF Skip, SizeRead
  <2>4. start[i + 1] = start[i] + Size(types[i])
    BY <1>3 DEF IInv, Layout
  <2>5. start[i] \in Nat /\ Size(types[i]) \in Nat
    <3>1. start \in Seq(Nat) /\ i \in 1 .. Len(start)
      BY <1>3 DEF IInv, TypeOK
    <3> QED  BY <3>1, SizeNat
  <2>6. ((start[i] % AddrMod) + Size(types[i])) % AddrMod
          = (start[i] + Size(types[i])) % AddrMod
    <3>1. AddrMod \in Nat /\ AddrMod > 0  BY AddrModAssumption
    <3> QED  BY Zenon, <2>5, <3>1, WrapOnce
  <2> QED  BY Zenon, <2>2, <2>3, <2>4, <2>6
<1>5. Scan'
  <2>1. \A j \in 1 .. i' - 1 : names'[j] # wanted'
    BY <1>1, <1>3 DEF IInv, Scan
  <2>2. Clean(i)' => addr' = start'[i'] % AddrMod
    BY <1>1, <1>3, <1>4 DEF Clean
  <2>3. why' = "let" => Declared(wanted)'
    BY <1>1, <1>3 DEF IInv, Scan, Declared
  <2> QED  BY <2>1, <2>2, <2>3 DEF Scan
<1> QED  BY <1>2, <1>5 DEF IInv

LEMMA FoundIInv ==
  ASSUME IInv, TypeOK', Found
  PROVE  IInv'
<1>1. UNCHANGED <<names, types, start>>  BY DEF Found
<1>2. Layout' /\ Scan'
  BY <1>1 DEF IInv, Layout, Scan, Found
<1>3. i \in 1 .. Len(names)  BY DEF Found, IInv, TypeOK
<1>4. IsFirst(i, wanted) /\ (Clean(i) => addr = start[i] % AddrMod)
  BY DEF Found, IInv, Scan, IsFirst
<1>5. Answers'
  <2> SUFFICES ASSUME NEW p \in told \union {<<wanted, addr>>}
               PROVE  \E k \in 1 .. Len(names) :
                        /\ IsFirst(k, p[1])
                        /\ Clean(k) => p[2] = start[k] % AddrMod
    BY <1>1 DEF Answers, Found, IsFirst, Clean
  <2>1. CASE p \in told  BY <2>1 DEF IInv, Answers
  <2>2. CASE p = <<wanted, addr>>  BY <1>3, <1>4, <2>2
  <2> QED  BY <2>1, <2>2
<1> QED  BY <1>2, <1>5 DEF IInv

LEMMA StepIInv == IInv /\ [Next]_vars => IInv'
<1> SUFFICES ASSUME IInv, [Next]_vars PROVE IInv'
  OBVIOUS
<1>0. TypeOK'  BY TypeStep DEF IInv
<1>1. ASSUME NEW n \in Names, NEW t \in Types, Let(n, t) PROVE IInv'
  BY <1>0, <1>1, LetIInv
<1>2. ASSUME NEW n \in Names, NEW c \in {"assign", "use"}, Search(c, n)
      PROVE  IInv'
  BY <1>0, <1>2, SearchIInv
<1>3. CASE Skip   BY <1>0, <1>3, SkipIInv
<1>4. CASE Found  BY <1>0, <1>4, FoundIInv
<1>5. CASE Missing
  BY <1>0, <1>5
     DEF Missing, IInv, Layout, Scan, Answers, IsFirst, Clean
<1>6. CASE UNCHANGED vars
  BY <1>0, <1>6
     DEF vars, IInv, Layout, Scan, Answers, IsFirst, Clean, Declared
<1> QED  BY <1>1, <1>2, <1>3, <1>4, <1>5, <1>6 DEF Next

LEMMA AlwaysIInv == Spec => []IInv
  BY InitIInv, StepIInv, PTL DEF Spec

-----------------------------------------------------------------------------
(* The answer about a declared name is the wrapped start of its first      *)
(* declaration.                                                            *)
LEMMA AnswerIsStart ==
  ASSUME IInv, NEW p \in told
  PROVE  /\ First(p[1]) \in 1 .. Len(names)
         /\ names[First(p[1])] = p[1]
         /\ Clean(First(p[1])) => p[2] = start[First(p[1])] % AddrMod
<1>1. PICK k \in 1 .. Len(names) :
        IsFirst(k, p[1]) /\ (Clean(k) => p[2] = start[k] % AddrMod)
  BY DEF IInv, Answers
<1>2. First(p[1]) = k  BY <1>1, FirstIs DEF IInv, TypeOK
<1> QED  BY <1>1, <1>2 DEF IsFirst

(* The layout's arrays stay parallel and its sums stay bytes.              *)
THEOREM VarTypeCorrect == Spec => []TypeOK
<1>1. IInv => TypeOK  BY DEF IInv
<1> QED  BY <1>1, AlwaysIInv, PTL

(* The code compiled for a let and the code compiled for every later use   *)
(* of the variable agree on its address.                                   *)
THEOREM VarStableAnswers == Spec => []StableAnswers
<1>1. IInv => StableAnswers
  <2> SUFFICES ASSUME IInv, NEW p \in told, NEW q \in told, p[1] = q[1],
                      Clean(First(p[1]))
               PROVE  p[2] = q[2]
    BY DEF StableAnswers
  <2> QED  BY AnswerIsStart
<1> QED  BY <1>1, AlwaysIInv, PTL

(* Two variables of one function never share a byte of the zero page while *)
(* the bytes declared fit in it.                                           *)
THEOREM VarNoOverlap == Spec => []NoOverlap
<1>1. IInv => NoOverlap
  <2> SUFFICES ASSUME IInv, Top <= AddrMod,
                      NEW p \in told, NEW q \in told, p[1] # q[1],
                      Clean(First(p[1])), Clean(First(q[1]))
               PROVE  \/ p[2] + Size(types[First(p[1])]) <= q[2]
                      \/ q[2] + Size(types[First(q[1])]) <= p[2]
    BY DEF NoOverlap
  <2> DEFINE j == First(p[1])
             k == First(q[1])
             L == Len(names)
  <2>1. /\ j \in 1 .. L /\ k \in 1 .. L /\ j # k
        /\ p[2] = start[j] % AddrMod /\ q[2] = start[k] % AddrMod
    BY AnswerIsStart
  <2>2. L \in Nat /\ \A m \in 1 .. L + 1 : start[m] \in Nat
    BY DEF IInv, TypeOK
  <2> HIDE DEF j, k, L
  <2>3. \A m, n \in 1 .. L + 1 : m < n => start[m] + Size(types[m]) <= start[n]
    BY DEF IInv, Layout, L
  <2>4. Size(types[j]) \in Nat /\ Size(types[k]) \in Nat  BY SizeNat
  <2>5. ASSUME NEW m \in 1 .. L, NEW n \in 1 .. L, m < n
        PROVE  LET a == start[m] % AddrMod
                   b == start[n] % AddrMod
               IN  a + Size(types[m]) <= b \/ b + Size(types[n]) <= a
    <3> DEFINE u == start[m]
               v == start[n]
    <3>1. u \in Nat /\ v \in Nat  BY <2>2
    <3>2. Size(types[m]) \in Nat /\ Size(types[n]) \in Nat  BY SizeNat
    <3>3. u + Size(types[m]) <= v  BY <2>2, <2>3, <2>5
    <3>4. v + Size(types[n]) <= AddrMod
      <4>1. v + Size(types[n]) <= start[L + 1]  BY <2>2, <2>3
      <4>2. start[L + 1] <= AddrMod /\ start[L + 1] \in Nat
        BY <2>2 DEF Top, L
      <4> QED  BY <3>1, <3>2, <4>1, <4>2, AddrModAssumption
    <3> HIDE DEF u, v
    <3>5. CASE v < AddrMod
      <4>1. u < AddrMod  BY <3>1, <3>2, <3>3, <3>5, AddrModAssumption
      <4>2. u % AddrMod = u /\ v % AddrMod = v
        BY <3>1, <3>5, <4>1, AddrModAssumption
      <4> QED  BY <3>3, <4>2 DEF u, v
    <3>6. CASE v = AddrMod
      <4>1. Size(types[n]) = 0  BY <3>2, <3>4, <3>6, AddrModAssumption
      <4>2. v % AddrMod = 0  BY <3>6, AddrModAssumption
      <4>3. u % AddrMod \in Nat  BY <3>1, AddrModAssumption
      <4>4. 0 + 0 <= u % AddrMod  BY <4>3
      <4> QED  BY <4>1, <4>2, <4>4 DEF u, v
    <3> QED  BY <3>1, <3>2, <3>4, <3>5, <3>6, AddrModAssumption
  <2>6. CASE j < k  BY <2>1, <2>5, <2>6 DEF j, k
  <2>7. CASE k < j  BY <2>1, <2>5, <2>7 DEF j, k
  <2> QED  BY <2>1, <2>2, <2>6, <2>7
<1> QED  BY <1>1, AlwaysIInv, PTL

(* A let always finds the variable it has just appended.                   *)
THEOREM VarLetIsDefined == Spec => []LetIsDefined
<1>1. IInv => LetIsDefined  BY DEF IInv, Scan, LetIsDefined
<1> QED  BY <1>1, AlwaysIInv, PTL

-----------------------------------------------------------------------------
(***************************************************************************)
(* The refinement: summing sizes again at every question is as good as     *)
(* having stored the slots.                                                *)
(***************************************************************************)
(* Every declared name has a first declaration.  The search itself is the  *)
(* witness when it finds the name; the appended one when the name is new.  *)
HasFirst ==
  \A n \in {names[k] : k \in 1 .. Len(names)} :
    \E k \in 1 .. Len(names) : IsFirst(k, n)

RInv == IInv /\ HasFirst

LEMMA InitRInv == Init => RInv
<1> SUFFICES ASSUME Init PROVE HasFirst
  BY InitIInv DEF RInv
<1> QED  BY DEF Init, HasFirst

LEMMA LetHasFirst ==
  ASSUME RInv, NEW n \in Names, NEW t \in Types, Let(n, t)
  PROVE  /\ HasFirst'
         /\ Slots' = [m \in DOMAIN Slots \union {n} |->
                        IF m \in DOMAIN Slots THEN Slots[m] ELSE Top]
         /\ \A m \in DOMAIN Slots :
              First(m) \in 1 .. Len(names) /\ First(m)' = First(m)
         /\ n \notin DOMAIN Slots => First(n)' = Len(names) + 1
<1> DEFINE L == Len(names)
           D == {names[k] : k \in 1 .. L}
           E == {names'[k] : k \in 1 .. L + 1}
<1>0. TypeOK /\ TypeOK'
  BY TypeStep DEF RInv, IInv, Next
<1>1. L \in Nat /\ names \in Seq(Names) /\ names' \in Seq(Names)
  BY <1>0 DEF TypeOK
<1>2. /\ Len(names)' = L + 1
      /\ \A k \in 1 .. L : names'[k] = names[k]
      /\ \A k \in 1 .. L + 1 : start'[k] = start[k]
      /\ names'[L + 1] = n
  BY <1>0, LetKeeps
<1>3. E = D \union {n}
  <2>1. \A k \in 1 .. L + 1 : k \in 1 .. L \/ k = L + 1  BY <1>1
  <2>2. \A k \in 1 .. L : k \in 1 .. L + 1  BY <1>1
  <2>3. L + 1 \in 1 .. L + 1  BY <1>1
  <2> QED  BY <1>2, <2>1, <2>2, <2>3
<1>4. ASSUME NEW m \in D
      PROVE  \E k \in 1 .. L :
               /\ IsFirst(k, m) /\ IsFirst(k, m)'
               /\ start'[k] = start[k]
  <2>1. PICK k \in 1 .. L : IsFirst(k, m)  BY DEF RInv, HasFirst
  <2>2. k \in 1 .. L + 1 /\ \A j \in 1 .. k - 1 : j \in 1 .. L  BY <1>1
  <2>3. IsFirst(k, m)'  BY <1>2, <2>1, <2>2 DEF IsFirst
  <2> QED  BY <1>2, <2>1, <2>2, <2>3
<1>5. ASSUME n \notin D, NEW k, k = L + 1
      PROVE  IsFirst(k, n)'
  <2>1. \A j \in 1 .. k - 1 : j \in 1 .. L  BY <1>1, <1>5
  <2> QED  BY <1>2, <1>5, <2>1 DEF IsFirst
<1>6. HasFirst'
  <2> SUFFICES ASSUME NEW m \in E
               PROVE  \E k \in 1 .. L + 1 : IsFirst(k, m)'
    BY <1>2 DEF HasFirst
  <2>1. CASE m \in D
    <3>1. PICK k \in 1 .. L : IsFirst(k, m)'  BY <1>4, <2>1
    <3>2. k \in 1 .. L + 1  BY <1>1
    <3> QED  BY <3>1, <3>2
  <2>2. CASE m = n /\ n \notin D
    <3>1. PICK k \in 1 .. L + 1 : k = L + 1  BY <1>1
    <3> QED  BY <1>5, <2>2, <3>1
  <2> QED  BY <1>3, <2>1, <2>2
<1>7. ASSUME NEW m \in D
      PROVE  /\ First(m) \in 1 .. L /\ First(m)' = First(m)
             /\ start'[First(m)'] = start[First(m)]
  <2>1. PICK k \in 1 .. L :
          IsFirst(k, m) /\ IsFirst(k, m)' /\ start'[k] = start[k]
    BY <1>4
  <2>2. First(m) = k  BY <1>1, <2>1, FirstIs
  <2>3. k \in 1 .. Len(names')  BY <1>1, <1>2
  <2>4. First(m)' = k
    BY <1>1, <2>1, <2>3, FirstOfSeq DEF First, IsFirst
  <2> QED  BY <2>1, <2>2, <2>4
<1>8. ASSUME n \notin D
      PROVE  First(n)' = L + 1 /\ start'[First(n)'] = Top
  <2>1. PICK k \in 1 .. Len(names') : k = L + 1  BY <1>1, <1>2
  <2>2. IsFirst(k, n)'  BY <1>5, <1>8, <2>1
  <2>3. First(n)' = k
    BY <1>1, <2>2, FirstOfSeq DEF First, IsFirst
  <2> QED  BY <1>1, <1>2, <2>1, <2>3 DEF Top
<1>9. Slots' = [m \in E |-> start'[First(m)']]
  BY <1>2 DEF Slots
<1>10. DOMAIN Slots = D /\ \A m \in D : Slots[m] = start[First(m)]
  BY DEF Slots
<1>11. \A m \in E : start'[First(m)'] =
                      IF m \in DOMAIN Slots THEN Slots[m] ELSE Top
  BY <1>3, <1>7, <1>8, <1>10
<1>12. Slots' = [m \in DOMAIN Slots \union {n} |->
                  IF m \in DOMAIN Slots THEN Slots[m] ELSE Top]
  BY <1>3, <1>9, <1>10, <1>11
<1> QED  BY <1>6, <1>7, <1>8, <1>10, <1>12

(* Appending a declaration makes none of the old ones void, and puts a new *)
(* name behind a void one when there was one.                              *)
LEMMA LetBehind ==
  ASSUME RInv, NEW n \in Names, NEW t \in Types, Let(n, t)
  PROVE  /\ VoidSeen' = (VoidSeen \/ t = "void")
         /\ Behind' = IF VoidSeen /\ n \notin DOMAIN Slots
                      THEN Behind \union {n} ELSE Behind
<1> DEFINE L == Len(names)
<1>0. TypeOK  BY DEF RInv, IInv
<1>1. L \in Nat  BY <1>0 DEF TypeOK
<1>2. /\ Len(names)' = L + 1
      /\ \A k \in 1 .. L : types'[k] = types[k]
      /\ types'[L + 1] = t
  BY <1>0, LetKeeps
<1>3. ASSUME NEW k \in 1 .. L + 1 PROVE Clean(k)' <=> Clean(k)
  <2>1. \A j \in 1 .. k - 1 : j \in 1 .. L  BY <1>1
  <2> QED  BY <1>2, <2>1 DEF Clean
<1>4. (\A j \in 1 .. L + 1 : types'[j] # "void") <=> Clean(L + 1) /\ t # "void"
  <2>1. \A j \in 1 .. L + 1 : j \in 1 .. L \/ j = L + 1  BY <1>1
  <2>2. (\A j \in 1 .. L : j \in 1 .. L + 1) /\ L + 1 \in 1 .. L + 1  BY <1>1
  <2>3. (L + 1) - 1 = L  BY <1>1
  <2>4. Clean(L + 1) <=> \A j \in 1 .. L : types[j] # "void"
    BY <2>3 DEF Clean
  <2> QED  BY <1>2, <2>1, <2>2, <2>4
<1>5. VoidSeen' <=> VoidSeen \/ t = "void"
  <2>1. ((L + 1) + 1) - 1 = L + 1  BY <1>1
  <2>2. VoidSeen' <=> ~(\A j \in 1 .. L + 1 : types'[j] # "void")
    BY <1>2, <2>1 DEF VoidSeen, Clean
  <2> QED  BY <1>4, <2>2 DEF VoidSeen
<1>6. DOMAIN Slots' = DOMAIN Slots \union {n}
  BY LetHasFirst
<1>7. ASSUME NEW m \in DOMAIN Slots
      PROVE  Clean(First(m))' <=> Clean(First(m))
  <2>1. First(m) \in 1 .. L /\ First(m)' = First(m)  BY LetHasFirst
  <2>2. PICK k \in 1 .. L + 1 : k = First(m)  BY <1>1, <2>1
  <2>3. Clean(k)' <=> Clean(k)  BY <1>3
  <2> QED  BY <2>1, <2>2, <2>3 DEF Clean
<1>8. ASSUME n \notin DOMAIN Slots
      PROVE  Clean(First(n))' <=> ~VoidSeen
  <2>1. First(n)' = L + 1  BY <1>8, LetHasFirst
  <2>2. PICK k \in 1 .. L + 1 : k = L + 1  BY <1>1
  <2>3. Clean(k)' <=> Clean(k)  BY <1>3
  <2> QED  BY <2>1, <2>2, <2>3 DEF Clean, VoidSeen
<1>9. Behind' = {m \in DOMAIN Slots \union {n} : ~Clean(First(m))'}
  BY <1>6 DEF Behind
<1>10. Behind' = IF VoidSeen /\ n \notin DOMAIN Slots
                 THEN Behind \union {n} ELSE Behind
  BY <1>7, <1>8, <1>9 DEF Behind
<1> QED  BY <1>5, <1>10 DEF VoidSeen

LEMMA StepRInv == RInv /\ [Next]_vars => RInv'
<1> SUFFICES ASSUME RInv, [Next]_vars PROVE HasFirst'
  BY StepIInv DEF RInv
<1>1. ASSUME NEW n \in Names, NEW t \in Types, Let(n, t) PROVE HasFirst'
  BY <1>1, LetHasFirst
<1>2. CASE UNCHANGED names
  <2>1. names' = names  BY <1>2
  <2>2. SUFFICES ASSUME NEW n \in {names[k] : k \in 1 .. Len(names)}
                 PROVE  \E k \in 1 .. Len(names) : IsFirst(k, n)'
    BY <2>1 DEF HasFirst
  <2>3. PICK k \in 1 .. Len(names) : IsFirst(k, n)  BY DEF RInv, HasFirst
  <2> QED  BY <2>1, <2>3 DEF IsFirst
<1> QED
  BY <1>1, <1>2 DEF Next, Search, Skip, Found, Missing, vars

LEMMA InitRefines == Init => Alloc!Init
<1> SUFFICES ASSUME Init PROVE Alloc!Init
  OBVIOUS
<1>1. {names[k] : k \in 1 .. Len(names)} = {}  BY DEF Init
<1>2. Slots = [n \in {} |-> 0]  BY <1>1 DEF Slots
<1>3. Top = 0  BY DEF Init, Top
<1>4. VoidSeen = FALSE  BY DEF Init, VoidSeen, Clean
<1>5. Behind = {}  BY <1>2 DEF Behind
<1> QED  BY <1>2, <1>3, <1>4, <1>5 DEF Init, Alloc!Init

LEMMA StepRefines == RInv /\ [Next]_vars => [Alloc!Next]_(Alloc!vars)
<1> SUFFICES ASSUME RInv, [Next]_vars
             PROVE  [Alloc!Next]_(Alloc!vars)
  OBVIOUS
<1>0. TypeOK /\ IInv  BY DEF RInv, IInv
<1>1. ASSUME NEW n \in Names, NEW t \in Types, Let(n, t)
      PROVE  Alloc!Declare(n, t)
  <2>1. Slots' = [m \in DOMAIN Slots \union {n} |->
                   IF m \in DOMAIN Slots THEN Slots[m] ELSE Top]
    BY <1>1, LetHasFirst
  <2>2. Top' = Top + Size(t)
    <3>1. Len(names) \in Nat  BY <1>0 DEF TypeOK
    <3> QED  BY <1>0, <1>1, <3>1, LetKeeps DEF Top
  <2>3. UNCHANGED <<told, refused>>  BY <1>1 DEF Let
  <2>4. /\ VoidSeen' = (VoidSeen \/ t = "void")
        /\ Behind' = IF VoidSeen /\ n \notin DOMAIN Slots
                     THEN Behind \union {n} ELSE Behind
    BY <1>1, LetBehind
  <2> QED  BY <2>1, <2>2, <2>3, <2>4 DEF Alloc!Declare, Alloc!Size, Size
<1>2. CASE Found
  <2>1. i \in 1 .. Len(names) /\ IsFirst(i, wanted)
    BY <1>0, <1>2 DEF Found, TypeOK, IInv, Scan, IsFirst
  <2>2. First(wanted) = i  BY <1>0, <2>1, FirstIs DEF TypeOK
  <2>3. Clean(i) => addr = start[i] % AddrMod
    BY <1>0, <1>2 DEF Found, IInv, Scan
  <2>4. addr \in 0 .. AddrMod - 1  BY <1>0 DEF TypeOK
  <2>5. /\ wanted \in DOMAIN Slots /\ Slots[wanted] = start[i]
        /\ wanted \in Behind <=> ~Clean(i)
    BY <2>1, <2>2 DEF Slots, Behind, IsFirst
  <2>6. UNCHANGED <<Slots, Top, VoidSeen, Behind, refused>>
    BY <1>2 DEF Found, Slots, Top, VoidSeen, Behind, Clean, First
  <2>7. addr \in IF wanted \in Behind THEN 0 .. AddrMod - 1
                 ELSE {Slots[wanted] % AddrMod}
    BY <2>3, <2>4, <2>5
  <2>8. told' = told \union {<<wanted, addr>>}
    BY <1>2 DEF Found
  <2>9. Alloc!Answer(wanted)
    BY <2>5, <2>6, <2>7, <2>8 DEF Alloc!Answer
  <2> QED  BY <1>0, <2>9 DEF Alloc!Next, TypeOK
<1>3. CASE Missing
  <2>1. \A k \in 1 .. Len(names) : names[k] # wanted
    <3>1. \A k \in 1 .. Len(names) : k \in 1 .. i - 1
      BY <1>0, <1>3 DEF Missing, TypeOK
    <3> QED  BY <1>0, <1>3, <3>1 DEF Missing, IInv, Scan
  <2>2. wanted \notin DOMAIN Slots  BY <2>1 DEF Slots
  <2>3. Alloc!Refuse(wanted)
    BY <1>3, <2>2
       DEF Missing, Alloc!Refuse, Slots, Top, VoidSeen, Behind, Clean, First
  <2> QED  BY <1>0, <2>3 DEF Alloc!Next, TypeOK
<1>4. CASE UNCHANGED <<names, types, start, told, refused>>
  BY <1>4 DEF Alloc!vars, Slots, Top, VoidSeen, Behind, Clean, First
<1> QED
  BY <1>1, <1>2, <1>3, <1>4
     DEF Next, Search, Skip, vars, Alloc!Next

(* The linear search over parallel arrays, which stores no address,        *)
(* implements the allocator that gives each variable its slot when it is   *)
(* first declared.                                                         *)
THEOREM VarImplements == Spec => Implements
  BY InitRInv, StepRInv, InitRefines, StepRefines, PTL
     DEF Spec, Implements, Alloc!Spec
=============================================================================
