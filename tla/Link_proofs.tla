----------------------------- MODULE Link_proofs -----------------------------
(***************************************************************************)
(* Proofs about the placement of functions, for every list of functions,   *)
(* every size of the memory, every address of main and whatever malloc     *)
(* leaves in the array of positions.                                       *)
(***************************************************************************)
EXTENDS Link, TLAPS

InLoops == phase \in {"place", "write", "print", "done"}

(* The functions before main whose position is computed.                   *)
Placed == IF phase = "place" THEN i ELSE main

(* The functions that are written.                                         *)
Written == IF phase = "write" THEN i ELSE Len(ast) + 1

(* Where the loops are, and what the compilation left.                     *)
Loops ==
  /\ phase = "search" => i = 1
  /\ phase \in {"search", "compile", "place"} => ~wild
  /\ phase \in {"compile", "place", "write"} => i \in 1 .. Len(ast) + 1
  /\ phase \in {"compile", "place", "write", "print", "done"} =>
       func_pos[main] = Start
  /\ phase = "compile" => \A k \in 1 .. i - 1 : ast[k].len > 0
  /\ InLoops => \A k \in 1 .. Len(ast) : ast[k].len > 0
  /\ phase = "place" => i <= main
  /\ InLoops => high >= Start + ast[main].len

(* While the positions have not wrapped: each placed function starts above *)
(* main, and at least its own length above every function placed before    *)
(* it; the last one placed is where the sum stands.                        *)
Positions ==
  InLoops /\ high < AddrMod =>
    /\ pos = high
    /\ \A k \in 1 .. Placed - 1 :
         Start + ast[main].len + ast[k].len <= func_pos[k] /\ func_pos[k] <= high
    /\ \A j, k \in 1 .. Placed - 1 :
         j < k => func_pos[j] + ast[k].len <= func_pos[k]
    /\ Placed > 1 => func_pos[Placed - 1] = high

(* What is written stays, up to main, until a function behind main is      *)
(* written over it.                                                        *)
Kept ==
  phase \in {"write", "print", "done"} /\ Fits /\ Ascending =>
    /\ Written <= main + 1 => ~wild
    /\ ~wild => \A k \in 1 .. Written - 1 : k <= main => Spared(k)

IInv == TypeOK /\ Loops /\ Positions /\ Kept

-----------------------------------------------------------------------------
LEMMA InitIInv == Init => IInv
<1> SUFFICES ASSUME Init PROVE IInv
  OBVIOUS
<1>1. ast \in Seq(Function)  BY AstsAssumption DEF Init
<1>2. TypeOK
  BY SMTT(40), <1>1, AddrModAssumption DEF Init, TypeOK, Empty
<1> QED
  BY <1>2 DEF Init, IInv, Loops, Positions, Kept, InLoops

LEMMA AstType ==
  ASSUME TypeOK
  PROVE  /\ Len(ast) \in Nat
         /\ DOMAIN ast = 1 .. Len(ast)
         /\ \A k \in 1 .. Len(ast) : ast[k].len \in Nat
<1>1. ast \in Seq(Function)  BY DEF TypeOK
<1>2. \A f \in Function : f.len \in Nat  BY DEF Function
<1>3. \A k \in 1 .. Len(ast) : ast[k] \in Function  BY <1>1
<1> QED  BY <1>1, <1>2, <1>3

LEMMA ModSmall == ASSUME NEW x \in Nat, x < AddrMod PROVE x % AddrMod = x
  BY AddrModAssumption

LEMMA TypeStep == TypeOK /\ Loops /\ [Next]_vars => TypeOK'
<1> SUFFICES ASSUME TypeOK, Loops, [Next]_vars PROVE TypeOK'
  OBVIOUS
<1> USE AddrModAssumption, StartAssumption, GarbageAssumption
<1>0. /\ Len(ast) \in Nat /\ DOMAIN ast = 1 .. Len(ast)
      /\ \A k \in 1 .. Len(ast) : ast[k].len \in Nat
  BY AstType
<1>1. CASE NoMain  BY <1>1 DEF NoMain, GiveUp, TypeOK
<1>2. CASE FindMain
  <2>1. PICK m \in DOMAIN ast :
          /\ main' = m
          /\ \E p \in [DOMAIN ast -> Garbage] : func_pos' = [p EXCEPT ![m] = Start]
    BY <1>2 DEF FindMain
  <2>2. func_pos' \in [DOMAIN ast -> 0 .. AddrMod - 1]  BY <2>1
  <2>3. main' \in 0 .. Len(ast) /\ main' # 0  BY <1>0, <2>1
  <2> QED  BY <1>2, <2>2, <2>3 DEF FindMain, TypeOK
<1>3. CASE CompileFunction  BY <1>3 DEF CompileFunction, TypeOK
<1>4. CASE CompileFails  BY <1>4 DEF CompileFails, GiveUp, TypeOK
<1>5. CASE CompiledAll
  <2>1. main \in 1 .. Len(ast)  BY <1>0, <1>5 DEF CompiledAll, TypeOK
  <2>2. Start + ast[main].len \in Nat  BY <1>0, <2>1
  <2>3. (Start + ast[main].len) % AddrMod \in 0 .. AddrMod - 1  BY <2>2
  <2> QED  BY <1>5, <2>2, <2>3 DEF CompiledAll, TypeOK
<1>6. CASE Place
  <2>1. i \in 1 .. Len(ast)
    BY <1>0, <1>6 DEF Place, TypeOK, Loops
  <2>2. ast[i].len \in Nat  BY <1>0, <2>1
  <2>3. (pos + ast[i].len) % AddrMod \in 0 .. AddrMod - 1
    <3>1. pos + ast[i].len \in Nat  BY <2>2 DEF TypeOK
    <3> QED  BY <3>1
  <2>4. func_pos' \in [DOMAIN ast -> 0 .. AddrMod - 1]
    BY <1>6, <2>3 DEF Place, TypeOK
  <2>5. high' \in Nat /\ i' \in Nat
    <3>1. high \in Nat /\ i \in Nat  BY DEF TypeOK
    <3>2. high' = high + ast[i].len /\ i' = i + 1  BY <1>6 DEF Place
    <3> QED  BY <2>2, <3>1, <3>2
  <2> QED  BY <1>6, <2>3, <2>4, <2>5 DEF Place, TypeOK
<1>7. CASE StopAtMain  BY <1>7 DEF StopAtMain, TypeOK
<1>8. CASE Write
  <2>1. i \in 1 .. Len(ast)
    BY <1>0, <1>8 DEF Write, TypeOK, Loops
  <2>2. func_pos[i] \in 0 .. AddrMod - 1
    BY <1>0, <1>8, <2>1 DEF Write, TypeOK
  <2>3. ASSUME NEW a \in 0 .. AddrMod - 1
        PROVE  memory'[a].fn \in 0 .. Len(ast) /\ memory'[a].off \in Nat
    <3>1. CASE memory'[a] \in {Empty, Stray}
      BY <1>0, <3>1 DEF Empty, Stray
    <3>2. CASE memory'[a] = Stored(memory)[a]
      <4>1. CASE a \in func_pos[i] .. func_pos[i] + ast[i].len - 1
        <5>1. memory'[a] = [fn |-> i, off |-> a - func_pos[i]]
          BY <3>2, <4>1 DEF Stored, Cell
        <5>2. a - func_pos[i] \in Nat  BY <1>0, <2>1, <2>2, <4>1
        <5> QED  BY <2>1, <1>0, <5>1, <5>2
      <4>2. CASE a \notin func_pos[i] .. func_pos[i] + ast[i].len - 1
        BY <3>2, <4>2 DEF Stored, TypeOK
      <4> QED  BY <4>1, <4>2
    <3> QED  BY <1>8, <3>1, <3>2 DEF Write, Spoilt
  <2>4. wild' \in BOOLEAN
    <3>1. wild \in BOOLEAN  BY DEF TypeOK
    <3>2. wild' = (wild \/ Overrun > 0)  BY <1>8 DEF Write
    <3> QED  BY <3>1, <3>2, Zenon
  <2> QED  BY <1>8, <2>1, <2>3, <2>4 DEF Write, TypeOK
<1>9. CASE WrittenAll  BY <1>9 DEF WrittenAll, TypeOK
<1>10. CASE List   BY <1>10 DEF List, TypeOK
<1>11. CASE Listed  BY <1>11 DEF Listed, TypeOK
<1>12. CASE UNCHANGED vars  BY <1>12 DEF vars, TypeOK
<1> QED
  BY <1>1, <1>2, <1>3, <1>4, <1>5, <1>6, <1>7, <1>8, <1>9, <1>10, <1>11, <1>12
     DEF Next

-----------------------------------------------------------------------------
(* The loops stay in the bounds of the list, and nothing of length 0 gets  *)
(* past the compilation.                                                   *)
LEMMA LoopsStep == IInv /\ [Next]_vars => Loops'
<1> SUFFICES ASSUME IInv, [Next]_vars PROVE Loops'
  OBVIOUS
<1>0. /\ TypeOK /\ Loops
      /\ Len(ast) \in Nat /\ DOMAIN ast = 1 .. Len(ast)
      /\ \A k \in 1 .. Len(ast) : ast[k].len \in Nat
  BY AstType DEF IInv
<1>1. main \in 0 .. Len(ast) /\ i \in Nat /\ high \in Nat
  BY <1>0 DEF TypeOK
<1>2. CASE NoMain \/ CompileFails
  BY <1>2 DEF NoMain, CompileFails, GiveUp, Loops, InLoops
<1>3. CASE FindMain
  <2>1. i' = 1 /\ phase' = "compile" /\ ast' = ast /\ ~wild'
    BY <1>0, <1>3 DEF FindMain, Loops
  <2>2. PICK m \in DOMAIN ast :
          /\ main' = m
          /\ \E p \in [DOMAIN ast -> Garbage] : func_pos' = [p EXCEPT ![m] = Start]
    BY <1>3 DEF FindMain
  <2>3. func_pos'[main'] = Start  BY <2>2
  <2> QED  BY <1>0, <2>1, <2>3 DEF Loops, InLoops
<1>4. CASE CompileFunction
  <2>1. \A k \in 1 .. i' - 1 : ast'[k].len > 0
    <3>1. \A k \in 1 .. i' - 1 : k = i \/ k \in 1 .. i - 1
      BY <1>1, <1>4 DEF CompileFunction
    <3> QED  BY <1>0, <1>4, <3>1 DEF CompileFunction, Loops
  <2>2. i' \in 1 .. Len(ast) + 1  BY <1>1, <1>0, <1>4 DEF CompileFunction
  <2> QED  BY <1>0, <1>4, <2>1, <2>2 DEF CompileFunction, Loops, InLoops
<1>5. CASE CompiledAll
  <2>1. \A k \in 1 .. Len(ast) : ast[k].len > 0
    BY <1>0, <1>1, <1>5 DEF CompiledAll, Loops
  <2>2. main \in 1 .. Len(ast)  BY <1>0, <1>1, <1>5 DEF CompiledAll, TypeOK
  <2>3. high' >= Start + ast[main].len
    BY <1>0, <1>5, <2>2, StartAssumption, AddrModAssumption DEF CompiledAll
  <2> QED
    BY <1>0, <1>5, <2>1, <2>2, <2>3 DEF CompiledAll, Loops, InLoops
<1>6. CASE Place
  <2>1. i < main /\ i \in 1 .. Len(ast)
    BY <1>0, <1>1, <1>6 DEF Place, Loops
  <2>2. i' <= main /\ i' \in 1 .. Len(ast) + 1
    BY <1>0, <1>1, <1>6, <2>1 DEF Place
  <2>3. high' >= Start + ast[main].len
    <3>1. high >= Start + ast[main].len
      BY <1>0, <1>6 DEF Place, Loops, InLoops
    <3>2. ast[main].len \in Nat /\ ast[i].len \in Nat /\ Start \in Nat
      BY <1>0, <1>1, <2>1, StartAssumption
    <3>3. high' = high + ast[i].len  BY <1>6 DEF Place
    <3> QED  BY SMTT(40), <1>1, <3>1, <3>2, <3>3
  <2>4. func_pos'[main] = Start
    BY <1>0, <1>6, <2>1 DEF Place, Loops, TypeOK
  <2> QED
    BY <1>0, <1>6, <2>2, <2>3, <2>4 DEF Place, Loops, InLoops
<1>7. CASE StopAtMain
  BY <1>0, <1>1, <1>7 DEF StopAtMain, Loops, InLoops
<1>8. CASE Write
  BY <1>0, <1>1, <1>8 DEF Write, Loops, InLoops
<1>9. CASE WrittenAll \/ List \/ Listed
  BY <1>0, <1>9 DEF WrittenAll, List, Listed, Loops, InLoops
<1>10. CASE UNCHANGED vars
  BY <1>0, <1>10 DEF vars, Loops, InLoops
<1> QED
  BY <1>2, <1>3, <1>4, <1>5, <1>6, <1>7, <1>8, <1>9, <1>10 DEF Next

(* Placing a function adds its length to the sum before it is used: it     *)
(* lands above everything placed so far by at least its own length.        *)
LEMMA PlacePositions ==
  ASSUME IInv, Place
  PROVE  Positions'
<1>0. /\ TypeOK /\ Loops
      /\ Len(ast) \in Nat /\ DOMAIN ast = 1 .. Len(ast)
      /\ \A k \in 1 .. Len(ast) : ast[k].len \in Nat
  BY AstType DEF IInv
<1>1. /\ main \in 1 .. Len(ast) /\ i \in 1 .. Len(ast) /\ i < main
      /\ high \in Nat /\ Start \in Nat
  BY <1>0, StartAssumption DEF TypeOK, Place, Loops
<1> DEFINE n == ast[i].len
           base == Start + ast[main].len
<1>2. n \in Nat /\ base \in Nat  BY <1>0, <1>1
<1>3. phase = "place" /\ phase' = "place" /\ Placed = i /\ Placed' = i + 1
  BY DEF Place, Placed
<1>4. ast' = ast /\ main' = main /\ high' = high + n /\ base <= high
  BY <1>0 DEF Place, Loops, InLoops
<1> SUFFICES ASSUME high + n < AddrMod
             PROVE  /\ pos' = high'
                    /\ \A k \in 1 .. i :
                         base + ast[k].len <= func_pos'[k] /\ func_pos'[k] <= high'
                    /\ \A j, k \in 1 .. i :
                         j < k => func_pos'[j] + ast[k].len <= func_pos'[k]
                    /\ func_pos'[i] = high'
  BY <1>1, <1>3, <1>4 DEF Positions
<1>5. high < AddrMod  BY <1>1, <1>2, AddrModAssumption
<1>6. /\ pos = high
      /\ \A k \in 1 .. i - 1 : base + ast[k].len <= func_pos[k] /\ func_pos[k] <= high
      /\ \A j, k \in 1 .. i - 1 : j < k => func_pos[j] + ast[k].len <= func_pos[k]
  BY <1>3, <1>5 DEF IInv, Positions, InLoops
<1>7. pos' = high'
  <2>1. (high + n) % AddrMod = high + n
    <3>1. high + n \in Nat  BY <1>1, <1>2
    <3> QED  BY <3>1, ModSmall
  <2> QED  BY <1>4, <1>6, <2>1 DEF Place
<1>8. /\ func_pos'[i] = high'
      /\ \A k \in 1 .. i - 1 : func_pos'[k] = func_pos[k] /\ func_pos[k] \in Nat
  <2>1. func_pos \in [1 .. Len(ast) -> 0 .. AddrMod - 1]
    BY <1>0, <1>3 DEF TypeOK
  <2>2. func_pos' = [func_pos EXCEPT ![i] = pos']  BY DEF Place
  <2>3. 1 .. i - 1 \subseteq 1 .. Len(ast) /\ i \notin 1 .. i - 1  BY <1>0, <1>1
  <2>4. 0 .. AddrMod - 1 \subseteq Nat  BY AddrModAssumption
  <2> QED  BY <1>1, <1>7, <2>1, <2>2, <2>3, <2>4
<1>9. \A k \in 1 .. i : k = i \/ k \in 1 .. i - 1  BY <1>1
<1> HIDE DEF n, base
<1>10. ASSUME NEW k \in 1 .. i
       PROVE  base + ast[k].len <= func_pos'[k] /\ func_pos'[k] <= high'
  <2>1. CASE k = i
    BY <1>1, <1>2, <1>4, <1>8, <2>1 DEF n
  <2>2. CASE k \in 1 .. i - 1
    BY <1>1, <1>2, <1>4, <1>6, <1>8, <2>2
  <2> QED  BY <1>9, <2>1, <2>2
<1>11. ASSUME NEW j \in 1 .. i, NEW k \in 1 .. i, j < k
       PROVE  func_pos'[j] + ast[k].len <= func_pos'[k]
  <2>1. j \in 1 .. i - 1  BY <1>1, <1>11
  <2>2. CASE k = i
    BY <1>1, <1>2, <1>4, <1>6, <1>8, <2>1, <2>2 DEF n
  <2>3. CASE k \in 1 .. i - 1
    BY <1>6, <1>8, <1>11, <2>1, <2>3
  <2> QED  BY <1>9, <2>2, <2>3
<1> QED  BY <1>7, <1>8, <1>10, <1>11

LEMMA PositionsStep == IInv /\ [Next]_vars => Positions'
<1> SUFFICES ASSUME IInv, [Next]_vars PROVE Positions'
  OBVIOUS
<1>1. CASE Place  BY <1>1, PlacePositions
<1>2. CASE CompiledAll
  <2>1. Placed' = 1 /\ high' \in Nat /\ pos' = high' % AddrMod
    <3>1. TypeOK /\ main \in DOMAIN ast
      BY <1>2, AstType DEF IInv, CompiledAll, TypeOK
    <3>2. ast[main].len \in Nat  BY <3>1, AstType
    <3> QED  BY <1>2, <3>2, StartAssumption, AddrModAssumption DEF CompiledAll, Placed
  <2>2. high' < AddrMod => pos' = high'
    BY <2>1, ModSmall
  <2> QED  BY <2>1, <2>2 DEF Positions
<1>3. CASE StopAtMain
  <2>1. Placed' = Placed  BY <1>3 DEF StopAtMain, Placed
  <2>2. UNCHANGED <<ast, main, pos, func_pos, high>> /\ InLoops
    BY <1>3 DEF StopAtMain, InLoops
  <2> QED  BY <2>1, <2>2 DEF IInv, Positions
<1>4. CASE Write \/ WrittenAll \/ List \/ Listed
  <2>1. Placed' = Placed /\ InLoops
    BY <1>4 DEF Write, WrittenAll, List, Listed, Placed, InLoops
  <2>2. UNCHANGED <<ast, main, pos, func_pos, high>>
    BY <1>4 DEF Write, WrittenAll, List, Listed
  <2> QED  BY <2>1, <2>2 DEF IInv, Positions
<1>5. CASE NoMain \/ FindMain \/ CompileFunction \/ CompileFails
  BY <1>5 DEF NoMain, FindMain, CompileFunction, CompileFails, GiveUp,
              Positions, InLoops
<1>6. CASE UNCHANGED vars
  BY <1>6 DEF vars, IInv, Positions, InLoops, Placed
<1> QED  BY <1>1, <1>2, <1>3, <1>4, <1>5, <1>6 DEF Next
-----------------------------------------------------------------------------
(* Up to main, no cell belongs to two functions, and none is outside of    *)
(* the memory.                                                             *)
Before(j, k) == func_pos[j] + ast[j].len <= func_pos[k]

LEMMA Apart ==
  ASSUME IInv, phase \in {"write", "print", "done"}, Fits, Ascending
  PROVE  /\ \A k \in 1 .. main :
              func_pos[k] \in Nat /\ func_pos[k] + ast[k].len <= AddrMod
         /\ \A j, k \in 1 .. main : j < k => Before(j, k) \/ Before(k, j)
<1>0. /\ TypeOK /\ Loops
      /\ Len(ast) \in Nat /\ DOMAIN ast = 1 .. Len(ast)
      /\ \A k \in 1 .. Len(ast) : ast[k].len \in Nat /\ ast[k].len > 0
  BY AstType DEF IInv, Loops, InLoops
<1>1. /\ func_pos \in [1 .. Len(ast) -> 0 .. AddrMod - 1]
      /\ main \in 1 .. Len(ast) /\ high \in Nat
  BY <1>0 DEF TypeOK
<1>2. \A k \in 1 .. main : k \in 1 .. Len(ast) /\ func_pos[k] \in Nat
  <2>1. 1 .. main \subseteq 1 .. Len(ast)  BY <1>0, <1>1
  <2> QED  BY <1>1, <2>1, AddrModAssumption
<1>3. func_pos[main] = Start /\ Start + ast[main].len <= high /\ Start \in Nat
  BY <1>0, StartAssumption DEF Loops, InLoops
<1>4. CASE main = 1
  <2>1. high <= AddrMod  BY <1>1, <1>4, AddrModAssumption DEF Fits
  <2>2. \A k \in 1 .. main : k = main  BY <1>1, <1>4
  <2>3. func_pos[main] + ast[main].len <= AddrMod
    BY <1>0, <1>1, <1>3, <2>1, AddrModAssumption
  <2>4. \A k \in 1 .. main : func_pos[k] + ast[k].len <= AddrMod
    BY <2>2, <2>3
  <2>5. \A j, k \in 1 .. main : ~(j < k)  BY <1>1, <1>4
  <2> QED  BY <1>2, <2>4, <2>5
<1>5. CASE main > 1
  <2>1. main - 1 \in 1 .. Len(ast)  BY <1>0, <1>1, <1>5
  <2>2. high + ast[main - 1].len <= AddrMod  BY <1>5 DEF Fits
  <2>3. high < AddrMod
    <3>1. ast[main - 1].len \in Nat /\ ast[main - 1].len > 0  BY <1>0, <2>1
    <3>2. high \in Nat  BY <1>1
    <3> QED  BY <2>2, <3>1, <3>2, AddrModAssumption
  <2>4. /\ \A k \in 1 .. main - 1 :
             Start + ast[main].len + ast[k].len <= func_pos[k] /\ func_pos[k] <= high
        /\ \A j, k \in 1 .. main - 1 :
             j < k => func_pos[j] + ast[k].len <= func_pos[k]
    BY <2>3 DEF IInv, Positions, InLoops, Placed
  <2>5. \A k \in 1 .. main : k = main \/ k \in 1 .. main - 1  BY <1>1
  <2>6. ASSUME NEW k \in 1 .. main
        PROVE  func_pos[k] + ast[k].len <= AddrMod
    <3>1. CASE k = main
      BY <1>0, <1>1, <1>2, <1>3, <2>3, <3>1, AddrModAssumption
    <3>2. CASE k \in 1 .. main - 1
      <4>1. ast[k].len <= ast[main - 1].len
        <5>1. k = main - 1 \/ k < main - 1  BY <1>1, <3>2
        <5>2. main - 1 \in 1 .. main - 1  BY <1>1, <1>5
        <5> QED  BY <1>0, <2>1, <3>2, <5>1, <5>2 DEF Ascending
      <4>2. func_pos[k] <= high  BY <2>4, <3>2
      <4>3. ast[k].len \in Nat /\ ast[main - 1].len \in Nat /\ func_pos[k] \in Nat
        BY <1>0, <1>2, <2>1
      <4> HIDE DEF Ascending
      <4> QED  BY SMTT(40), <1>1, <2>2, <4>1, <4>2, <4>3, AddrModAssumption
    <3> QED  BY <2>5, <3>1, <3>2
  <2>7. ASSUME NEW j \in 1 .. main, NEW k \in 1 .. main, j < k
        PROVE  Before(j, k) \/ Before(k, j)
    <3>1. j \in 1 .. main - 1  BY <1>1, <2>7
    <3>2. CASE k = main
      <4>1. Start + ast[main].len + ast[j].len <= func_pos[j]  BY <2>4, <3>1
      <4>2. ast[j].len \in Nat /\ ast[main].len \in Nat /\ func_pos[j] \in Nat
        BY <1>0, <1>1, <1>2
      <4>3. func_pos[main] + ast[main].len <= func_pos[j]
        BY <1>3, <4>1, <4>2
      <4> QED  BY <3>2, <4>3 DEF Before
    <3>3. CASE k \in 1 .. main - 1
      <4>1. ast[j].len <= ast[k].len  BY <2>7, <3>1, <3>3 DEF Ascending
      <4>2. func_pos[j] + ast[k].len <= func_pos[k]  BY <2>4, <2>7, <3>1, <3>3
      <4>3. ast[j].len \in Nat /\ ast[k].len \in Nat /\ func_pos[j] \in Nat
            /\ func_pos[k] \in Nat
        BY <1>0, <1>2
      <4> QED  BY <4>1, <4>2, <4>3 DEF Before
    <3> QED  BY <2>5, <3>2, <3>3
  <2> QED  BY <1>2, <2>6, <2>7
<1> QED  BY <1>1, <1>4, <1>5

(* A function that fits where it was put is stored there, and nowhere else. *)
LEMMA WriteStores ==
  ASSUME TypeOK, Loops, Write, ~wild'
  PROVE  \A a \in 0 .. AddrMod - 1 :
           memory'[a] = IF a \in func_pos[i] .. func_pos[i] + ast[i].len - 1
                        THEN Cell(i, a - func_pos[i]) ELSE memory[a]
<1>0. i \in 1 .. Len(ast) /\ ast[i].len \in Nat /\ func_pos[i] \in Nat
  <2>1. i \in 1 .. Len(ast)  BY AstType DEF Write, Loops, TypeOK
  <2>2. func_pos[i] \in 0 .. AddrMod - 1  BY <2>1, AstType DEF Write, TypeOK
  <2> QED  BY <2>1, <2>2, AstType, AddrModAssumption
<1>1. Overrun \in Int  BY <1>0, AddrModAssumption DEF Overrun
<1>2. ~(Overrun > 0)
  <2>1. wild' = (wild \/ Overrun > 0)  BY DEF Write
  <2> QED  BY <2>1, Zenon
<1>3. \A a \in 0 .. AddrMod - 1 : ~(a < Overrun) /\ ~(a < 8 * Overrun)
  BY <1>1, <1>2, AddrModAssumption
<1>4. \A a \in 0 .. AddrMod - 1 : memory'[a] = Stored(memory)[a]
  BY <1>3 DEF Write, Spoilt
<1> QED  BY <1>4 DEF Stored

(* Writing a function leaves the ones already written alone, unless it     *)
(* stands behind main.                                                     *)
LEMMA WriteKept ==
  ASSUME IInv, Write, Fits, Ascending
  PROVE  /\ i <= main => ~wild'
         /\ ~wild' => \A k \in 1 .. i : k <= main => Spared(k)'
<1>0. /\ TypeOK /\ Loops
      /\ Len(ast) \in Nat /\ DOMAIN ast = 1 .. Len(ast)
      /\ \A k \in 1 .. Len(ast) : ast[k].len \in Nat
  BY AstType DEF IInv
<1>1. /\ phase = "write" /\ i \in 1 .. Len(ast) /\ Written = i
      /\ main \in 1 .. Len(ast)
  BY <1>0 DEF Write, Loops, Written, TypeOK
<1>2. /\ \A k \in 1 .. main :
           func_pos[k] \in Nat /\ func_pos[k] + ast[k].len <= AddrMod
      /\ \A j, k \in 1 .. main : j < k => Before(j, k) \/ Before(k, j)
  BY <1>1, Apart
<1>3. /\ i <= main + 1 => ~wild
      /\ ~wild => \A k \in 1 .. i - 1 : k <= main => Spared(k)
  BY <1>1 DEF IInv, Kept
<1>4. UNCHANGED <<ast, func_pos, main>> /\ wild' = (wild \/ Overrun > 0)
  BY DEF Write
<1>5. func_pos[i] \in Nat
  <2>1. func_pos \in [1 .. Len(ast) -> 0 .. AddrMod - 1]  BY <1>0, <1>1 DEF TypeOK
  <2>2. func_pos[i] \in 0 .. AddrMod - 1  BY <1>1, <2>1
  <2> QED  BY <2>2, AddrModAssumption
<1>6. ASSUME i <= main PROVE ~wild'
  <2>1. i \in 1 .. main /\ i <= main + 1 /\ ast[i].len \in Nat
    BY <1>0, <1>1, <1>6
  <2>2. ~(Overrun > 0)
    BY <1>2, <2>1, AddrModAssumption DEF Overrun
  <2>3. ~wild  BY <1>3, <2>1
  <2> QED  BY <1>4, <2>2, <2>3, Zenon
<1>7. ASSUME ~wild', NEW k \in 1 .. i, k <= main, NEW o \in 0 .. ast[k].len - 1
      PROVE  /\ func_pos[k] + o < AddrMod
             /\ \/ memory'[func_pos[k] + o] = Cell(k, o)
                \/ memory'[func_pos[k] + o].fn > main
  <2>0. /\ k \in 1 .. main /\ ast[k].len \in Nat /\ ast[i].len \in Nat
        /\ o \in Nat /\ o < ast[k].len
        /\ func_pos[k] \in Nat /\ func_pos[k] + ast[k].len <= AddrMod
    <3>1. k \in 1 .. main /\ k \in 1 .. Len(ast)  BY <1>0, <1>1, <1>7
    <3>2. ast[k].len \in Nat /\ ast[i].len \in Nat  BY <1>0, <1>1, <3>1
    <3> QED  BY <1>2, <3>1, <3>2
  <2>1. PICK a \in 0 .. AddrMod - 1 : a = func_pos[k] + o
    BY <2>0, AddrModAssumption
  <2>2. memory'[a] = IF a \in func_pos[i] .. func_pos[i] + ast[i].len - 1
                     THEN Cell(i, a - func_pos[i]) ELSE memory[a]
    BY <1>0, <1>7, WriteStores
  <2> SUFFICES memory'[a] = Cell(k, o) \/ memory'[a].fn > main
    <3>1. a < AddrMod  BY AddrModAssumption
    <3> QED  BY <2>1, <3>1
  <2>3. CASE k = i
    <3>1. a \in func_pos[i] .. func_pos[i] + ast[i].len - 1 /\ a - func_pos[i] = o
      BY <2>0, <2>1, <2>3
    <3> QED  BY <2>2, <2>3, <3>1
  <2>4. CASE k \in 1 .. i - 1 /\ a \notin func_pos[i] .. func_pos[i] + ast[i].len - 1
    <3>1. ~wild  BY <1>4, <1>7, Zenon
    <3>2. memory[a] = Cell(k, o) \/ memory[a].fn > main
      BY <1>3, <1>7, <2>1, <2>4, <3>1 DEF Spared
    <3> QED  BY <2>2, <2>4, <3>2
  <2>5. CASE k \in 1 .. i - 1 /\ a \in func_pos[i] .. func_pos[i] + ast[i].len - 1
    <3>1. ~(i <= main)
      <4> SUFFICES ASSUME i <= main PROVE FALSE
        OBVIOUS
      <4>1. i \in 1 .. main /\ k < i  BY <1>1, <2>5
      <4>2. Before(k, i) \/ Before(i, k)  BY <1>2, <2>0, <4>1
      <4>3. \/ func_pos[k] + ast[k].len <= func_pos[i]
            \/ func_pos[i] + ast[i].len <= func_pos[k]
        BY <4>2 DEF Before
      <4>4. func_pos[i] <= a /\ a <= func_pos[i] + ast[i].len - 1
        BY <1>5, <2>0, <2>5
      <4> QED  BY <1>5, <2>0, <2>1, <4>3, <4>4
    <3>2. memory'[a].fn = i  BY <2>2, <2>5 DEF Cell
    <3> QED  BY <1>1, <3>1, <3>2
  <2>6. k = i \/ k \in 1 .. i - 1  BY <1>1, <1>7
  <2> QED  BY <2>3, <2>4, <2>5, <2>6
<1>8. ~wild' => \A k \in 1 .. i : k <= main => Spared(k)'
  BY <1>4, <1>7 DEF Spared, Cell
<1> QED  BY <1>6, <1>8

LEMMA KeptStep == IInv /\ [Next]_vars => Kept'
<1> SUFFICES ASSUME IInv, [Next]_vars PROVE Kept'
  OBVIOUS
<1>0. TypeOK /\ Loops /\ Kept /\ Len(ast) \in Nat
  BY AstType DEF IInv
<1>1. CASE StopAtMain
  BY <1>0, <1>1 DEF StopAtMain, Kept, Written, Loops
<1>2. CASE Write
  <2>1. UNCHANGED <<ast, phase, main, high>> /\ phase = "write" /\ Written' = i + 1
    BY <1>2 DEF Write, Written
  <2>2. (Fits' <=> Fits) /\ (Ascending' <=> Ascending)
    BY <2>1 DEF Fits, Ascending
  <2>3. Written' - 1 = i /\ (Written' <= main' + 1 <=> i <= main)
    BY <1>0, <2>1 DEF TypeOK
  <2>4. ASSUME Fits, Ascending
        PROVE  /\ i <= main => ~wild'
               /\ ~wild' => \A k \in 1 .. i : k <= main => Spared(k)'
    BY <1>2, <2>4, WriteKept
  <2> QED  BY <2>1, <2>2, <2>3, <2>4 DEF Kept
<1>3. CASE WrittenAll \/ List \/ Listed
  <2>1. UNCHANGED <<ast, main, high, func_pos, memory, wild>> /\ Written' = Written
    <3>1. CASE WrittenAll
      <4>1. i \in 1 .. Len(ast) + 1 /\ i > Len(ast)
        BY <1>0, <3>1 DEF WrittenAll, Loops
      <4>2. i = Len(ast) + 1  BY <1>0, <4>1
      <4> QED  BY <3>1, <4>2 DEF WrittenAll, Written
    <3>2. CASE List \/ Listed  BY <3>2 DEF List, Listed, Written
    <3> QED  BY <1>3, <3>1, <3>2
  <2>2. phase \in {"write", "print", "done"}
    BY <1>3 DEF WrittenAll, List, Listed
  <2> QED
    BY <1>0, <2>1, <2>2 DEF Kept, Fits, Ascending, Spared
<1>4. CASE NoMain \/ FindMain \/ CompileFunction \/ CompileFails \/ CompiledAll \/ Place
  BY <1>4 DEF NoMain, FindMain, CompileFunction, CompileFails, GiveUp, CompiledAll,
              Place, Kept
<1>5. CASE UNCHANGED vars
  BY <1>0, <1>5 DEF vars, Kept, Fits, Ascending, Spared, Written
<1> QED  BY <1>1, <1>2, <1>3, <1>4, <1>5 DEF Next

LEMMA StepIInv == IInv /\ [Next]_vars => IInv'
BY TypeStep, LoopsStep, PositionsStep, KeptStep DEF IInv

-----------------------------------------------------------------------------
(* The state keeps its shape through compile_to_uxn and the listing: the   *)
(* positions stay 16-bit numbers and every cell names a function.          *)
THEOREM LinkTypeCorrect == Spec => []TypeOK
<1>1. IInv => TypeOK  BY DEF IInv
<1> QED  BY InitIInv, StepIInv, <1>1, PTL DEF Spec

(* Whatever the lengths: main and the functions before it, in an order     *)
(* that does not descend, never overwrite each other.  Without the order   *)
(* they do (AllFunctionsWritten), since a gap of a function's own length   *)
(* is left before it and not after it.                                     *)
THEOREM LinkAllIntact == Spec => []AllIntact
<1>1. IInv => AllIntact
  <2> SUFFICES ASSUME IInv, phase \in {"print", "done"}, Fits, Ascending
               PROVE  /\ MainLast => ~wild /\ \A k \in DOMAIN ast : Intact(k)
                      /\ ~wild => \A k \in 1 .. main : Spared(k)
    BY DEF AllIntact
  <2>1. /\ TypeOK /\ Len(ast) \in Nat /\ DOMAIN ast = 1 .. Len(ast)
        /\ \A k \in 1 .. Len(ast) : ast[k].len \in Nat
    BY AstType DEF IInv
  <2>2. main \in 1 .. Len(ast) /\ Written = Len(ast) + 1 /\ Written - 1 = Len(ast)
    BY <2>1 DEF Written, TypeOK
  <2>3. /\ Len(ast) + 1 <= main + 1 => ~wild
        /\ ~wild => \A k \in 1 .. Len(ast) : k <= main => Spared(k)
    BY <2>2 DEF IInv, Kept
  <2>4. ~wild => \A k \in 1 .. main : Spared(k)
    BY <2>1, <2>2, <2>3
  <2>5. ASSUME MainLast PROVE ~wild /\ \A k \in DOMAIN ast : Intact(k)
    <3>1. ~wild /\ \A k \in 1 .. Len(ast) : Spared(k)
      BY <2>1, <2>3, <2>4, <2>5 DEF MainLast
    <3>2. ASSUME NEW k \in 1 .. Len(ast), NEW o \in 0 .. ast[k].len - 1
          PROVE  func_pos[k] + o < AddrMod /\ memory[func_pos[k] + o] = Cell(k, o)
      <4>1. /\ func_pos[k] + o < AddrMod
            /\ \/ memory[func_pos[k] + o] = Cell(k, o)
               \/ memory[func_pos[k] + o].fn > main
        BY <3>1 DEF Spared
      <4>2. func_pos[k] \in 0 .. AddrMod - 1  BY <2>1 DEF TypeOK
      <4>3. func_pos[k] + o \in 0 .. AddrMod - 1
        BY <2>1, <4>1, <4>2, AddrModAssumption
      <4>4. memory[func_pos[k] + o].fn \in 0 .. Len(ast)  BY <2>1, <4>3 DEF TypeOK
      <4> QED  BY <2>1, <2>5, <4>1, <4>4 DEF MainLast
    <3> QED  BY <2>1, <3>1, <3>2 DEF Intact
  <2> QED  BY <2>4, <2>5
<1> QED  BY InitIInv, StepIInv, <1>1, PTL DEF Spec
-----------------------------------------------------------------------------
(* Who owns what, exactly: phase by phase, the tree and the two arrays,    *)
(* the code compiled and not yet written, and the layouts.                 *)
Owned ==
  /\ phase = "search" => main = 0 /\ heap = {Whole("ast")}
  /\ phase = "compile" =>
       heap = {Whole("ast")} \union Arrays \union CodeOf(i - 1) \union LayoutsOf(i - 1)
  /\ phase = "place" =>
       heap = {Whole("ast")} \union Arrays \union CodeOf(Len(ast)) \union LayoutsOf(Len(ast))
  /\ phase = "write" =>
       heap = {Whole("ast")} \union Arrays \union (CodeOf(Len(ast)) \ CodeOf(i - 1))
                \union LayoutsOf(Len(ast))
  /\ phase \in {"print", "done"} =>
       heap = {Whole("program")} \union LayoutsOf(Len(ast))
  /\ phase = "failed" =>
       heap = IF main = 0 THEN {} ELSE Arrays \union CodeOf(i - 1) \union LayoutsOf(i)

(* What blocks are, and that they tell each other apart.                   *)
LEMMA Kinds ==
  ASSUME NEW n
  PROVE  /\ \A b \in CodeOf(n) : b.kind = "code"
         /\ \A b \in LayoutsOf(n) : b.kind = "layout"
         /\ \A b \in Arrays : b.kind \in {"func_binary", "func_pos"}
         /\ \A b, f : Block(b, f).kind = b /\ Whole(b).kind = b
  BY DEF CodeOf, LayoutsOf, Layout, Arrays, Whole, Block

(* One function more.                                                      *)
LEMMA OneMore ==
  ASSUME NEW n \in Nat, n > 0
  PROVE  /\ CodeOf(n) = CodeOf(n - 1) \union {Block("code", n)}
         /\ LayoutsOf(n) = LayoutsOf(n - 1) \union Layout(n)
<1>1. 1 .. n = (1 .. n - 1) \union {n}  OBVIOUS
<1>2. CodeOf(n) = CodeOf(n - 1) \union {Block("code", n)}  BY <1>1 DEF CodeOf
<1>3. LayoutsOf(n) = LayoutsOf(n - 1) \union Layout(n)  BY <1>1 DEF LayoutsOf
<1> QED  BY <1>2, <1>3

LEMMA None == CodeOf(0) = {} /\ LayoutsOf(0) = {}
<1>1. 1 .. 0 = {}  OBVIOUS
<1> QED  BY <1>1 DEF CodeOf, LayoutsOf

(* The blocks of a list of functions are told by the list alone.           *)
LEMMA SameBlocks ==
  ASSUME ast' = ast, NEW n
  PROVE  CodeOf(n)' = CodeOf(n) /\ LayoutsOf(n)' = LayoutsOf(n) /\ Arrays' = Arrays
  BY DEF CodeOf, LayoutsOf, Layout, Arrays

LEMMA OwnedStep == TypeOK /\ Loops /\ Owned /\ [Next]_vars => Owned'
<1> SUFFICES ASSUME TypeOK, Loops, Owned, [Next]_vars PROVE Owned'
  OBVIOUS
<1>0. Len(ast) \in Nat  BY AstType
<1>s. ast' = ast
  BY DEF Next, vars, NoMain, FindMain, CompileFunction, CompileFails, CompiledAll, Place,
         StopAtMain, Write, WrittenAll, List, Listed, GiveUp
<1>t. /\ \A n : CodeOf(n)' = CodeOf(n) /\ LayoutsOf(n)' = LayoutsOf(n)
      /\ Arrays' = Arrays
  BY <1>s, SameBlocks
<1>1. CASE NoMain
  <2>1. phase = "search" /\ phase' = "failed" /\ main' = main /\ heap' = heap \ {Whole("ast")}
    BY <1>1 DEF NoMain, GiveUp
  <2>2. main' = 0 /\ heap' = {}  BY <2>1 DEF Owned
  <2> QED  BY <2>1, <2>2 DEF Owned
<1>2. CASE FindMain
  <2>1. phase = "search" /\ phase' = "compile" /\ i' = i /\ heap' = heap \union Arrays
    BY <1>2 DEF FindMain, Arrays
  <2>2. i = 1  BY <2>1 DEF Loops
  <2>3. heap' = {Whole("ast")} \union Arrays \union CodeOf(0) \union LayoutsOf(0)
    BY <2>1, None DEF Owned
  <2>4. i' - 1 = 0  BY <2>1, <2>2
  <2> QED  BY <1>t, <2>1, <2>3, <2>4 DEF Owned
<1>3. CASE CompileFunction
  <2>1. i \in Nat /\ i > 0  BY <1>0, <1>3 DEF CompileFunction, Loops
  <2>2. /\ phase = "compile" /\ phase' = "compile" /\ i' = i + 1
        /\ heap' = heap \union {Block("code", i)} \union Layout(i)
    BY <1>3 DEF CompileFunction
  <2>3. heap' = {Whole("ast")} \union Arrays \union CodeOf(i) \union LayoutsOf(i)
    BY <2>1, <2>2, OneMore DEF Owned
  <2>4. i' - 1 = i  BY <2>1, <2>2
  <2> QED  BY <1>t, <2>2, <2>3, <2>4 DEF Owned
<1>4. CASE CompileFails
  <2>1. i \in Nat /\ i > 0  BY <1>0, <1>4 DEF CompileFails, Loops
  <2>2. /\ phase = "compile" /\ phase' = "failed" /\ i' = i /\ main' = main
        /\ heap' = (heap \ {Whole("ast")}) \union Layout(i)
    BY <1>4 DEF CompileFails, GiveUp
  <2>3. main # 0  BY <2>2 DEF TypeOK
  <2>4. heap = {Whole("ast")} \union Arrays \union CodeOf(i - 1) \union LayoutsOf(i - 1)
    BY <2>2 DEF Owned
  <2>5. Whole("ast") \notin Arrays \union CodeOf(i - 1) \union LayoutsOf(i - 1)
    BY Kinds
  <2>6. heap' = Arrays \union CodeOf(i - 1) \union LayoutsOf(i)
    BY <2>1, <2>2, <2>4, <2>5, OneMore
  <2> QED  BY <1>t, <2>2, <2>3, <2>6 DEF Owned
<1>5. CASE CompiledAll
  <2>1. /\ phase = "compile" /\ phase' = "place" /\ heap' = heap /\ i > Len(ast)
    BY <1>5 DEF CompiledAll
  <2>2. i - 1 = Len(ast)  BY <1>0, <2>1 DEF Loops
  <2>3. heap' = {Whole("ast")} \union Arrays \union CodeOf(Len(ast)) \union LayoutsOf(Len(ast))
    BY <2>1, <2>2 DEF Owned
  <2> QED  BY <1>s, <1>t, <2>1, <2>3 DEF Owned
<1>6. CASE Place
  <2>1. phase = "place" /\ phase' = "place" /\ heap' = heap  BY <1>6 DEF Place
  <2> QED  BY <1>s, <1>t, <2>1 DEF Owned
<1>7. CASE StopAtMain
  <2>1. phase = "place" /\ phase' = "write" /\ i' = 1 /\ heap' = heap
    BY <1>7 DEF StopAtMain
  <2>2. i' - 1 = 0  BY <2>1
  <2>3. CodeOf(Len(ast)) \ CodeOf(0) = CodeOf(Len(ast))  BY None
  <2> QED  BY <1>s, <1>t, <2>1, <2>2, <2>3 DEF Owned
<1>8. CASE Write
  <2>1. /\ phase = "write" /\ phase' = "write" /\ i \in Nat /\ i > 0 /\ i' = i + 1
        /\ heap' = heap \ {Block("code", i)}
    BY <1>0, <1>8 DEF Write, Loops
  <2>2. Block("code", i) \notin {Whole("ast")} \union Arrays \union LayoutsOf(Len(ast))
    BY Kinds
  <2>3. CodeOf(i) = CodeOf(i - 1) \union {Block("code", i)}  BY <2>1, OneMore
  <2>4. heap' = {Whole("ast")} \union Arrays \union (CodeOf(Len(ast)) \ CodeOf(i))
                  \union LayoutsOf(Len(ast))
    BY <2>1, <2>2, <2>3 DEF Owned
  <2>5. i' - 1 = i  BY <2>1
  <2> QED  BY <1>s, <1>t, <2>1, <2>4, <2>5 DEF Owned
<1>9. CASE WrittenAll
  <2>1. /\ phase = "write" /\ phase' = "print" /\ i > Len(ast)
        /\ heap' = (heap \ (Arrays \union {Whole("ast")})) \union {Whole("program")}
    BY <1>9 DEF WrittenAll, Arrays
  <2>2. i - 1 = Len(ast)  BY <1>0, <2>1 DEF Loops
  <2>3. heap = {Whole("ast")} \union Arrays \union LayoutsOf(Len(ast))
    BY <2>1, <2>2 DEF Owned
  <2>4. /\ Whole("ast") \notin LayoutsOf(Len(ast))
        /\ \A b \in Arrays : b \notin LayoutsOf(Len(ast))
    BY Kinds
  <2>5. heap' = {Whole("program")} \union LayoutsOf(Len(ast))  BY <2>1, <2>3, <2>4
  <2> QED  BY <1>s, <1>t, <2>1, <2>5 DEF Owned
<1>10. CASE List \/ Listed
  <2>1. phase = "print" /\ phase' \in {"print", "done"} /\ heap' = heap
    BY <1>10 DEF List, Listed
  <2> QED  BY <1>s, <1>t, <2>1 DEF Owned
<1>11. CASE UNCHANGED vars
  <2>1. UNCHANGED <<phase, main, i, heap>>  BY <1>11 DEF vars
  <2> QED  BY <1>s, <1>t, <2>1 DEF Owned
<1> QED
  BY <1>1, <1>2, <1>3, <1>4, <1>5, <1>6, <1>7, <1>8, <1>9, <1>10, <1>11 DEF Next

(* What is left allocated on every way out of compile_to_uxn, for every    *)
(* list of functions and every function that fails: exactly the layouts    *)
(* beside a program, and exactly the arrays, the code compiled so far and  *)
(* the layouts after a failure.                                            *)
THEOREM LinkExitOwnership == Spec => []ExitOwnership
<1>1. Init => Owned  BY DEF Init, Owned
<1>2. IInv /\ Owned /\ [Next]_vars => Owned'  BY OwnedStep DEF IInv
<1>3. Owned => ExitOwnership  BY DEF Owned, ExitOwnership
<1> QED  BY InitIInv, StepIInv, <1>1, <1>2, <1>3, PTL DEF Spec
-----------------------------------------------------------------------------
(***************************************************************************)
(* The order in which the functions are listed, and so run.                *)
(***************************************************************************)
Laid == phase \in {"write", "print", "done"}

(* Where function k is put.                                                *)
Slot(k) == func_pos[k] .. func_pos[k] + ast[k].len - 1

(* A cell that is not empty is where its function was put, and was written *)
(* from there.                                                             *)
From(k, a) == a \in Slot(k) /\ memory[a] = Cell(k, a - func_pos[k])

Sourced ==
  /\ phase \in {"search", "compile", "place"} =>
       \A a \in 0 .. AddrMod - 1 : memory[a] = Empty
  /\ Laid /\ ~wild =>
       \A a \in 0 .. AddrMod - 1 :
         memory[a] # Empty => \E k \in 1 .. Written - 1 : From(k, a)

(* The last function is still whole when all are written.                  *)
MainStands ==
  Laid /\ ~wild /\ MainLast /\ Written = Len(ast) + 1 =>
    /\ Start + ast[main].len <= AddrMod
    /\ \A a \in Slot(main) : From(main, a)

(* What is listed when the cells before i have been gone through: as many  *)
(* cells of main as there were, and nothing before them.                   *)
Cells == [fn : Nat, off : Nat]

Neat == MainLast /\ Fits /\ ~wild

MainFirst ==
  phase \in {"print", "done"} /\ Neat =>
    /\ i \in 0 .. AddrMod /\ (phase = "done" => i = AddrMod)
    /\ listing \in Seq(Cells)
    /\ i <= Start => listing = <<>>
    /\ i >= Start /\ i <= Start + ast[main].len => Len(listing) = i - Start
    /\ \A k \in 1 .. ast[main].len :
         Start + k <= i => k <= Len(listing) /\ listing[k] = Cell(main, k - 1)

(* Every cell is listed behind the one before it, and the last one listed  *)
(* is the last one there is before i.                                      *)
LastBefore(b, n) ==
  memory[b] # Empty /\ \A a \in b + 1 .. n - 1 : memory[a] = Empty

InTurn ==
  phase \in {"print", "done"} /\ Neat /\ Ascending =>
    /\ \A k \in 1 .. Len(listing) - 1 : listing[k + 1] = Behind(listing[k])
    /\ listing # <<>> =>
         \E b \in 0 .. i - 1 :
           LastBefore(b, i) /\ memory[b] = listing[Len(listing)]

(* Nothing is listed before.                                               *)
NothingListed == phase \notin {"print", "done"} => listing = <<>>

LInv == IInv /\ Sourced /\ MainStands /\ NothingListed /\ MainFirst /\ InTurn

-----------------------------------------------------------------------------
(* Facts about the numbers used throughout.                                *)
LEMMA Numbers ==
  ASSUME TypeOK, phase \in {"write", "print", "done"}
  PROVE  /\ AddrMod \in Nat /\ Start \in Nat /\ Len(ast) \in Nat
         /\ main \in 1 .. Len(ast)
         /\ DOMAIN ast = 1 .. Len(ast)
         /\ \A k \in 1 .. Len(ast) : ast[k].len \in Nat /\ func_pos[k] \in Nat
<1>1. /\ Len(ast) \in Nat /\ DOMAIN ast = 1 .. Len(ast)
      /\ \A k \in 1 .. Len(ast) : ast[k].len \in Nat
  BY AstType
<1>2. func_pos \in [1 .. Len(ast) -> 0 .. AddrMod - 1] /\ main \in 1 .. Len(ast)
  BY <1>1 DEF TypeOK
<1>3. \A k \in 1 .. Len(ast) : func_pos[k] \in Nat
  BY <1>2, AddrModAssumption
<1> QED  BY <1>1, <1>2, <1>3, AddrModAssumption, StartAssumption

(* Where the functions stand when main is the last one and nothing wraps.  *)
LEMMA Places ==
  ASSUME IInv, Laid, MainLast, Fits
  PROVE  /\ func_pos[main] = Start
         /\ \A k \in 1 .. Len(ast) : ast[k].len > 0
         /\ \A k \in 1 .. main - 1 :
              Start + ast[main].len + ast[k].len <= func_pos[k]
         /\ \A j, k \in 1 .. main - 1 :
              j < k => func_pos[j] + ast[k].len <= func_pos[k]
<1>0. phase \in {"write", "print", "done"} /\ TypeOK /\ Loops /\ Positions
  BY DEF Laid, IInv
<1>1. /\ Len(ast) \in Nat /\ AddrMod \in Nat /\ main \in 1 .. Len(ast)
      /\ \A k \in 1 .. Len(ast) : ast[k].len \in Nat
  BY <1>0, Numbers
<1>2. func_pos[main] = Start /\ \A k \in 1 .. Len(ast) : ast[k].len > 0
  BY <1>0 DEF Loops, InLoops
<1>3. CASE main = 1
  <2>1. 1 .. main - 1 = {}  BY <1>3
  <2> QED  BY <1>2, <2>1
<1>4. CASE main > 1
  <2>1. main - 1 \in 1 .. Len(ast)  BY <1>1, <1>4
  <2>2. high + ast[main - 1].len <= AddrMod  BY <1>4 DEF Fits
  <2>3. ast[main - 1].len \in Nat /\ ast[main - 1].len > 0 /\ high \in Nat
    BY <1>0, <1>1, <1>2, <2>1 DEF TypeOK
  <2>4. high < AddrMod  BY <1>1, <2>2, <2>3
  <2>5. InLoops /\ Placed = main  BY <1>0 DEF InLoops, Placed
  <2> QED  BY <1>0, <1>2, <2>4, <2>5 DEF Positions
<1> QED  BY <1>1, <1>3, <1>4

(* Everything is intact then, if the lengths do not descend either.        *)
LEMMA AllThere ==
  ASSUME IInv, phase \in {"print", "done"}, Neat, Ascending
  PROVE  \A k \in 1 .. Len(ast) : \A a \in Slot(k) : a < AddrMod /\ From(k, a)
<1>0. /\ TypeOK /\ Kept /\ Len(ast) \in Nat /\ AddrMod \in Nat
      /\ main = Len(ast) /\ ~wild /\ Fits
      /\ \A k \in 1 .. Len(ast) : ast[k].len \in Nat /\ func_pos[k] \in Nat
  BY Numbers DEF IInv, Neat, MainLast
<1>1. Written = Len(ast) + 1 /\ Written - 1 = Len(ast)
  BY <1>0 DEF Written
<1>2. \A k \in 1 .. Len(ast) : Spared(k)
  BY <1>0, <1>1 DEF Kept
<1> SUFFICES ASSUME NEW k \in 1 .. Len(ast), NEW a \in Slot(k)
             PROVE  a < AddrMod /\ memory[a] = Cell(k, a - func_pos[k])
  BY DEF From
<1>3. PICK o \in 0 .. ast[k].len - 1 : a = func_pos[k] + o
  <2>1. a - func_pos[k] \in 0 .. ast[k].len - 1 /\ a = func_pos[k] + (a - func_pos[k])
    BY <1>0 DEF Slot
  <2> QED  BY <2>1
<1>4. /\ a < AddrMod /\ a \in 0 .. AddrMod - 1 /\ o = a - func_pos[k]
      /\ memory[a] = Cell(k, o) \/ memory[a].fn > main
  BY <1>0, <1>2, <1>3 DEF Spared
<1>5. memory[a].fn \in 0 .. Len(ast)  BY <1>4 DEF IInv, TypeOK
<1> QED  BY <1>0, <1>4, <1>5

-----------------------------------------------------------------------------
LEMMA SourcedStep == IInv /\ Sourced /\ [Next]_vars => Sourced'
<1> SUFFICES ASSUME IInv, Sourced, [Next]_vars PROVE Sourced'
  OBVIOUS
<1>0. TypeOK /\ Loops /\ Len(ast) \in Nat  BY AstType DEF IInv
<1>1. CASE NoMain \/ FindMain \/ CompileFunction \/ CompileFails \/ CompiledAll \/ Place
  BY <1>1 DEF NoMain, FindMain, CompileFunction, CompileFails, GiveUp, CompiledAll,
              Place, Sourced, Laid
<1>2. CASE StopAtMain
  BY <1>2 DEF StopAtMain, Sourced, Laid
<1>3. CASE Write
  <2>1. /\ phase = "write" /\ UNCHANGED <<ast, phase, func_pos>>
        /\ Written = i /\ Written' = i + 1 /\ i \in 1 .. Len(ast)
        /\ wild' = (wild \/ Overrun > 0)
    BY <1>0, <1>3 DEF Write, Written, Loops
  <2> SUFFICES ASSUME ~wild', NEW a \in 0 .. AddrMod - 1, memory'[a] # Empty
               PROVE  \E k \in 1 .. i : From(k, a)'
    <3>1. Written' - 1 = i  BY <2>1
    <3> QED  BY <2>1, <3>1 DEF Sourced, Laid
  <2>2. memory'[a] = IF a \in Slot(i) THEN Cell(i, a - func_pos[i]) ELSE memory[a]
    BY <1>0, <1>3, WriteStores DEF Slot
  <2>3. CASE a \in Slot(i)
    <3>1. PICK k \in 1 .. i : k = i  BY <2>1
    <3>2. From(k, a)'  BY <2>1, <2>2, <2>3, <3>1 DEF From, Slot
    <3> QED  BY <3>2
  <2>4. CASE a \notin Slot(i)
    <3>1. ~wild  BY <2>1, Zenon
    <3>2. PICK k \in 1 .. i - 1 : From(k, a)
      BY <2>1, <2>2, <2>4, <3>1 DEF Sourced, Laid
    <3>3. From(k, a)'  BY <2>1, <2>2, <2>4, <3>2 DEF From, Slot, Cell
    <3>4. k \in 1 .. i  BY <2>1
    <3> QED  BY <3>3, <3>4
  <2> QED  BY <2>3, <2>4
<1>4. CASE WrittenAll \/ List \/ Listed
  <2>1. UNCHANGED <<ast, func_pos, memory, wild>> /\ Laid /\ Written' = Written
    <3>1. CASE WrittenAll
      <4>1. i \in 1 .. Len(ast) + 1 /\ i > Len(ast)
        BY <1>0, <3>1 DEF WrittenAll, Loops
      <4>2. i = Len(ast) + 1  BY <1>0, <4>1
      <4> QED  BY <3>1, <4>2 DEF WrittenAll, Written, Laid
    <3>2. CASE List \/ Listed  BY <3>2 DEF List, Listed, Written, Laid
    <3> QED  BY <1>4, <3>1, <3>2
  <2>2. phase' \notin {"search", "compile", "place"}
    BY <1>4 DEF WrittenAll, List, Listed
  <2> QED  BY <2>1, <2>2 DEF Sourced, From, Slot
<1>5. CASE UNCHANGED vars
  BY <1>5 DEF vars, Sourced, Laid, From, Slot, Written
<1> QED  BY <1>1, <1>2, <1>3, <1>4, <1>5 DEF Next

LEMMA MainStandsStep == IInv /\ MainStands /\ [Next]_vars => MainStands'
<1> SUFFICES ASSUME IInv, MainStands, [Next]_vars PROVE MainStands'
  OBVIOUS
<1>0. TypeOK /\ Loops /\ Len(ast) \in Nat  BY AstType DEF IInv
<1>1. CASE NoMain \/ FindMain \/ CompileFunction \/ CompileFails \/ CompiledAll \/ Place
  BY <1>1 DEF NoMain, FindMain, CompileFunction, CompileFails, GiveUp, CompiledAll,
              Place, MainStands, Laid
<1>2. CASE StopAtMain
  <2>1. Written' = 1 /\ Len(ast)' # 0
    BY <1>0, <1>2 DEF StopAtMain, Written, TypeOK
  <2> QED  BY <1>0, <1>2, <2>1 DEF StopAtMain, MainStands
<1>3. CASE Write
  <2>1. /\ phase = "write" /\ UNCHANGED <<ast, phase, func_pos, main>>
        /\ Written' = i + 1 /\ i \in 1 .. Len(ast)
        /\ wild' = (wild \/ Overrun > 0)
    BY <1>0, <1>3 DEF Write, Written, Loops
  <2> SUFFICES ASSUME ~wild', main = Len(ast), i = Len(ast)
               PROVE  /\ Start + ast[main].len <= AddrMod
                      /\ \A a \in Slot(main) :
                           memory'[a] = Cell(main, a - func_pos[main])
    BY <1>0, <2>1 DEF MainStands, MainLast, From, Slot
  <2>2. func_pos[main] = Start  BY <1>0, <2>1 DEF Loops
  <2>3. Start \in Nat /\ AddrMod \in Nat /\ ast[main].len \in Nat
    BY <1>0, <2>1, Numbers
  <2>4. Start + ast[main].len <= AddrMod
    <3>1. ~(Overrun > 0)  BY <2>1, Zenon
    <3> QED  BY <2>2, <2>3, <3>1 DEF Overrun
  <2>5. Slot(main) \subseteq 0 .. AddrMod - 1  BY <2>2, <2>3, <2>4 DEF Slot
  <2> QED  BY <1>0, <1>3, <2>4, <2>5, WriteStores DEF Slot
<1>4. CASE WrittenAll \/ List \/ Listed
  <2>1. UNCHANGED <<ast, main, func_pos, memory, wild>> /\ Laid /\ Written' = Written
    <3>1. CASE WrittenAll
      <4>1. i \in 1 .. Len(ast) + 1 /\ i > Len(ast)
        BY <1>0, <3>1 DEF WrittenAll, Loops
      <4>2. i = Len(ast) + 1  BY <1>0, <4>1
      <4> QED  BY <3>1, <4>2 DEF WrittenAll, Written, Laid
    <3>2. CASE List \/ Listed  BY <3>2 DEF List, Listed, Written, Laid
    <3> QED  BY <1>4, <3>1, <3>2
  <2> QED  BY <2>1 DEF MainStands, MainLast, From, Slot
<1>5. CASE UNCHANGED vars
  BY <1>5 DEF vars, MainStands, MainLast, Laid, From, Slot, Written
<1> QED  BY <1>1, <1>2, <1>3, <1>4, <1>5 DEF Next

-----------------------------------------------------------------------------
(* What is in the memory while it is listed: nothing below main, main, and *)
(* then the cells of other functions.                                      *)
LEMMA MemoryIs ==
  ASSUME IInv, Sourced, MainStands, phase \in {"print", "done"}, Neat
  PROVE  /\ Start + ast[main].len <= AddrMod
         /\ \A a \in 0 .. Start - 1 : memory[a] = Empty
         /\ \A a \in Slot(main) : memory[a] = Cell(main, a - Start)
         /\ \A a \in 0 .. AddrMod - 1 :
              memory[a] # Empty => \E k \in 1 .. Len(ast) : From(k, a)
         /\ \A a \in 0 .. AddrMod - 1 : memory[a] \in Cells
<1>0. /\ AddrMod \in Nat /\ Start \in Nat /\ Len(ast) \in Nat
      /\ main \in 1 .. Len(ast) /\ main = Len(ast)
      /\ \A k \in 1 .. Len(ast) : ast[k].len \in Nat /\ func_pos[k] \in Nat
      /\ Laid /\ ~wild /\ MainLast /\ Fits
  BY Numbers DEF IInv, Neat, MainLast, Laid
<1>1. Written = Len(ast) + 1 /\ Written - 1 = Len(ast)
  BY <1>0 DEF Written
<1>2. /\ func_pos[main] = Start
      /\ \A k \in 1 .. main - 1 : Start + ast[main].len + ast[k].len <= func_pos[k]
  BY <1>0, Places
<1>3. \A a \in 0 .. AddrMod - 1 :
        memory[a] # Empty => \E k \in 1 .. Len(ast) : From(k, a)
  BY <1>0, <1>1 DEF Sourced
<1>4. /\ Start + ast[main].len <= AddrMod
      /\ \A a \in Slot(main) : memory[a] = Cell(main, a - Start)
  BY <1>0, <1>1, <1>2 DEF MainStands, From
<1>5. ASSUME NEW a \in 0 .. Start - 1, memory[a] # Empty PROVE FALSE
  <2>1. a \in 0 .. AddrMod - 1  BY <1>0, StartAssumption
  <2>2. PICK k \in 1 .. Len(ast) : a \in Slot(k)  BY <1>3, <1>5, <2>1 DEF From
  <2>3. func_pos[k] >= Start
    <3>1. k = main \/ k \in 1 .. main - 1  BY <1>0
    <3>2. ast[k].len \in Nat /\ ast[main].len \in Nat /\ func_pos[k] \in Nat  BY <1>0
    <3> QED  BY <1>0, <1>2, <3>1, <3>2
  <2> QED  BY <1>0, <2>2, <2>3 DEF Slot
<1>6. ASSUME NEW a \in 0 .. AddrMod - 1
      PROVE  memory[a] \in Cells
  <2>1. CASE memory[a] = Empty  BY <2>1 DEF Empty, Cells
  <2>2. CASE memory[a] # Empty
    <3>1. PICK k \in 1 .. Len(ast) : From(k, a)  BY <1>3, <2>2
    <3>2. k \in Nat /\ a - func_pos[k] \in Nat
      BY <1>0, <3>1 DEF From, Slot
    <3> QED  BY <3>1, <3>2 DEF From, Cell, Cells
  <2> QED  BY <2>1, <2>2
<1> QED  BY <1>3, <1>4, <1>5, <1>6

LEMMA MainFirstStep ==
  IInv /\ Sourced /\ MainStands /\ NothingListed /\ MainFirst /\ [Next]_vars
  => MainFirst'
<1> SUFFICES ASSUME IInv, Sourced, MainStands, NothingListed, MainFirst, [Next]_vars
             PROVE  MainFirst'
  OBVIOUS
<1>0. TypeOK /\ Loops  BY DEF IInv
<1>1. CASE NoMain \/ FindMain \/ CompileFunction \/ CompileFails \/ CompiledAll \/ Place
           \/ StopAtMain \/ Write
  BY <1>1 DEF NoMain, FindMain, CompileFunction, CompileFails, GiveUp, CompiledAll,
              Place, StopAtMain, Write, MainFirst
<1>2. CASE WrittenAll
  <2>1. phase' = "print" /\ i' = 0 /\ listing' = <<>> /\ UNCHANGED <<ast, main>>
    BY <1>2 DEF WrittenAll, NothingListed
  <2>2. AddrMod \in Nat /\ Start \in Nat /\ ast[main].len \in Nat
    <3>1. phase = "write"  BY <1>2 DEF WrittenAll
    <3> QED  BY <1>0, <3>1, Numbers
  <2>3. 0 \in 0 .. AddrMod /\ Len(<<>>) = 0  BY <2>2
  <2>4. <<>> \in Seq(Cells)  OBVIOUS
  <2>5. 0 >= Start => 0 = 0 - Start  BY <2>2
  <2>6. \A k \in 1 .. ast[main].len : ~(Start + k <= 0)  BY <2>2
  <2> QED  BY <2>1, <2>3, <2>4, <2>5, <2>6 DEF MainFirst
<1>3. CASE List
  <2>0. /\ phase = "print" /\ phase' = "print" /\ i < AddrMod /\ i' = i + 1
        /\ UNCHANGED <<ast, main, high, wild, memory>>
        /\ listing' = IF memory[i] = Empty THEN listing ELSE Append(listing, memory[i])
    BY <1>3 DEF List
  <2>keep. /\ phase' = "print" /\ i' = i + 1 /\ ast' = ast /\ main' = main
         /\ Neat' = Neat
    BY <2>0 DEF Neat, MainLast, Fits
  <2> SUFFICES ASSUME Neat
               PROVE  /\ i + 1 \in 0 .. AddrMod
                      /\ listing' \in Seq(Cells)
                      /\ i + 1 <= Start => listing' = <<>>
                      /\ i + 1 >= Start /\ i + 1 <= Start + ast[main].len =>
                           Len(listing') = (i + 1) - Start
                      /\ \A k \in 1 .. ast[main].len :
                           Start + k <= i + 1 =>
                             k <= Len(listing') /\ listing'[k] = Cell(main, k - 1)
    BY <2>keep DEF MainFirst, Cell
  <2>1. /\ i \in 0 .. AddrMod
        /\ listing \in Seq(Cells)
        /\ i <= Start => listing = <<>>
        /\ i >= Start /\ i <= Start + ast[main].len => Len(listing) = i - Start
        /\ \A k \in 1 .. ast[main].len :
             Start + k <= i => k <= Len(listing) /\ listing[k] = Cell(main, k - 1)
    BY <2>0 DEF MainFirst
  <2>2. /\ AddrMod \in Nat /\ Start \in Nat /\ main \in 1 .. Len(ast)
        /\ ast[main].len \in Nat /\ func_pos[main] = Start
    BY <1>0, <2>0, Numbers DEF Loops
  <2>3. /\ i \in 0 .. AddrMod - 1
        /\ memory[i] \in Cells
        /\ i < Start => memory[i] = Empty
        /\ i >= Start /\ i < Start + ast[main].len => memory[i] = Cell(main, i - Start)
    <3>1. i \in 0 .. AddrMod - 1  BY <2>0, <2>1, <2>2
    <3>2. i >= Start /\ i < Start + ast[main].len => i \in Slot(main)
      BY <2>2, <3>1 DEF Slot
    <3>3. /\ \A a \in 0 .. Start - 1 : memory[a] = Empty
          /\ \A a \in Slot(main) : memory[a] = Cell(main, a - Start)
          /\ \A a \in 0 .. AddrMod - 1 : memory[a] \in Cells
      BY <2>0, MemoryIs
    <3>4. i < Start => i \in 0 .. Start - 1  BY <2>2, <3>1
    <3>5. memory[i] \in Cells  BY <3>1, <3>3
    <3>6. i < Start => memory[i] = Empty  BY <3>3, <3>4
    <3>7. i >= Start /\ i < Start + ast[main].len => memory[i] = Cell(main, i - Start)
      BY <3>2, <3>3
    <3> QED  BY <3>1, <3>5, <3>6, <3>7
  <2>4. listing' \in Seq(Cells)
    <3>1. CASE memory[i] = Empty  BY <2>0, <2>1, <3>1
    <3>2. CASE memory[i] # Empty  BY <2>0, <2>1, <2>3, <3>2
    <3> QED  BY <3>1, <3>2
  <2>5. i + 1 \in 0 .. AddrMod  BY <2>2, <2>3
  <2>6. CASE i < Start
    <3>1. listing' = <<>>  BY <2>0, <2>1, <2>2, <2>3, <2>6
    <3>2. \A k \in 1 .. ast[main].len : ~(Start + k <= i + 1)  BY <2>2, <2>3, <2>6
    <3>3. i + 1 >= Start => (i + 1) - Start = 0  BY <2>2, <2>3, <2>6
    <3>4. Len(listing') = 0  BY <3>1
    <3> QED  BY <2>4, <2>5, <3>1, <3>2, <3>3, <3>4
  <2>7. CASE i >= Start /\ i < Start + ast[main].len
    <3>1. memory[i] # Empty
      BY <2>2, <2>3, <2>7 DEF Cell, Empty
    <3>2. listing' = Append(listing, Cell(main, i - Start)) /\ Len(listing) = i - Start
      BY <2>0, <2>1, <2>2, <2>3, <2>7, <3>1
    <3>3. Len(listing') = (i + 1) - Start
      <4>1. Len(listing') = Len(listing) + 1  BY <2>1, <3>2
      <4> QED  BY <2>2, <2>3, <3>2, <4>1
    <3>4. ASSUME NEW k \in 1 .. ast[main].len, Start + k <= i + 1
          PROVE  k <= Len(listing') /\ listing'[k] = Cell(main, k - 1)
      <4>1. k <= Len(listing')  BY <2>2, <2>3, <3>3, <3>4
      <4>2. CASE k = (i + 1) - Start
        <5>1. k = Len(listing) + 1 /\ k - 1 = i - Start  BY <2>2, <2>3, <3>2, <4>2
        <5> QED  BY <2>1, <3>2, <4>1, <5>1
      <4>3. CASE Start + k <= i
        <5>1. k <= Len(listing) /\ listing[k] = Cell(main, k - 1)
          BY <2>1, <4>3
        <5>2. Len(listing) \in Nat  BY <2>1
        <5>3. k \in 1 .. Len(listing)  BY <2>2, <5>1, <5>2
        <5> QED  BY <2>1, <3>2, <4>1, <5>1, <5>3
      <4> QED  BY <2>2, <2>3, <3>4, <4>2, <4>3
    <3>5. ~(i + 1 <= Start)  BY <2>2, <2>3, <2>7
    <3> QED  BY <2>4, <2>5, <3>3, <3>4, <3>5
  <2>8. CASE i >= Start + ast[main].len
    <3>1. ~(i + 1 <= Start) /\ ~(i + 1 <= Start + ast[main].len)
      BY <2>2, <2>3, <2>8
    <3>2. ASSUME NEW k \in 1 .. ast[main].len
          PROVE  k <= Len(listing') /\ listing'[k] = Cell(main, k - 1)
      <4>1. Start + k <= i  BY <2>2, <2>3, <2>8
      <4>2. k \in 1 .. Len(listing) /\ listing[k] = Cell(main, k - 1)
        BY <2>1, <2>2, <4>1
      <4> QED  BY <2>0, <2>1, <2>3, <4>2
    <3> QED  BY <2>4, <2>5, <3>1, <3>2
  <2>9. \/ i < Start
        \/ i >= Start + ast[main].len
        \/ i >= Start /\ i < Start + ast[main].len
    <3>1. i \in Int /\ Start \in Int /\ ast[main].len \in Int  BY <2>2, <2>3
    <3> QED  BY <3>1
  <2> QED  BY <2>6, <2>7, <2>8, <2>9
<1>4. CASE Listed
  BY <1>4 DEF Listed, MainFirst, Neat, MainLast, Fits
<1>5. CASE UNCHANGED vars
  BY <1>5 DEF vars, MainFirst, Neat, MainLast, Fits
<1> QED  BY <1>1, <1>2, <1>3, <1>4, <1>5 DEF Next

-----------------------------------------------------------------------------
(* The functions stand in the memory in the order main, 1, 2, ...: what is *)
(* found first behind the end of a function is the beginning of the next.  *)
NextFn(f) == IF f = main THEN 1 ELSE f + 1

LEMMA BehindIs ==
  ASSUME NEW f, NEW o
  PROVE  Behind(Cell(f, o)) = IF o + 1 < ast[f].len THEN Cell(f, o + 1)
                                                    ELSE Cell(NextFn(f), 0)
  BY DEF Behind, Cell, NextFn

LEMMA AfterEnd ==
  ASSUME IInv, phase \in {"print", "done"}, Neat, Ascending,
         NEW f \in 1 .. Len(ast), NEW h \in 1 .. Len(ast)
  PROVE  \/ func_pos[h] + ast[h].len <= func_pos[f] + ast[f].len
         \/ /\ NextFn(f) \in 1 .. main - 1
            /\ func_pos[f] + ast[f].len <= func_pos[NextFn(f)]
            /\ h = NextFn(f) \/ func_pos[NextFn(f)] < func_pos[h]
<1> DEFINE g == NextFn(f)
<1>0. /\ Start \in Nat /\ Len(ast) \in Nat
      /\ main \in 1 .. Len(ast) /\ main = Len(ast)
      /\ \A k \in 1 .. Len(ast) : ast[k].len \in Nat /\ func_pos[k] \in Nat
      /\ Laid /\ MainLast /\ Fits
  BY Numbers DEF IInv, Neat, MainLast, Laid
<1>1. /\ func_pos[main] = Start
      /\ \A k \in 1 .. Len(ast) : ast[k].len > 0
      /\ \A k \in 1 .. main - 1 : Start + ast[main].len + ast[k].len <= func_pos[k]
      /\ \A j, k \in 1 .. main - 1 : j < k => func_pos[j] + ast[k].len <= func_pos[k]
  BY <1>0, Places
<1>2. \A j, k \in 1 .. main - 1 : j < k => ast[j].len <= ast[k].len
  BY DEF Ascending
<1>3. /\ ast[f].len \in Nat /\ func_pos[f] \in Nat /\ ast[f].len > 0
      /\ ast[h].len \in Nat /\ func_pos[h] \in Nat /\ ast[h].len > 0
      /\ ast[main].len \in Nat
  BY <1>0, <1>1
<1>4. CASE h = f  BY <1>3, <1>4
<1>5. CASE h # f /\ h = main
  <2>1. f \in 1 .. main - 1  BY <1>0, <1>5
  <2>2. Start + ast[main].len + ast[f].len <= func_pos[f]  BY <1>1, <2>1
  <2> QED  BY <1>0, <1>1, <1>3, <1>5, <2>2
<1>6. CASE h # main /\ f = main
  <2>1. h \in 1 .. main - 1 /\ 1 \in 1 .. main - 1 /\ g = 1
    BY <1>0, <1>6 DEF NextFn
  <2>2. /\ Start + ast[main].len + ast[1].len <= func_pos[1]
        /\ ast[1].len \in Nat /\ func_pos[1] \in Nat
    BY <1>0, <1>1, <2>1
  <2>3. h = 1 \/ func_pos[1] < func_pos[h]
    <3>1. h # 1 => func_pos[1] + ast[h].len <= func_pos[h]
      <4>1. h # 1 => 1 < h  BY <2>1
      <4> QED  BY <1>1, <2>1, <4>1
    <3> QED  BY <1>3, <2>2, <3>1
  <2>4. func_pos[f] + ast[f].len <= func_pos[1]
    BY <1>0, <1>1, <1>3, <1>6, <2>2
  <2> QED  BY <2>1, <2>3, <2>4
<1>7. CASE h # main /\ f # main /\ h < f
  <2>1. h \in 1 .. main - 1 /\ f \in 1 .. main - 1  BY <1>0, <1>7
  <2>2. func_pos[h] + ast[f].len <= func_pos[f] /\ ast[h].len <= ast[f].len
    BY <1>1, <1>2, <1>7, <2>1
  <2> QED  BY <1>3, <2>2
<1>8. CASE h # main /\ f # main /\ f < h
  <2>1. /\ h \in 1 .. main - 1 /\ f \in 1 .. main - 1
        /\ f + 1 \in 1 .. main - 1 /\ g = f + 1 /\ f < f + 1
    BY <1>0, <1>8 DEF NextFn
  <2>2. /\ func_pos[f] + ast[f + 1].len <= func_pos[f + 1]
        /\ ast[f].len <= ast[f + 1].len
    BY <1>1, <1>2, <2>1
  <2>3. ast[f + 1].len \in Nat /\ func_pos[f + 1] \in Nat
    BY <1>0, <2>1
  <2>4. func_pos[f] + ast[f].len <= func_pos[f + 1]
    BY SMTT(40), <1>3, <2>2, <2>3
  <2>5. h = f + 1 \/ func_pos[f + 1] < func_pos[h]
    <3>1. h # f + 1 => f + 1 < h  BY <1>8, <2>1
    <3>2. h # f + 1 => func_pos[f + 1] + ast[h].len <= func_pos[h]
      BY <1>1, <2>1, <3>1
    <3> QED  BY <1>3, <2>3, <3>2
  <2> QED  BY <2>1, <2>4, <2>5
<1> QED  BY <1>0, <1>4, <1>5, <1>6, <1>7, <1>8

LEMMA NextAbove ==
  ASSUME IInv, phase \in {"print", "done"}, Neat, Ascending, NEW f \in 1 .. Len(ast)
  PROVE  \/ NextFn(f) = main
         \/ /\ NextFn(f) \in 1 .. main - 1
            /\ func_pos[f] + ast[f].len <= func_pos[NextFn(f)]
<1>0. Len(ast) \in Nat /\ main = Len(ast) /\ main \in 1 .. Len(ast)
      /\ Laid /\ MainLast /\ Fits
  BY Numbers DEF IInv, Neat, MainLast, Laid
<1>1. NextFn(f) = main \/ NextFn(f) \in 1 .. main - 1
  BY <1>0 DEF NextFn
<1>2. ASSUME NextFn(f) \in 1 .. main - 1
      PROVE  func_pos[f] + ast[f].len <= func_pos[NextFn(f)]
  <2> DEFINE g == NextFn(f)
  <2>1. g \in 1 .. Len(ast) /\ g # f  BY <1>0, <1>2 DEF NextFn
  <2>2. /\ \A k \in 1 .. Len(ast) : ast[k].len \in Nat /\ func_pos[k] \in Nat
        /\ \A k \in 1 .. Len(ast) : ast[k].len > 0
        /\ \A k \in 1 .. main - 1 : Start + ast[main].len + ast[k].len <= func_pos[k]
        /\ \A j, k \in 1 .. main - 1 : j < k => func_pos[j] + ast[k].len <= func_pos[k]
        /\ func_pos[main] = Start /\ Start \in Nat
    BY <1>0, Places, Numbers DEF IInv
  <2>3. /\ ast[f].len \in Nat /\ func_pos[f] \in Nat
        /\ ast[g].len \in Nat /\ func_pos[g] \in Nat
    BY <2>1, <2>2
  <2>4. CASE f = main
    <3>1. Start + ast[f].len + ast[g].len <= func_pos[g]  BY <1>2, <2>2, <2>4
    <3> QED  BY <2>2, <2>3, <2>4, <3>1
  <2>5. CASE f # main
    <3>1. f \in 1 .. main - 1 /\ f < g  BY <1>0, <1>2, <2>5 DEF NextFn
    <3>2. func_pos[f] + ast[g].len <= func_pos[g]  BY <1>2, <2>2, <3>1
    <3>3. ast[f].len <= ast[g].len  BY <1>2, <3>1 DEF Ascending
    <3> QED  BY <2>3, <3>2, <3>3
  <2> QED  BY <2>4, <2>5
<1> QED  BY <1>1, <1>2

(* The cells of a function stand one behind the other.                     *)
LEMMA WithinFunction ==
  ASSUME IInv, phase \in {"print", "done"}, Neat, Ascending,
         NEW f \in 1 .. Len(ast), NEW b \in Slot(f)
  PROVE  LET o == b - func_pos[f] IN
         IF o + 1 < ast[f].len
         THEN b + 1 < AddrMod /\ memory[b + 1] # Empty /\ memory[b + 1] = Cell(f, o + 1)
         ELSE b + 1 = func_pos[f] + ast[f].len
<1>0. ast[f].len \in Nat /\ func_pos[f] \in Nat  BY Numbers DEF IInv
<1>1. b \in Nat /\ func_pos[f] <= b /\ b <= func_pos[f] + ast[f].len - 1
  BY <1>0 DEF Slot
<1>2. CASE b - func_pos[f] + 1 < ast[f].len
  <2>1. b + 1 \in Slot(f) /\ (b + 1) - func_pos[f] = b - func_pos[f] + 1
    BY <1>0, <1>1, <1>2 DEF Slot
  <2>2. b + 1 < AddrMod /\ memory[b + 1] = Cell(f, b - func_pos[f] + 1)
    BY <2>1, AllThere DEF From
  <2>3. f # 0  BY Numbers DEF IInv
  <2> QED  BY <1>2, <2>2, <2>3 DEF Cell, Empty
<1>3. CASE ~(b - func_pos[f] + 1 < ast[f].len)
  BY <1>0, <1>1, <1>3
<1> QED  BY <1>2, <1>3

(* A function that is not the last one is found where it begins.           *)
LEMMA BeginsThere ==
  ASSUME IInv, phase \in {"print", "done"}, Neat, Ascending, NEW g \in 1 .. Len(ast)
  PROVE  /\ func_pos[g] \in 0 .. AddrMod - 1
         /\ memory[func_pos[g]] = Cell(g, 0) /\ memory[func_pos[g]] # Empty
<1>0. /\ ast[g].len \in Nat /\ func_pos[g] \in Nat /\ g # 0 /\ ast[g].len > 0
      /\ AddrMod \in Nat
  BY Numbers, Places DEF IInv, Neat, Laid
<1>1. func_pos[g] \in Slot(g) /\ func_pos[g] - func_pos[g] = 0  BY <1>0 DEF Slot
<1>2. func_pos[g] < AddrMod /\ memory[func_pos[g]] = Cell(g, 0)
  BY <1>1, AllThere DEF From
<1>3. func_pos[g] \in 0 .. AddrMod - 1  BY <1>0, <1>2
<1> QED  BY <1>0, <1>2, <1>3 DEF Cell, Empty

(* The next cell there is comes from where the code runs on to.            *)
LEMMA Successor ==
  ASSUME IInv, Sourced, MainStands, phase \in {"print", "done"}, Neat, Ascending,
         NEW b \in 0 .. AddrMod - 1, NEW c \in b + 1 .. AddrMod - 1,
         LastBefore(b, c), memory[c] # Empty
  PROVE  memory[c] = Behind(memory[b])
<1>0. AddrMod \in Nat /\ b \in Nat /\ c \in 0 .. AddrMod - 1 /\ c \in Nat /\ b < c
  BY AddrModAssumption
<1>1. PICK f \in 1 .. Len(ast) : From(f, b)  BY MemoryIs DEF LastBefore
<1>2. PICK h \in 1 .. Len(ast) : From(h, c)  BY <1>0, MemoryIs
<1> DEFINE o == b - func_pos[f]
           g == NextFn(f)
<1>3. /\ ast[f].len \in Nat /\ func_pos[f] \in Nat /\ func_pos[f] <= b
      /\ ast[h].len \in Nat /\ func_pos[h] \in Nat
      /\ func_pos[h] <= c /\ c < func_pos[h] + ast[h].len
  BY <1>0, <1>1, <1>2, Numbers DEF IInv, From, Slot
<1>4. Behind(memory[b]) = IF o + 1 < ast[f].len THEN Cell(f, o + 1) ELSE Cell(g, 0)
  BY <1>1, BehindIs DEF From
<1>5. CASE o + 1 < ast[f].len
  <2>1. b + 1 < AddrMod /\ memory[b + 1] # Empty /\ memory[b + 1] = Cell(f, o + 1)
    BY <1>1, <1>5, WithinFunction DEF From
  <2>2. ~(b + 1 \in b + 1 .. c - 1)  BY <2>1 DEF LastBefore
  <2>3. c = b + 1  BY <1>0, <2>2
  <2> QED  BY <1>4, <1>5, <2>1, <2>3
<1>6. CASE ~(o + 1 < ast[f].len)
  <2>1. b + 1 = func_pos[f] + ast[f].len  BY <1>1, <1>6, WithinFunction DEF From
  <2>2. ~(func_pos[h] + ast[h].len <= func_pos[f] + ast[f].len)
    BY <1>0, <1>3, <2>1
  <2>3. /\ g \in 1 .. main - 1
        /\ b + 1 <= func_pos[g]
        /\ h = g \/ func_pos[g] < func_pos[h]
    BY <2>1, <2>2, AfterEnd
  <2>4. g \in 1 .. Len(ast)  BY <2>3, Numbers DEF IInv
  <2>5. func_pos[g] \in 0 .. AddrMod - 1 /\ memory[func_pos[g]] = Cell(g, 0)
        /\ memory[func_pos[g]] # Empty
    BY <2>4, BeginsThere
  <2>6. ~(func_pos[g] \in b + 1 .. c - 1)  BY <2>5 DEF LastBefore
  <2>7. func_pos[g] = c  BY SMTT(40), <1>0, <1>3, <2>3, <2>5, <2>6
  <2> QED  BY <1>4, <1>6, <2>5, <2>7
<1> QED  BY <1>5, <1>6

LEMMA LastCell ==
  ASSUME IInv, Sourced, MainStands, phase \in {"print", "done"}, Neat, Ascending,
         NEW b \in 0 .. AddrMod - 1, LastBefore(b, AddrMod)
  PROVE  Behind(memory[b]) = Cell(main, 0)
<1>0. AddrMod \in Nat /\ b \in Nat  BY AddrModAssumption
<1>1. PICK f \in 1 .. Len(ast) : From(f, b)  BY MemoryIs DEF LastBefore
<1> DEFINE o == b - func_pos[f]
           g == NextFn(f)
<1>2. Behind(memory[b]) = IF o + 1 < ast[f].len THEN Cell(f, o + 1) ELSE Cell(g, 0)
  BY <1>1, BehindIs DEF From
<1>3. ~(o + 1 < ast[f].len)
  <2> SUFFICES ASSUME o + 1 < ast[f].len PROVE FALSE
    OBVIOUS
  <2>1. b + 1 < AddrMod /\ memory[b + 1] # Empty
    BY <1>1, WithinFunction DEF From
  <2>2. b + 1 \in b + 1 .. AddrMod - 1  BY <1>0, <2>1
  <2> QED  BY <2>1, <2>2 DEF LastBefore
<1>4. g = main
  <2> SUFFICES ASSUME g # main PROVE FALSE
    OBVIOUS
  <2>1. g \in 1 .. main - 1 /\ func_pos[f] + ast[f].len <= func_pos[g]
    BY NextAbove
  <2>2. g \in 1 .. Len(ast)  BY <2>1, Numbers DEF IInv
  <2>3. func_pos[g] \in 0 .. AddrMod - 1 /\ memory[func_pos[g]] # Empty
    BY <2>2, BeginsThere
  <2>4. b + 1 = func_pos[f] + ast[f].len  BY <1>1, <1>3, WithinFunction DEF From
  <2>5. func_pos[g] \in b + 1 .. AddrMod - 1  BY <1>0, <2>1, <2>3, <2>4
  <2> QED  BY <2>3, <2>5 DEF LastBefore
<1> QED  BY <1>2, <1>3, <1>4

-----------------------------------------------------------------------------
LEMMA InTurnStep ==
  IInv /\ Sourced /\ MainStands /\ NothingListed /\ MainFirst /\ InTurn /\ [Next]_vars
  => InTurn'
<1> SUFFICES ASSUME IInv, Sourced, MainStands, NothingListed, MainFirst, InTurn,
                    [Next]_vars
             PROVE  InTurn'
  OBVIOUS
<1>1. CASE NoMain \/ FindMain \/ CompileFunction \/ CompileFails \/ CompiledAll \/ Place
           \/ StopAtMain \/ Write
  BY <1>1 DEF NoMain, FindMain, CompileFunction, CompileFails, GiveUp, CompiledAll,
              Place, StopAtMain, Write, InTurn
<1>2. CASE WrittenAll
  <2>1. listing' = <<>>  BY <1>2 DEF WrittenAll, NothingListed
  <2>2. \A k \in 1 .. Len(<<>>) - 1 : FALSE  OBVIOUS
  <2> QED  BY <2>1, <2>2 DEF InTurn
<1>3. CASE List
  <2>0. /\ phase = "print" /\ i < AddrMod
        /\ listing' = IF memory[i] = Empty THEN listing ELSE Append(listing, memory[i])
    BY <1>3 DEF List
  <2>keep. /\ i' = i + 1
           /\ UNCHANGED <<phase, ast, main, high, wild, memory>>
           /\ Neat' = Neat /\ Ascending' = Ascending
    BY <1>3 DEF List, Neat, MainLast, Fits, Ascending
  <2> SUFFICES ASSUME Neat, Ascending
               PROVE  /\ \A k \in 1 .. Len(listing') - 1 :
                           listing'[k + 1] = Behind(listing'[k])
                      /\ listing' # <<>> =>
                           \E b \in 0 .. i :
                             LastBefore(b, i + 1) /\ memory[b] = listing'[Len(listing')]
    <3>1. (i + 1) - 1 = i  BY <2>0 DEF IInv, TypeOK
    <3> QED  BY <2>keep, <3>1 DEF InTurn, LastBefore, Behind
  <2>1. /\ i \in 0 .. AddrMod - 1 /\ i \in Nat /\ AddrMod \in Nat
        /\ listing \in Seq(Cells) /\ memory[i] \in Cells
    <3>1. i \in 0 .. AddrMod /\ listing \in Seq(Cells)  BY <2>0 DEF MainFirst
    <3>2. i \in 0 .. AddrMod - 1 /\ i \in Nat /\ AddrMod \in Nat
      BY <2>0, <3>1, AddrModAssumption
    <3>3. memory[i] \in Cells  BY <2>0, <3>2, MemoryIs
    <3> QED  BY <3>1, <3>2, <3>3
  <2>2. \A k \in 1 .. Len(listing) - 1 : listing[k + 1] = Behind(listing[k])
    BY <2>0 DEF InTurn
  <2>3. listing # <<>> =>
          \E b \in 0 .. i - 1 : LastBefore(b, i) /\ memory[b] = listing[Len(listing)]
    BY <2>0 DEF InTurn
  <2>4. CASE memory[i] = Empty
    <3>1. listing' = listing  BY <2>0, <2>4
    <3>2. ASSUME listing # <<>>
          PROVE  \E b \in 0 .. i :
                   LastBefore(b, i + 1) /\ memory[b] = listing[Len(listing)]
      <4>1. PICK b \in 0 .. i - 1 :
              LastBefore(b, i) /\ memory[b] = listing[Len(listing)]
        BY <2>3, <3>2
      <4>2. \A a \in b + 1 .. (i + 1) - 1 : a = i \/ a \in b + 1 .. i - 1  BY <2>1
      <4>3. LastBefore(b, i + 1)  BY <2>4, <4>1, <4>2 DEF LastBefore
      <4>4. b \in 0 .. i  BY <2>1
      <4> QED  BY <4>1, <4>3, <4>4
    <3> QED  BY <2>2, <3>1, <3>2
  <2>5. CASE memory[i] # Empty
    <3>1. listing' = Append(listing, memory[i])  BY <2>0, <2>5
    <3>2. /\ Len(listing) \in Nat /\ Len(listing') = Len(listing) + 1
          /\ listing'[Len(listing) + 1] = memory[i]
          /\ \A k \in 1 .. Len(listing) : listing'[k] = listing[k]
      BY <2>1, <3>1
    <3>3. ASSUME NEW k \in 1 .. Len(listing)
          PROVE  listing'[k + 1] = Behind(listing'[k])
      <4>1. CASE k \in 1 .. Len(listing) - 1
        <5>1. k + 1 \in 1 .. Len(listing)  BY <3>2, <4>1
        <5> QED  BY <2>2, <3>2, <4>1, <5>1
      <4>2. CASE k = Len(listing)
        <5>1. listing # <<>>  BY <3>3
        <5>2. PICK b \in 0 .. i - 1 :
                LastBefore(b, i) /\ memory[b] = listing[Len(listing)]
          BY <2>3, <5>1
        <5>3. b \in 0 .. AddrMod - 1 /\ i \in b + 1 .. AddrMod - 1  BY <2>1
        <5>4. memory[i] = Behind(memory[b])  BY <2>0, <2>5, <5>2, <5>3, Successor
        <5> QED  BY <3>2, <4>2, <5>2, <5>4
      <4> QED  BY <3>2, <4>1, <4>2
    <3>4. LastBefore(i, i + 1)
      <4>1. \A a \in i + 1 .. (i + 1) - 1 : FALSE  BY <2>1
      <4> QED  BY <2>5, <4>1 DEF LastBefore
    <3>5. i \in 0 .. i /\ memory[i] = listing'[Len(listing')]  BY <2>1, <3>2
    <3>6. Len(listing') - 1 = Len(listing)  BY <3>2
    <3> QED  BY <3>3, <3>4, <3>5, <3>6
  <2> QED  BY <2>4, <2>5
<1>4. CASE Listed
  <2>1. UNCHANGED <<ast, main, high, wild, memory, i, listing>> /\ phase = "print"
    BY <1>4 DEF Listed
  <2>2. Neat' = Neat /\ Ascending' = Ascending
    BY <2>1 DEF Neat, MainLast, Fits, Ascending
  <2> QED  BY <2>1, <2>2 DEF InTurn, LastBefore, Behind
<1>5. CASE UNCHANGED vars
  <2>1. UNCHANGED <<phase, ast, main, high, wild, memory, i, listing>>
    BY <1>5 DEF vars
  <2>2. Neat' = Neat /\ Ascending' = Ascending
    BY <2>1 DEF Neat, MainLast, Fits, Ascending
  <2> QED  BY <2>1, <2>2 DEF InTurn, LastBefore, Behind
<1> QED  BY <1>1, <1>2, <1>3, <1>4, <1>5 DEF Next

LEMMA NothingListedStep == NothingListed /\ [Next]_vars => NothingListed'
BY DEF Next, NoMain, FindMain, CompileFunction, CompileFails, GiveUp, CompiledAll,
       Place, StopAtMain, Write, WrittenAll, List, Listed, vars, NothingListed

LEMMA InitLInv == Init => LInv
<1> SUFFICES ASSUME Init PROVE LInv
  OBVIOUS
<1>1. IInv  BY InitIInv
<1> QED
  BY <1>1 DEF Init, LInv, Sourced, Laid, MainStands, NothingListed, MainFirst, InTurn

LEMMA StepLInv == LInv /\ [Next]_vars => LInv'
BY StepIInv, SourcedStep, MainStandsStep, NothingListedStep, MainFirstStep, InTurnStep
   DEF LInv

-----------------------------------------------------------------------------
(* The listing, which is all the machine will see of the positions, begins *)
(* with main, whole; and where no function is shorter than the one before  *)
(* it, main runs on into the others in the order of the file, each whole,  *)
(* once, and into nothing else: for every list of functions with main last *)
(* that fits the memory.                                                   *)
THEOREM LinkMainIsListedFirst == Spec => []MainIsListedFirst
<1>1. LInv => MainIsListedFirst
  <2> SUFFICES ASSUME LInv, phase = "done", MainLast, Fits, ~wild
               PROVE  /\ Len(listing) >= ast[main].len
                      /\ \A k \in 1 .. ast[main].len : listing[k] = Cell(main, k - 1)
                      /\ Ascending =>
                           /\ \A k \in 1 .. Len(listing) - 1 :
                                listing[k + 1] = Behind(listing[k])
                           /\ Behind(listing[Len(listing)]) = Cell(main, 0)
    BY DEF MainIsListedFirst
  <2>1. Neat /\ IInv /\ Sourced /\ MainStands /\ MainFirst /\ InTurn
        /\ phase \in {"print", "done"} /\ phase \in {"write", "print", "done"}
    BY DEF Neat, LInv
  <2>2. /\ AddrMod \in Nat /\ Start \in Nat /\ ast[main].len \in Nat
        /\ ast[main].len > 0
    BY <2>1, Numbers, Places DEF IInv, Laid
  <2>3. Start + ast[main].len <= AddrMod  BY <2>1, MemoryIs
  <2>4. i = AddrMod /\ listing \in Seq(Cells)  BY <2>1 DEF MainFirst
  <2>5. \A k \in 1 .. ast[main].len :
          k <= Len(listing) /\ listing[k] = Cell(main, k - 1)
    <3>1. \A k \in 1 .. ast[main].len : Start + k <= i  BY <2>2, <2>3, <2>4
    <3> QED  BY <2>1, <3>1 DEF MainFirst
  <2>6. Len(listing) >= ast[main].len
    <3>1. ast[main].len \in 1 .. ast[main].len  BY <2>2
    <3> QED  BY <2>2, <2>4, <2>5, <3>1
  <2>7. ASSUME Ascending
        PROVE  /\ \A k \in 1 .. Len(listing) - 1 : listing[k + 1] = Behind(listing[k])
               /\ Behind(listing[Len(listing)]) = Cell(main, 0)
    <3>1. listing # <<>>  BY <2>2, <2>4, <2>6
    <3>2. PICK b \in 0 .. i - 1 : LastBefore(b, i) /\ memory[b] = listing[Len(listing)]
      BY <2>1, <2>7, <3>1 DEF InTurn
    <3>3. Behind(memory[b]) = Cell(main, 0)
      BY <2>1, <2>4, <2>7, <3>2, LastCell
    <3> QED  BY <2>1, <2>7, <3>2, <3>3 DEF InTurn
  <2> QED  BY <2>5, <2>6, <2>7
<1> QED  BY <1>1, InitLInv, StepLInv, PTL DEF Spec
=============================================================================
