--------------------------------- MODULE Link ---------------------------------
(***************************************************************************)
(* compile_to_uxn (compiler.c) and the listing that is printed from its    *)
(* result (fprintf_uxn_program): find main, compile every function, give   *)
(* every function a position, write the functions into the 64 kB of the    *)
(* machine, print the cells that were written.                             *)
(*                                                                         *)
(* A function is its name, the length of the code compile_function returns *)
(* for it (0: it failed, or compiled to nothing) and whether it declares   *)
(* variables.  A cell of memory is the function and the offset it came     *)
(* from.  heap is the set of blocks allocated and not freed.               *)
(*                                                                         *)
(* A definition named after another one and a mistake (Place_NoWrap)       *)
(* is that definition with the mistake made, for the properties to find    *)
(* out.  No specification uses it.                                         *)
(***************************************************************************)
EXTENDS Integers, Sequences

CONSTANTS
  Asts,      (* the lists of functions to compile                          *)
  AddrMod,   (* positions are uint16_t: they wrap at AddrMod (0x10000)     *)
  Start,     (* where main is put (0x100)                                  *)
  Garbage    (* what an uninitialised position may hold                    *)

Function == [name : {"main", "other"}, len : Nat, vars : BOOLEAN]

ASSUME AstsAssumption    == Asts \subseteq Seq(Function)
ASSUME AddrModAssumption == AddrMod \in Nat /\ AddrMod > 0
ASSUME StartAssumption   == Start \in 0 .. AddrMod - 1
ASSUME GarbageAssumption == Garbage \subseteq 0 .. AddrMod - 1

VARIABLES
  ast,       (* the functions, in the order of the file                    *)
  phase,     (* "search", "compile", "place", "write", "print", "done",    *)
             (* "failed"                                                   *)
  main,      (* index of the first function called main; 0 before          *)
  i,         (* the function the running loop is at                        *)
  pos,       (* the next position                                          *)
  func_pos,  (* the position of every function                             *)
  memory,    (* the cells of the program, Empty where nothing was written  *)
  wild,      (* a cell was stored outside the program's 64 kB              *)
  listing,   (* what is printed                                            *)
  heap,      (* blocks allocated and not freed                             *)
  high       (* history: pos without the wrap                              *)

vars == <<ast, phase, main, i, pos, func_pos, memory, wild, listing, heap, high>>

Empty       == [fn |-> 0, off |-> 0]
Stray       == [fn |-> 0, off |-> 1]   (* written, but not with code       *)
Cell(f, o)  == [fn |-> f, off |-> o]
Block(b, f) == [kind |-> b, fn |-> f]
Whole(b)    == Block(b, 0)

-----------------------------------------------------------------------------
Init ==
  /\ ast \in Asts
  /\ phase = "search"
  /\ main = 0
  /\ i = 1
  /\ pos = 0
  /\ func_pos = <<>>
  /\ memory = [a \in 0 .. AddrMod - 1 |-> Empty]
  /\ wild = FALSE
  /\ listing = <<>>
  /\ heap = {Whole("ast")}
  /\ high = 0

IsMain(k) == ast[k].name = "main"

(* The arrays of the layout of a function with variables: they are not     *)
(* freed, var_layout_delete is given the empty layout compile_function     *)
(* started from.                                                           *)
Layout(k) == IF ast[k].vars THEN {Block("layout", k)} ELSE {}

(* Every failure deletes the tree and returns NULL.                        *)
GiveUp(left) ==
  /\ phase' = "failed"
  /\ heap' = (heap \ {Whole("ast")}) \union left
  /\ UNCHANGED <<ast, main, i, pos, func_pos, memory, wild, listing, high>>

(* No function at all, or none called main.                                *)
NoMain ==
  /\ phase = "search"
  /\ \A k \in DOMAIN ast : ~IsMain(k)
  /\ GiveUp({})

(* The first main is the entry; only its position is set when the array of *)
(* positions is allocated.                                                 *)
FindMain ==
  /\ phase = "search"
  /\ \E m \in DOMAIN ast :
       /\ IsMain(m)
       /\ \A k \in 1 .. m - 1 : ~IsMain(k)
       /\ main' = m
       /\ \E p \in [DOMAIN ast -> Garbage] :
            func_pos' = [p EXCEPT ![m] = Start]
  /\ heap' = heap \union {Whole("func_binary"), Whole("func_pos")}
  /\ phase' = "compile"
  /\ UNCHANGED <<ast, i, pos, memory, wild, listing, high>>

CompileFunction ==
  /\ phase = "compile"
  /\ i <= Len(ast)
  /\ ast[i].len > 0
  /\ heap' = heap \union {Block("code", i)} \union Layout(i)
  /\ i' = i + 1
  /\ UNCHANGED <<ast, phase, main, pos, func_pos, memory, wild, listing, high>>

CompileFails ==
  /\ phase = "compile"
  /\ i <= Len(ast)
  /\ ast[i].len = 0
  /\ GiveUp(Layout(i))

CompiledAll ==
  /\ phase = "compile"
  /\ i > Len(ast)
  /\ phase' = "place"
  /\ i' = 1
  /\ pos' = (Start + ast[main].len) % AddrMod
  /\ high' = Start + ast[main].len
  /\ UNCHANGED <<ast, main, func_pos, memory, wild, listing, heap>>

(* The positions of the functions before main: the length is added first,  *)
(* so that a gap as long as the function is left before it.                *)
Place_NoAdvance ==
  /\ phase = "place"
  /\ i # main
  /\ pos' = pos
  /\ high' = high
  /\ func_pos' = [func_pos EXCEPT ![i] = pos']
  /\ i' = i + 1
  /\ UNCHANGED <<ast, phase, main, memory, wild, listing, heap>>

Place_NoWrap ==
  /\ phase = "place"
  /\ i # main
  /\ pos' = pos + ast[i].len
  /\ high' = high + ast[i].len
  /\ func_pos' = [func_pos EXCEPT ![i] = pos']
  /\ i' = i + 1
  /\ UNCHANGED <<ast, phase, main, memory, wild, listing, heap>>

Place ==
  /\ phase = "place"
  /\ i # main
  /\ pos' = (pos + ast[i].len) % AddrMod
  /\ high' = high + ast[i].len
  /\ func_pos' = [func_pos EXCEPT ![i] = pos']
  /\ i' = i + 1
  /\ UNCHANGED <<ast, phase, main, memory, wild, listing, heap>>

(* The loop stops at main; the functions after it keep what malloc left.   *)
StopAtMain ==
  /\ phase = "place"
  /\ i = main
  /\ phase' = "write"
  /\ i' = 1
  /\ UNCHANGED <<ast, main, pos, func_pos, memory, wild, listing, heap, high>>

(* The cells of function i in the memory m.                                *)
Stored(m) ==
  [a \in 0 .. AddrMod - 1 |->
     IF a \in func_pos[i] .. func_pos[i] + ast[i].len - 1
     THEN Cell(i, a - func_pos[i]) ELSE m[a]]

(* write_part_program: pos + i is an int and does not wrap.  What is       *)
(* stored past the end of one array of a Program falls into the next one:  *)
(* comments (8 bytes each) into the cells, cells into is_instruction, and  *)
(* is_instruction into is_written.                                         *)
Overrun == func_pos[i] + ast[i].len - AddrMod

Spoilt(m) ==
  {[a \in 0 .. AddrMod - 1 |->
      IF a < Overrun          THEN IF a \in shown THEN Stray ELSE Empty
      ELSE IF a < 8 * Overrun THEN IF m[a] = Empty THEN Empty ELSE Stray
      ELSE m[a]] : shown \in SUBSET (0 .. Overrun - 1)}

Write_KeepsCode ==
  /\ phase = "write"
  /\ i <= Len(ast)
  /\ memory' \in Spoilt(Stored(memory))
  /\ wild' = (wild \/ Overrun > 0)
  /\ heap' = heap
  /\ i' = i + 1
  /\ UNCHANGED <<ast, phase, main, pos, func_pos, listing, high>>

Write ==
  /\ phase = "write"
  /\ i <= Len(ast)
  /\ memory' \in Spoilt(Stored(memory))
  /\ wild' = (wild \/ Overrun > 0)
  /\ heap' = heap \ {Block("code", i)}
  /\ i' = i + 1
  /\ UNCHANGED <<ast, phase, main, pos, func_pos, listing, high>>

WrittenAll ==
  /\ phase = "write"
  /\ i > Len(ast)
  /\ phase' = "print"
  /\ i' = 0
  /\ heap' = (heap \ {Whole("func_binary"), Whole("func_pos"), Whole("ast")})
               \union {Whole("program")}
  /\ UNCHANGED <<ast, main, pos, func_pos, memory, wild, listing, high>>

(* fprintf_uxn_program: the address is said once, at Start; a cell that was *)
(* not written is passed over.                                              *)
List_Unwritten ==
  /\ phase = "print"
  /\ i < AddrMod
  /\ listing' = Append(listing, memory[i])
  /\ i' = i + 1
  /\ UNCHANGED <<ast, phase, main, pos, func_pos, memory, wild, heap, high>>

List ==
  /\ phase = "print"
  /\ i < AddrMod
  /\ listing' = IF memory[i] = Empty THEN listing ELSE Append(listing, memory[i])
  /\ i' = i + 1
  /\ UNCHANGED <<ast, phase, main, pos, func_pos, memory, wild, heap, high>>

Listed ==
  /\ phase = "print"
  /\ i = AddrMod
  /\ phase' = "done"
  /\ UNCHANGED <<ast, main, i, pos, func_pos, memory, wild, listing, heap, high>>

Next ==
  \/ NoMain
  \/ FindMain
  \/ CompileFunction
  \/ CompileFails
  \/ CompiledAll
  \/ Place
  \/ StopAtMain
  \/ Write
  \/ WrittenAll
  \/ List
  \/ Listed

Spec == Init /\ [][Next]_vars

-----------------------------------------------------------------------------
(* The shape of the state.                                                 *)
TypeOK ==
  /\ ast \in Seq(Function)
  /\ phase \in {"search", "compile", "place", "write", "print", "done", "failed"}
  /\ main \in 0 .. Len(ast)
  /\ i \in Nat
  /\ pos \in 0 .. AddrMod - 1
  /\ phase \notin {"search", "failed"} =>
       /\ main # 0
       /\ func_pos \in [DOMAIN ast -> 0 .. AddrMod - 1]
  /\ \A a \in 0 .. AddrMod - 1 :
       memory[a].fn \in 0 .. Len(ast) /\ memory[a].off \in Nat
  /\ wild \in BOOLEAN
  /\ high \in Nat

(* The cells function k was written to still hold it.                      *)
Intact(k) ==
  \A o \in 0 .. ast[k].len - 1 :
    func_pos[k] + o < AddrMod /\ memory[func_pos[k] + o] = Cell(k, o)

(* The cells that do not hold it were overwritten by a function behind     *)
(* main, whose position nobody computed.                                   *)
Spared(k) ==
  \A o \in 0 .. ast[k].len - 1 :
    /\ func_pos[k] + o < AddrMod
    /\ \/ memory[func_pos[k] + o] = Cell(k, o)
       \/ memory[func_pos[k] + o].fn > main

(* main is the last function of the file, and the positions did not wrap.  *)
MainLast == main = Len(ast)
Fits     == high + (IF main > 1 THEN ast[main - 1].len ELSE 0) <= AddrMod

(* The functions before main do not get shorter.                           *)
Ascending == \A j, k \in 1 .. main - 1 : j < k => ast[j].len <= ast[k].len

(* When the functions before main do not get shorter and everything fits,  *)
(* main and the functions before it do not overwrite each other: when main *)
(* is the last function, all of them are in the program where they were    *)
(* put; when it is not, what is damaged was damaged by the functions       *)
(* behind it, unless these were stored outside the program.                *)
AllIntact ==
  phase \in {"print", "done"} /\ Fits /\ Ascending =>
    /\ MainLast => ~wild /\ \A k \in DOMAIN ast : Intact(k)
    /\ ~wild => \A k \in 1 .. main : Spared(k)

(* What is listed behind a cell: the rest of its function, and then the    *)
(* function that was placed after it; main is placed first.                *)
Behind(c) ==
  IF c.off + 1 < ast[c.fn].len THEN Cell(c.fn, c.off + 1)
  ELSE Cell(IF c.fn = main THEN 1 ELSE c.fn + 1, 0)

(* The listing has no addresses, so what runs is what is listed, in that   *)
(* order.  When main is last, the positions did not wrap and nothing was   *)
(* stored outside, it starts with main, whole, whatever overlaps above it; *)
(* and when nothing overlaps, main runs on into the other functions, each  *)
(* whole and once, in the order of the file, and into nothing else.        *)
MainIsListedFirst ==
  phase = "done" /\ MainLast /\ Fits /\ ~wild =>
    /\ Len(listing) >= ast[main].len
    /\ \A k \in 1 .. ast[main].len : listing[k] = Cell(main, k - 1)
    /\ Ascending =>
         /\ \A k \in 1 .. Len(listing) - 1 : listing[k + 1] = Behind(listing[k])
         /\ Behind(listing[Len(listing)]) = Cell(main, 0)

(* What the first n functions leave behind.                                *)
CodeOf(n)    == {Block("code", k) : k \in 1 .. n}
LayoutsOf(n) == UNION {Layout(k) : k \in 1 .. n}
Arrays       == {Whole("func_binary"), Whole("func_pos")}

(* What is still allocated when compile_to_uxn is left, and nothing else:  *)
(* with a program, the layouts of all functions; without a main, nothing;  *)
(* when function i fails (compiler.c:519-523), the two arrays, the code of *)
(* the functions before it and the layouts up to its own.  The tree is     *)
(* freed on every way out.  What compile_expr leaves of the failed function *)
(* is CleanFailure of CodeGen.  README.md:43 says that nothing is left; the *)
(* code never frees a layout that was filled (compiler.c:485 frees the     *)
(* empty one of before the compilation).                                   *)
ExitOwnership ==
  /\ phase = "done" => heap = {Whole("program")} \union LayoutsOf(Len(ast))
  /\ phase = "failed" =>
       heap = IF main = 0 THEN {} ELSE Arrays \union CodeOf(i - 1) \union LayoutsOf(i)

-----------------------------------------------------------------------------
(* "5. Write all the functions to the program" (compiler_to_uxn/README.md, *)
(* Compile Steps): when main is last and everything fits, all the cells of *)
(* all the functions are in the program.                                   *)
AllFunctionsWritten ==
  phase = "done" /\ MainLast /\ Fits => \A k \in DOMAIN ast : Intact(k)
=============================================================================
