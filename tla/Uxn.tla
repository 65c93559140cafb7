--------------------------------- MODULE Uxn ---------------------------------
(***************************************************************************)
(* The part of the Uxn machine the compiler generates code for: working    *)
(* stack, zero page, program counter and device output.  The machine is    *)
(* not in the compiler; it is modelled from the opcode table the compiler  *)
(* quotes (compiler_utils.h:3-40): byte operations that consume what they  *)
(* read, and relative jumps by a signed byte.                              *)
(*                                                                         *)
(* The program counter is an offset into Rom, whose cells are loaded at    *)
(* 0x100; memory after it is zero, which is BRK.                           *)
(***************************************************************************)
EXTENDS Integers, Sequences

VARIABLES
  rom,       (* the loaded cells                                           *)
  at,        (* offset of the next cell to execute                         *)
  ws,        (* the working stack, its top last                            *)
  zp,        (* the zero page                                              *)
  out,       (* what was sent to devices: pairs <<device, byte>>           *)
  status     (* "off", "running", "halted" (BRK), "underflow", "lost"      *)

uxnVars == <<rom, at, ws, zp, out, status>>

Signed(b) == IF b < 128 THEN b ELSE b - 256

Arith(op, b, c) ==
  CASE op = "ADD" -> (b + c) % 256
    [] op = "SUB" -> (b - c) % 256
    [] op = "MUL" -> (b * c) % 256
    [] op = "DIV" -> IF c = 0 THEN 0 ELSE b \div c
    [] op = "EQU" -> IF b = c THEN 1 ELSE 0
    [] op = "NEQ" -> IF b # c THEN 1 ELSE 0
    [] op = "GTH" -> IF b > c THEN 1 ELSE 0
    [] op = "LTH" -> IF b < c THEN 1 ELSE 0

Ops2 == {"ADD", "SUB", "MUL", "DIV", "EQU", "NEQ", "GTH", "LTH"}

(* The operands an instruction takes from the stack.                       *)
Arity(op) ==
  CASE op \in {"LIT", "LIT2"} -> 0
    [] op \in {"LDZ", "JMP"}  -> 1
    [] OTHER                  -> 2

Load(cells) ==
  /\ status = "off"
  /\ rom' = cells
  /\ at' = 0
  /\ ws' = <<>>
  /\ zp' = [a \in 0 .. 255 |-> 0]
  /\ out' = <<>>
  /\ status' = "running"

Here     == rom[at + 1]
Pop(n)   == SubSeq(ws, 1, Len(ws) - n)
Arg1     == ws[Len(ws)]          (* c: the top of the stack                *)
Arg2     == ws[Len(ws) - 1]      (* b: the one below                       *)

Fetch(ops) ==
  /\ status = "running"
  /\ at \in 0 .. Len(rom) - 1
  /\ Here.op \in ops
  /\ Len(ws) >= Arity(Here.op)

(* The k-th byte after the instruction, and zero past the end.             *)
Operand(k) == IF at + k < Len(rom) THEN rom[at + k + 1].byte ELSE 0

Lit ==
  /\ Fetch({"LIT"})
  /\ ws' = Append(ws, Operand(1))
  /\ at' = at + 2
  /\ UNCHANGED <<rom, zp, out, status>>

Lit2 ==
  /\ Fetch({"LIT2"})
  /\ ws' = ws \o <<Operand(1), Operand(2)>>
  /\ at' = at + 3
  /\ UNCHANGED <<rom, zp, out, status>>

Ldz ==
  /\ Fetch({"LDZ"})
  /\ ws' = Append(Pop(1), zp[Arg1])
  /\ at' = at + 1
  /\ UNCHANGED <<rom, zp, out, status>>

Stz ==
  /\ Fetch({"STZ"})
  /\ zp' = [zp EXCEPT ![Arg1] = Arg2]
  /\ ws' = Pop(2)
  /\ at' = at + 1
  /\ UNCHANGED <<rom, out, status>>

Deo ==
  /\ Fetch({"DEO"})
  /\ out' = Append(out, <<Arg1, Arg2>>)
  /\ ws' = Pop(2)
  /\ at' = at + 1
  /\ UNCHANGED <<rom, zp, status>>

Compute ==
  /\ Fetch(Ops2)
  /\ ws' = Append(Pop(2), Arith(Here.op, Arg2, Arg1))
  /\ at' = at + 1
  /\ UNCHANGED <<rom, zp, out, status>>

Jmp ==
  /\ Fetch({"JMP"})
  /\ at' = at + 1 + Signed(Arg1)
  /\ ws' = Pop(1)
  /\ UNCHANGED <<rom, zp, out, status>>

Jcn ==
  /\ Fetch({"JCN"})
  /\ at' = at + 1 + (IF Arg2 # 0 THEN Signed(Arg1) ELSE 0)
  /\ ws' = Pop(2)
  /\ UNCHANGED <<rom, zp, out, status>>

(* Past the program: BRK.                                                  *)
Break ==
  /\ status = "running"
  /\ at >= Len(rom)
  /\ status' = "halted"
  /\ UNCHANGED <<rom, at, ws, zp, out>>

(* Before the program, or in the middle of a literal: whatever is there is *)
(* executed, and nothing more is said about the run.                       *)
Astray ==
  /\ status = "running"
  /\ \/ at < 0
     \/ at < Len(rom) /\ Here.op = "RAW"
  /\ status' = "lost"
  /\ UNCHANGED <<rom, at, ws, zp, out>>

Underflow ==
  /\ status = "running"
  /\ at \in 0 .. Len(rom) - 1
  /\ Here.op # "RAW"
  /\ Len(ws) < Arity(Here.op)
  /\ status' = "underflow"
  /\ UNCHANGED <<rom, at, ws, zp, out>>

Execute ==
  \/ Lit
  \/ Lit2
  \/ Ldz
  \/ Stz
  \/ Deo
  \/ Compute
  \/ Jmp
  \/ Jcn
  \/ Break
  \/ Astray
  \/ Underflow
=============================================================================
