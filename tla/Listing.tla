------------------------------- MODULE Listing -------------------------------
(***************************************************************************)
(* How a cell of a program becomes a word of the listing, and the word a   *)
(* cell of the rom.  In the program an instruction is the number of an     *)
(* enumeration, whose order is the compiler's own and not the machine's:   *)
(* only the names carry over.                                              *)
(***************************************************************************)
EXTENDS Integers, Sequences

Bases ==
  <<"INC", "POP", "NIP", "SWP", "ROT", "DUP", "OVR",
    "EQU", "NEQ", "GTH", "LTH", "JMP", "JCN", "JSR", "STH",
    "LDZ", "STZ", "LDR", "STR", "LDA", "STA", "DEI", "DEO",
    "ADD", "SUB", "MUL", "DIV", "AND", "ORA", "EOR", "SFT">>

Modes == <<"", "2", "r", "2r", "k", "2k", "kr", "2kr">>

(* The enumeration: each base in the eight modes, and a first row of the   *)
(* instructions that have not all of them.                                 *)
Instruction ==
  [n \in 0 .. 255 |->
     IF n < 8
     THEN <<"BRK", "LIT2", "LITr", "LIT2r", "LIT", "JCI", "JMI", "JSI">>[n + 1]
     ELSE Bases[n \div 8] \o Modes[(n % 8) + 1]]

Names == {Instruction[n] : n \in 0 .. 255}

Value == [name \in Names |-> CHOOSE n \in 0 .. 255 : Instruction[n] = name]

(* There is a case for every number.                                       *)
fprintf_uxn_instruction(n) == Instruction[n]

HexDigit ==
  <<"0", "1", "2", "3", "4", "5", "6", "7", "8", "9", "a", "b", "c", "d", "e", "f">>

HexWord == [b \in 0 .. 255 |-> HexDigit[b \div 16 + 1] \o HexDigit[(b % 16) + 1]]

Printed(cell) ==
  IF cell.op = "RAW" THEN HexWord[cell.byte % 256]
  ELSE fprintf_uxn_instruction(Value[cell.op])

(* The word of every cell; comments are left out.                          *)
fprintf_uxn_program(cells) == [k \in DOMAIN cells |-> Printed(cells[k])]

-----------------------------------------------------------------------------
(* The assembler: a name is an instruction, two small digits are a byte.   *)
ByteOf == [w \in {HexWord[b] : b \in 0 .. 255} |-> CHOOSE b \in 0 .. 255 : HexWord[b] = w]

Assembled(word) ==
  IF word \in Names THEN [op |-> word, byte |-> 0]
  ELSE [op |-> "RAW", byte |-> ByteOf[word]]

uxnasm(listing) == [k \in DOMAIN listing |-> Assembled(listing[k])]
=============================================================================
