------------------------------- MODULE CodeGen -------------------------------
(***************************************************************************)
(* compile_expr and compile_function (compiler.c): one function body, an   *)
(* expression tree, is turned into a partial program, a sequence of cells  *)
(* that are instructions or raw bytes.  The recursion of the code is an    *)
(* explicit stack of frames, so that the order in which the parts of an    *)
(* expression are compiled, the moment a variable is added to the layout,  *)
(* and what is freed when a part fails can be seen.                        *)
(*                                                                         *)
(* An expression is a record, as in ExprTree.                              *)
(*                                                                         *)
(* A definition named after another one and a mistake (Unwind_ForgetsElse) *)
(* is that definition with the mistake made, for the properties to find    *)
(* out.  No specification uses it.                                         *)
(***************************************************************************)
EXTENDS Integers, Sequences, FiniteSets

CONSTANTS
  Programs,   (* the function bodies to compile                            *)
  StrayAddr   (* what an address nobody set may hold (compiler.c:66-68)    *)

ASSUME StrayAssumption == StrayAddr \subseteq 0 .. 255

VARIABLES
  prog,       (* the body being compiled                                   *)
  stack,      (* the active calls of compile_expr, outermost first         *)
  layout,     (* the variables declared so far: records of name and type   *)
  pc,         (* "compiling", "failing" (NULL is being returned), "done",  *)
              (* "failed"                                                  *)
  code,       (* the partial program of the whole body, when done          *)
  live,       (* partial programs allocated and not yet freed              *)
  cause       (* history: the tag that failed and the tags around it       *)

cgVars == <<prog, stack, layout, pc, code, live, cause>>

-----------------------------------------------------------------------------
(* Cells.                                                                  *)
Inst(o) == [op |-> o, byte |-> 0]
Raw(n)  == [op |-> "RAW", byte |-> n]

(* append_number: an Instruction is one byte wide (-fshort-enums).         *)
Number_NotTruncated(n) ==
  IF n < 4096 THEN <<Raw(n)>> ELSE <<Raw(n % 4096), Raw(n)>>

Number(n) ==
  IF n < 4096 THEN <<Raw(n % 256)>>
              ELSE <<Raw((n % 4096) % 256), Raw(n % 256)>>

(* The number of a byte, after LIT.                                        *)
Byte(n) == <<Inst("LIT")>> \o Number(n)

(* A NUMBER_E.                                                             *)
Literal(n) == <<Inst(IF n < 4096 THEN "LIT" ELSE "LIT2")>> \o Number(n)

BinaryInst ==
  [ADD_E |-> "ADD", SUB_E |-> "SUB", MULT_E |-> "MUL", DIV_E |-> "DIV",
   EQUAL_EQUAL_E |-> "EQU", NOT_EQUAL_E |-> "NEQ",
   GREATER_THAN_E |-> "GTH", GREATER_THAN_EQUAL_E |-> "GTH",
   LESS_THAN_E |-> "LTH", LESS_THAN_EQUAL_E |-> "LTH"]

BinaryTags == DOMAIN BinaryInst

(* The parts of an expression, in the order in which they are compiled.    *)
Parts(e) ==
  CASE e.tag \in BinaryTags                  -> <<e.lhs, e.rhs>>
    [] e.tag \in {"LET_E", "ASSIGN_E", "DEREF_E"} -> <<e.e>>
    [] e.tag = "DEREF_ASSIGN_E"              -> <<e.e1, e.e2>>
    [] e.tag = "SEQUENCE_E"                  -> e.list
    [] e.tag = "IF_ELSE_E"                   -> <<e.cond, e.if_body>> \o e.else_body
    [] OTHER                                 -> <<>>

-----------------------------------------------------------------------------
(* The variable layout, as var_layout_get_addr answers (see VarLayout).    *)
Size(t) == IF t = "u8" THEN 1 ELSE 2

Declared(vars, n) == \E k \in DOMAIN vars : vars[k].name = n

Addr(vars, n) ==
  LET first == CHOOSE k \in DOMAIN vars :
                 vars[k].name = n /\ \A j \in 1 .. k - 1 : vars[j].name # n
      sum[k \in 0 .. Len(vars)] == IF k = 0 THEN 0 ELSE sum[k - 1] + Size(vars[k].type)
  IN  sum[first - 1] % 256

-----------------------------------------------------------------------------
(* Calls and returns.                                                      *)
Frame(e) == [e |-> e, parts |-> <<>>]
Top      == stack[Len(stack)]
Below    == SubSeq(stack, 1, Len(stack) - 1)
Tags(s)  == {s[k].e.tag : k \in DOMAIN s}

(* A sequence starts from an empty program, before its first part.         *)
Entered(e) == IF e.tag = "SEQUENCE_E" THEN 1 ELSE 0

Init ==
  /\ prog \in Programs
  /\ stack = <<Frame(prog)>>
  /\ layout = <<>>
  /\ pc = "compiling"
  /\ code = <<>>
  /\ live = Entered(prog)
  /\ cause = [tag |-> "none", around |-> {}]

Descend ==
  /\ pc = "compiling"
  /\ Len(Top.parts) < Len(Parts(Top.e))
  /\ LET part == Parts(Top.e)[Len(Top.parts) + 1]
     IN  /\ stack' = Append(stack, Frame(part))
         /\ live' = live + Entered(part)
  /\ UNCHANGED <<prog, layout, pc, code, cause>>

(* All the parts of the expression on top are compiled.                    *)
Ready(tags) ==
  /\ pc = "compiling"
  /\ Top.e.tag \in tags
  /\ Len(Top.parts) = Len(Parts(Top.e))

(* compile_expr returns cells; delta is the change in allocated programs.  *)
(* A sequence concatenates at once what it gets, which frees one.          *)
Return(cells, delta) ==
  /\ IF Below = <<>>
     THEN /\ stack' = <<>>
          /\ code' = cells
          /\ pc' = "done"
          /\ live' = live + delta
     ELSE /\ stack' = [Below EXCEPT ![Len(Below)].parts = Append(@, cells)]
          /\ live' = live + delta - Entered(Below[Len(Below)].e)
          /\ UNCHANGED <<code, pc>>
  /\ UNCHANGED <<prog, cause>>

(* compile_expr returns NULL, having left delta programs behind.           *)
Fail(delta) ==
  /\ stack' = Below
  /\ pc' = IF Below = <<>> THEN "failed" ELSE "failing"
  /\ live' = live + delta
  /\ cause' = [tag |-> Top.e.tag, around |-> Tags(Below)]
  /\ UNCHANGED <<prog, layout, code>>

-----------------------------------------------------------------------------
(* One action per case of the switch, once its parts are compiled.         *)

(* The variable is declared after its value is compiled: the value cannot  *)
(* mention it.                                                             *)
Let ==
  /\ Ready({"LET_E"})
  /\ layout' = Append(layout, [name |-> Top.e.var, type |-> Top.e.type])
  /\ Return(Top.parts[1] \o Byte(Addr(layout', Top.e.var)) \o <<Inst("STZ")>>, 0)

(* Nobody looks whether the variable was found.                            *)
Assign ==
  /\ Ready({"ASSIGN_E"})
  /\ \E a \in IF Declared(layout, Top.e.var)
             THEN {Addr(layout, Top.e.var)} ELSE StrayAddr :
       Return(Top.parts[1] \o Byte(a) \o <<Inst("STZ")>>, 0)
  /\ UNCHANGED layout

Binary_RightFirst ==
  /\ Ready(BinaryTags)
  /\ Return(Top.parts[2] \o Top.parts[1] \o <<Inst(BinaryInst[Top.e.tag])>>, 1 - 2)
  /\ UNCHANGED layout

Binary_KeepsOperand ==
  /\ Ready(BinaryTags)
  /\ Return(Top.parts[1] \o Top.parts[2] \o <<Inst(BinaryInst[Top.e.tag])>>, 1 - 1)
  /\ UNCHANGED layout

(* One program more for the operator, two fewer for the concatenations.    *)
Binary ==
  /\ Ready(BinaryTags)
  /\ Return(Top.parts[1] \o Top.parts[2] \o <<Inst(BinaryInst[Top.e.tag])>>, 1 - 2)
  /\ UNCHANGED layout

Sequence ==
  /\ Ready({"SEQUENCE_E"})
  /\ LET upTo[k \in 0 .. Len(Top.parts)] ==
           IF k = 0 THEN <<>> ELSE upTo[k - 1] \o Top.parts[k]
     IN  Return(upTo[Len(Top.parts)], 0)
  /\ UNCHANGED layout

(* *e1 = e2: the value, then the device, then DEO.                         *)
DerefAssign ==
  /\ Ready({"DEREF_ASSIGN_E"})
  /\ Return(Top.parts[2] \o Top.parts[1] \o <<Inst("DEO")>>, -1)
  /\ UNCHANGED layout

Deref ==
  /\ Ready({"DEREF_E"})
  /\ Return(Top.parts[1] \o <<Inst("LDZ")>>, 0)
  /\ UNCHANGED layout

Variable ==
  /\ Ready({"VARIABLE_E"})
  /\ Declared(layout, Top.e.name)
  /\ Return(Byte(Addr(layout, Top.e.name)) \o <<Inst("LDZ")>>, 1)
  /\ UNCHANGED layout

(* The empty program allocated for the variable is not freed.              *)
UndefinedVariable ==
  /\ Ready({"VARIABLE_E"})
  /\ ~Declared(layout, Top.e.name)
  /\ Fail(1)

NumberLiteral ==
  /\ Ready({"NUMBER_E"})
  /\ Return(Literal(Top.e.value), 1)
  /\ UNCHANGED layout

(* The number append_number is given for a character: char is signed and   *)
(* the parameter a uint16_t, so that a character over 127 has its sign     *)
(* carried into the upper byte.                                            *)
Widened(c) == c % 65536

CharLiteral ==
  /\ Ready({"CHAR_LITERAL_E"})
  /\ Return(Byte(Widened(Top.e.c)), 1)
  /\ UNCHANGED layout

(* A call compiles to nothing, and succeeds.                               *)
FunctionCall ==
  /\ Ready({"FUNCTION_CALL_E"})
  /\ Return(<<>>, 1)
  /\ UNCHANGED layout

(* return and string literals are not compiled yet; the expression of a    *)
(* return is not even looked at.                                           *)
Todo ==
  /\ Ready({"RETURN_E", "STRING_LITERAL_E"})
  /\ Fail(0)

(* The cells of a conditional: the condition jumps over the else body,     *)
(* which ends by jumping over the if body.                                 *)
Branches_OneTooFar(cond, if_body, else_body) ==
  cond \o Byte(Len(else_body) + 4) \o <<Inst("JCN")>>
  \o else_body \o Byte(Len(if_body)) \o <<Inst("JMP")>>
  \o if_body

Branches_CountsJump(cond, if_body, else_body) ==
  cond \o Byte(Len(else_body) + 3) \o <<Inst("JCN")>>
  \o else_body \o Byte(Len(if_body) + 3) \o <<Inst("JMP")>>
  \o if_body

Branches_FromLiteral(cond, if_body, else_body) ==
  cond \o Byte(Len(else_body) + 3) \o <<Inst("JCN")>>
  \o else_body \o Byte((Len(if_body) - 3) % 256) \o <<Inst("JMP")>>
  \o if_body

Branches_NoEnd(cond, if_body, else_body) ==
  cond \o Byte(Len(else_body) + 3) \o <<Inst("JCN")>>
  \o else_body \o Byte(0) \o <<Inst("JMP")>>
  \o if_body

Branches(cond, if_body, else_body) ==
  cond \o Byte(Len(else_body) + 3) \o <<Inst("JCN")>>
  \o else_body \o Byte(Len(if_body)) \o <<Inst("JMP")>>
  \o if_body

IfBody   == Top.parts[2]
ElseBody == IF Len(Top.parts) = 3 THEN Top.parts[3] ELSE <<>>

(* An absent else body is an empty program, one more allocated.            *)
NewElse == IF Len(Top.parts) = 3 THEN 0 ELSE 1

IfElse ==
  /\ Ready({"IF_ELSE_E"})
  /\ Len(ElseBody) <= 255
  /\ Len(IfBody) <= 255
  /\ Return(Branches(Top.parts[1], IfBody, ElseBody), NewElse - 2)
  /\ UNCHANGED layout

(* The bodies and the condition are dropped, not freed.                    *)
IfElseTooLarge ==
  /\ Ready({"IF_ELSE_E"})
  /\ Len(ElseBody) > 255 \/ Len(IfBody) > 255
  /\ Fail(NewElse)

(* A part returned NULL: what the caller frees before it returns NULL too. *)
(* DEREF_ASSIGN_E frees nothing, even when it holds its device.            *)
Freed_KeepsSequence(f) ==
  IF f.e.tag \in BinaryTags \union {"IF_ELSE_E"} THEN Len(f.parts) ELSE 0

Freed(f) ==
  CASE f.e.tag = "SEQUENCE_E"                     -> 1
    [] f.e.tag \in BinaryTags \union {"IF_ELSE_E"} -> Len(f.parts)
    [] OTHER                                      -> 0

Unwind_ForgetsElse ==
  /\ pc = "failing"
  /\ IF Top.e.tag = "IF_ELSE_E" /\ Len(Top.parts) = 2
     THEN /\ stack' = [stack EXCEPT ![Len(stack)].parts = Append(@, <<>>)]
          /\ pc' = "compiling"
          /\ live' = live + 1
     ELSE /\ stack' = Below
          /\ pc' = IF Below = <<>> THEN "failed" ELSE "failing"
          /\ live' = live - Freed(Top)
  /\ UNCHANGED <<prog, layout, code, cause>>

Unwind ==
  /\ pc = "failing"
  /\ stack' = Below
  /\ pc' = IF Below = <<>> THEN "failed" ELSE "failing"
  /\ live' = live - Freed(Top)
  /\ UNCHANGED <<prog, layout, code, cause>>

Compile ==
  \/ Descend
  \/ Let
  \/ Assign
  \/ Binary
  \/ Sequence
  \/ DerefAssign
  \/ Deref
  \/ Variable
  \/ UndefinedVariable
  \/ NumberLiteral
  \/ CharLiteral
  \/ FunctionCall
  \/ Todo
  \/ IfElse
  \/ IfElseTooLarge
  \/ Unwind

Spec == Init /\ [][Compile]_cgVars

-----------------------------------------------------------------------------
(* The shape of the state: every part compiled so far is a sequence of     *)
(* instructions and bytes, and no frame has more parts than its expression *)
(* has.                                                                    *)
Opcodes == {"LIT", "LIT2", "LDZ", "STZ", "DEO", "JMP", "JCN"}
           \union {BinaryInst[t] : t \in BinaryTags}

IsCode(cells) ==
  \A k \in DOMAIN cells :
    \/ cells[k].op \in Opcodes /\ cells[k].byte = 0
    \/ cells[k].op = "RAW" /\ cells[k].byte \in 0 .. 255

TypeOK ==
  /\ pc \in {"compiling", "failing", "done", "failed"}
  /\ pc \in {"compiling", "failing"} <=> stack # <<>>
  /\ \A k \in DOMAIN stack :
       /\ Len(stack[k].parts) <= Len(Parts(stack[k].e))
       /\ \A j \in DOMAIN stack[k].parts : IsCode(stack[k].parts[j])
  /\ \A k \in DOMAIN layout : layout[k].type \in {"u8", "u16"}
  /\ IsCode(code)
  /\ live \in Nat

(* The partial programs a frame holds.                                     *)
Held(f) == IF f.e.tag = "SEQUENCE_E" THEN 1 ELSE Len(f.parts)

HeldBy(s) ==
  LET sum[k \in 0 .. Len(s)] == IF k = 0 THEN 0 ELSE sum[k - 1] + Held(s[k])
  IN  sum[Len(s)]

(* No partial program is lost or freed twice while nothing has failed: the *)
(* ones alive are exactly those some active call will use, and in the end  *)
(* only the result is left.                                                *)
NothingLost ==
  /\ pc = "compiling" => live = HeldBy(stack)
  /\ pc = "done" => live = 1

(* A return or a string literal, wherever it stands, makes the whole       *)
(* compilation fail without losing a program: every call that was waiting  *)
(* frees what it held.  (The device of a *e1 = e2 is the exception.)       *)
CleanFailure ==
  /\ pc = "failed"
  /\ cause.tag \in {"RETURN_E", "STRING_LITERAL_E"}
  /\ "DEREF_ASSIGN_E" \notin cause.around
  => live = 0

(* A failure is never forgotten on the way out: a body in which a part     *)
(* failed is not compiled.                                                 *)
FailureIsFinal ==
  [][cause.tag # "none" => pc' # "done" /\ cause' = cause]_cgVars
=============================================================================
