------------------------------- MODULE HareSem -------------------------------
(***************************************************************************)
(* What a function body of the language means, independently of how it is  *)
(* compiled: an evaluator over expression trees.  All values are bytes,    *)
(* all variables of a function are one scope and start at 0, and *d = v    *)
(* sends v to device d.  A byte divided by 0 is 0, as on Uxn.              *)
(*                                                                         *)
(* A state is a record of the variables, the output and the value of the   *)
(* expression just evaluated; an expression that has no value (let, =,     *)
(* *d = v, a call, an if without else) leaves NoValue.                     *)
(***************************************************************************)
EXTENDS Integers, Sequences

CONSTANT
  Depth       (* the expressions there are, each with the depth of its tree *)

Expressions == DOMAIN Depth

BinTags == {"ADD_E", "SUB_E", "MULT_E", "DIV_E", "EQUAL_EQUAL_E", "NOT_EQUAL_E",
            "GREATER_THAN_E", "GREATER_THAN_EQUAL_E", "LESS_THAN_E",
            "LESS_THAN_EQUAL_E"}

SubExprs(e) ==
  CASE e.tag \in BinTags                                     -> <<e.lhs, e.rhs>>
    [] e.tag \in {"LET_E", "ASSIGN_E", "DEREF_E", "RETURN_E"} -> <<e.e>>
    [] e.tag = "DEREF_ASSIGN_E"                              -> <<e.e1, e.e2>>
    [] e.tag = "SEQUENCE_E"                                  -> e.list
    [] e.tag = "IF_ELSE_E" -> <<e.cond, e.if_body>> \o e.else_body
    [] OTHER                                                 -> <<>>

(* Expressions are trees: what an expression is made of is less deep.      *)
(* A number has 16 bits, a character is a signed char (8 bits, those over  *)
(* 127 negative), and a variable is declared with one of the two types.    *)
ASSUME TreesAssumption ==
  LET depth == Depth
  IN  /\ depth \in [Expressions -> Nat]
      /\ \A e \in Expressions :
           /\ SubExprs(e) \in Seq(Expressions)
           /\ \A k \in DOMAIN SubExprs(e) : depth[SubExprs(e)[k]] < depth[e]
           /\ e.tag = "IF_ELSE_E" =>
                e.else_body \in Seq(Expressions) /\ Len(e.else_body) <= 1
           /\ e.tag = "NUMBER_E" => e.value \in Nat /\ e.value < 65536
           /\ e.tag = "CHAR_LITERAL_E" => e.c \in -128 .. 127
           /\ e.tag = "LET_E" => e.type \in {"u8", "u16"}

-----------------------------------------------------------------------------
NoValue == -1

Truth(b) == IF b THEN 1 ELSE 0

Operate(tag, l, r) ==
  CASE tag = "ADD_E"                -> (l + r) % 256
    [] tag = "SUB_E"                -> (l - r) % 256
    [] tag = "MULT_E"               -> (l * r) % 256
    [] tag = "DIV_E"                -> IF r > 0 THEN l \div r ELSE 0
    [] tag = "EQUAL_EQUAL_E"        -> Truth(l = r)
    [] tag = "NOT_EQUAL_E"          -> Truth(l # r)
    [] tag = "GREATER_THAN_E"       -> Truth(l > r)
    [] tag = "GREATER_THAN_EQUAL_E" -> Truth(l >= r)
    [] tag = "LESS_THAN_E"          -> Truth(l < r)
    [] tag = "LESS_THAN_EQUAL_E"    -> Truth(l <= r)

(* The variables expressions speak of.                                     *)
Variables ==
  {e.var  : e \in {x \in Expressions : x.tag \in {"LET_E", "ASSIGN_E"}}} \union
  {e.name : e \in {x \in Expressions : x.tag = "VARIABLE_E"}}

Values == NoValue .. 255

States == [env : [Variables -> Values], out : Seq(Values \X Values), val : Values]

Store(s, n, v) == [s EXCEPT !.env[n] = v, !.val = NoValue]

(* The functions of a sequence, one behind the other, from s.              *)
InTurn(steps, s) ==
  LET upTo[k \in 0 .. Len(steps)] == IF k = 0 THEN s ELSE steps[k][upTo[k - 1]]
  IN  upTo[Len(steps)]

(* The state after e is evaluated in state s, when do says what the parts *)
(* of e do.                                                                *)
After(do, e, s) ==
  CASE e.tag = "NUMBER_E"       -> [s EXCEPT !.val = e.value % 256]
    [] e.tag = "CHAR_LITERAL_E" -> [s EXCEPT !.val = e.c % 256]
    [] e.tag = "VARIABLE_E"     -> [s EXCEPT !.val = s.env[e.name]]
    [] e.tag \in BinTags ->
         LET l == do[e.lhs][s]
             r == do[e.rhs][l]
         IN  [r EXCEPT !.val = Operate(e.tag, l.val, r.val)]
    [] e.tag \in {"LET_E", "ASSIGN_E"} ->
         LET v == do[e.e][s] IN Store(v, e.var, v.val)
    [] e.tag = "SEQUENCE_E" ->
         InTurn([k \in 1 .. Len(e.list) |-> do[e.list[k]]], s)
    [] e.tag = "DEREF_ASSIGN_E" ->
         LET v == do[e.e2][s]
             d == do[e.e1][v]
         IN  [d EXCEPT !.out = Append(@, <<d.val, v.val>>), !.val = NoValue]
    [] e.tag = "IF_ELSE_E" ->
         LET c == do[e.cond][s]
         IN  IF c.val # 0 THEN do[e.if_body][c]
             ELSE IF e.else_body # <<>> THEN do[e.else_body[1]][c]
             ELSE [c EXCEPT !.val = NoValue]
    [] OTHER -> [s EXCEPT !.val = NoValue]

(* What every expression does.                                             *)
Eval ==
  LET do[e \in Expressions] == [s \in States |-> After(do, e, s)]
  IN  do

(* Before a body every variable is 0.                                      *)
Fresh == [env |-> [n \in Variables |-> 0], out |-> <<>>, val |-> NoValue]

Meaning(body) == Eval[body][Fresh]

-----------------------------------------------------------------------------
(* e and the expressions inside it.                                        *)
Inside ==
  LET inside[e \in Expressions] ==
        {e} \union UNION {inside[SubExprs(e)[k]] : k \in DOMAIN SubExprs(e)}
  IN  inside

(* P holds of e or of an expression inside it.                             *)
Somewhere(P(_), e) == \E x \in Inside[e] : P(x)

(* e leaves exactly one byte on the stack.                                 *)
HasValue ==
  LET has[e \in Expressions] ==
        \/ e.tag \in BinTags \union {"CHAR_LITERAL_E", "VARIABLE_E", "DEREF_E"}
        \/ e.tag = "NUMBER_E" /\ e.value < 4096
        \/ e.tag = "SEQUENCE_E" /\ Len(e.list) = 1 /\ has[e.list[1]]
        \/ /\ e.tag = "IF_ELSE_E"
           /\ e.else_body # <<>>
           /\ has[e.if_body]
           /\ has[e.else_body[1]]
  IN  has

(* Where the grammar lets any expression stand but code generation needs a *)
(* value: the operands that are not one.                                   *)
MissesValue(e) ==
  \/ e.tag \in BinTags /\ ~(HasValue[e.lhs] /\ HasValue[e.rhs])
  \/ e.tag \in {"LET_E", "ASSIGN_E", "DEREF_E"} /\ ~HasValue[e.e]
  \/ e.tag = "DEREF_ASSIGN_E" /\ ~(HasValue[e.e1] /\ HasValue[e.e2])
  \/ e.tag = "IF_ELSE_E" /\ ~HasValue[e.cond]

(* A character that is not ASCII: its number is written in two bytes, and  *)
(* LIT takes one (compiler.c:407).                                         *)
SplitChar(e) == e.tag = "CHAR_LITERAL_E" /\ e.c < 0

(* How many cells e should be compiled to, besides those of its parts.     *)
OwnCells(e) ==
  CASE e.tag = "NUMBER_E" -> IF e.value < 4096 THEN 2 ELSE 3
    [] e.tag = "CHAR_LITERAL_E" -> IF e.c < 0 THEN 3 ELSE 2
    [] e.tag \in {"VARIABLE_E", "LET_E", "ASSIGN_E"}          -> 3
    [] e.tag \in BinTags \union {"DEREF_ASSIGN_E", "DEREF_E"} -> 1
    [] e.tag = "IF_ELSE_E"                                    -> 6
    [] OTHER                                                  -> 0

Total(numbers) ==
  LET sum[k \in 0 .. Len(numbers)] == IF k = 0 THEN 0 ELSE sum[k - 1] + numbers[k]
  IN  sum[Len(numbers)]

CodeLen ==
  LET len[e \in Expressions] ==
        OwnCells(e) + Total([k \in 1 .. Len(SubExprs(e)) |-> len[SubExprs(e)[k]]])
  IN  len

(* e is meant for what it does, and leaves nothing on the stack.           *)
IsStatement ==
  LET is[e \in Expressions] ==
        \/ e.tag \in {"LET_E", "ASSIGN_E", "DEREF_ASSIGN_E"}
        \/ /\ e.tag = "SEQUENCE_E"
           /\ \A k \in DOMAIN e.list : is[e.list[k]]
        \/ /\ e.tag = "IF_ELSE_E"
           /\ is[e.if_body]
           /\ e.else_body # <<>> => is[e.else_body[1]]
  IN  is

(* The variables e declares, and those it uses above their declaration.    *)
Lets ==
  LET lets[e \in Expressions] ==
        (IF e.tag = "LET_E" THEN {e.var} ELSE {})
          \union UNION {lets[SubExprs(e)[k]] : k \in DOMAIN SubExprs(e)}
  IN  lets

Uses(e) ==
  CASE e.tag = "VARIABLE_E" -> {e.name}
    [] e.tag = "ASSIGN_E"   -> {e.var}
    [] OTHER                -> {}

Undeclared ==
  LET undeclared[e \in Expressions] ==
        LET parts == SubExprs(e)
        IN  Uses(e) \union
            UNION {undeclared[parts[k]] \ UNION {Lets[parts[j]] : j \in 1 .. k - 1} :
                     k \in DOMAIN parts}
  IN  undeclared

(* *e has the value of the zero page at e, which only the compiler's layout *)
(* gives a meaning.                                                         *)
ReadsAtAddress(e) == e.tag = "DEREF_E"

ComparesOrEqual(e) == e.tag \in {"GREATER_THAN_EQUAL_E", "LESS_THAN_EQUAL_E"}

(* A conditional one of whose two jumps does not fit a signed byte.        *)
FarJump(e) ==
  /\ e.tag = "IF_ELSE_E"
  /\ \/ CodeLen[e.if_body] > 127
     \/ e.else_body # <<>> /\ CodeLen[e.else_body[1]] + 3 > 127

(* The bodies the language is meant for: statements over declared          *)
(* variables, values where values are needed, and jumps that reach.        *)
WellFormed(body) ==
  /\ IsStatement[body]
  /\ Undeclared[body] = {}
  /\ ~Somewhere(MissesValue, body)
  /\ ~Somewhere(ReadsAtAddress, body)
  /\ ~Somewhere(FarJump, body)
=============================================================================
