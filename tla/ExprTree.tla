------------------------------ MODULE ExprTree ------------------------------
(***************************************************************************)
(* The expression trees the parser hands to the compiler.  A node is a     *)
(* record with the tag of the C union and its fields; the optional else    *)
(* body is a sequence of at most one expression.                           *)
(*                                                                         *)
(* There are no parentheses in the language.  An operator expression is a  *)
(* chain of operands; Join is the step parse_binary_expr takes for every   *)
(* operator, with its one rotation.  let, =, return and * take everything  *)
(* that follows them, so that they only stand last in a chain.             *)
(***************************************************************************)
EXTENDS Integers, Sequences

Num(n)           == [tag |-> "NUMBER_E", value |-> n]
Char(n)          == [tag |-> "CHAR_LITERAL_E", c |-> n]
Var(n)           == [tag |-> "VARIABLE_E", name |-> n]
Call(n)          == [tag |-> "FUNCTION_CALL_E", name |-> n]
Ret(e)           == [tag |-> "RETURN_E", e |-> e]
LetE(v, t, e)    == [tag |-> "LET_E", var |-> v, type |-> t, e |-> e]
Set(v, e)        == [tag |-> "ASSIGN_E", var |-> v, e |-> e]
Ref(e)           == [tag |-> "DEREF_E", e |-> e]
Out(d, e)        == [tag |-> "DEREF_ASSIGN_E", e1 |-> d, e2 |-> e]
If(c, b)         == [tag |-> "IF_ELSE_E", cond |-> c, if_body |-> b, else_body |-> <<>>]
IfElseE(c, b, d) == [tag |-> "IF_ELSE_E", cond |-> c, if_body |-> b, else_body |-> <<d>>]
Seq2(s)          == [tag |-> "SEQUENCE_E", list |-> s]

(* The operators the parser makes.  NOT_EQUAL_E is not among them: `!=`    *)
(* becomes EQUAL_EQUAL_E.                                                  *)
ByteOps == {"ADD_E", "SUB_E", "MULT_E", "DIV_E", "EQUAL_EQUAL_E",
            "GREATER_THAN_E", "GREATER_THAN_EQUAL_E", "LESS_THAN_E",
            "LESS_THAN_EQUAL_E"}

(* The weight of a tag in the choice between the two shapes below.         *)
precedence(tag) ==
  CASE tag \in {"EQUAL_EQUAL_E", "NOT_EQUAL_E", "GREATER_THAN_E", "LESS_THAN_E",
                "GREATER_THAN_EQUAL_E", "LESS_THAN_EQUAL_E"} -> 3
    [] tag \in {"ADD_E", "SUB_E"}   -> 2
    [] tag \in {"MULT_E", "DIV_E"}  -> 1
    [] OTHER                        -> 0

Bin(t, l, r) == [tag |-> t, lhs |-> l, rhs |-> r]

Join_NoRotation(expr, t, rhs) == Bin(t, expr, rhs)

(* expr is what the chain gave so far, t and rhs its next operator and     *)
(* operand.                                                                *)
Join(expr, t, rhs) ==
  IF precedence(expr.tag) <= precedence(t)
  THEN Bin(t, expr, rhs)
  ELSE [expr EXCEPT !.rhs = Bin(t, @, rhs)]
=============================================================================
