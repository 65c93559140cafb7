------------------------------ MODULE MCCodeGen ------------------------------
(***************************************************************************)
(* Function bodies for the model checker: every statement form of the      *)
(* parser around every small operand, with or without a value.             *)
(***************************************************************************)
EXTENDS CodeGen, ExprTree

(* 5 cells each: LIT n LIT a STZ.  52 of them are a body over 255 cells.   *)
Long(n) == Seq2([k \in 1 .. n |-> Set("x", Num(k))])

(* What may stand anywhere in a chain, and what may stand last.            *)
Operands == {Num(7), Num(300), Num(5000), Char(65), Var("x"), Var("y"), Call("f"),
             If(Var("x"), Seq2(<<Var("x")>>))}
Last     == Operands \union {Ret(Num(1)), Ref(Num(0)), Set("x", Var("y"))}

Chains ==
  Last
    \union {Join(l, t, r) : t \in {"ADD_E", "LESS_THAN_E"}, l \in Operands, r \in Last}
    \union {Join(Join(Var("x"), t, l), "MULT_E", r) :
              t \in {"ADD_E", "LESS_THAN_E"}, l \in Operands, r \in Last}

Exprs ==
  Chains
    \union {Out(l, r) : l \in Operands \union {Ret(Num(1))}, r \in Last}
    \union {Set(v, e) : v \in {"x", "y"}, e \in Chains}
    \union {If(c, Seq2(<<e>>)) : c \in Last, e \in Last}
    \union {IfElseE(c, Seq2(<<e>>), Seq2(<<Var("x"), d>>)) :
              c \in {Num(1), Var("y"), Ret(Var("x"))}, e \in Last, d \in Last}
    \union {If(Var("x"), Long(52)), IfElseE(Var("x"), Long(1), Long(52)),
            If(Var("x"), Long(51))}

AnyPrograms ==
  {Seq2(<<LetE("x", "u16", Num(3)), e>>) : e \in Exprs}
    \union {Seq2(<<LetE("x", "u8", e), LetE("y", "u8", Var("x"))>>) : e \in Exprs}

StrayBytes == {0, 255}
=============================================================================
