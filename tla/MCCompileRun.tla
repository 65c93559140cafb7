---------------------------- MODULE MCCompileRun ----------------------------
(* Bodies for the model checker, with their meaning.                       *)
EXTENDS CompileRun, MCCodeGen

(* Operands with values at the edges of a byte.                            *)
Leaves == {Num(0), Num(1), Num(200), Var("x")}

Simple == Leaves \union {Join(l, t, r) : t \in ByteOps, l \in Leaves, r \in Leaves}

(* Chains of two operators, nested to the left or to the right as the      *)
(* parser does, and a conditional used for its value.                      *)
Nested ==
  {Join(Join(Num(3), u, Var("x")), t, Num(2)) : t \in ByteOps, u \in ByteOps}
    \union {Join(IfElseE(c, Seq2(<<Num(9)>>), Seq2(<<Join(Var("x"), "ADD_E", Num(1))>>)),
                 "SUB_E", Num(2)) : c \in Leaves}

Stmts ==
  {Set("x", Num(5)), Set("y", Join(Var("x"), "SUB_E", Num(1))),
   Out(Num(24), Var("y")), LetE("x", "u16", Num(6)), LetE("z", "u8", Char(65)),
   IfElseE(Var("x"), Seq2(<<Set("y", Num(2))>>), Seq2(<<Set("y", Num(3)), Out(Num(25), Num(4))>>))}

Bodies ==
  {Seq2(<<LetE("x", "u8", Num(n)), LetE("y", "u16", e), Out(Num(24), Var("y"))>>) :
     n \in {0, 2, 255}, e \in Simple \union Nested}
    \union
  {Seq2(<<LetE("x", "u16", Num(n)), LetE("y", "u8", Num(7)),
          If(c, Seq2(<<s>>)), t, Out(Var("x"), Var("y"))>>) :
     n \in {0, 1}, c \in {Var("x"), Join(Var("x"), "LESS_THAN_E", Num(1))},
     s \in Stmts, t \in Stmts}
    \union
  {Seq2(<<LetE("y", "u8", Num(1)), LetE("x", "u8", Num(n)),
          IfElseE(Var("x"), Seq2(<<s, t>>), Seq2(<<t, s>>)), Out(Num(1), Var("y"))>>) :
     n \in {0, 1}, s \in Stmts, t \in Stmts}
    \union
  {Seq2(<<LetE("x", "u8", Num(n)), If(Var("x"), Long(25)), Out(Num(24), Var("x"))>>) :
     n \in {0, 1}}
    \union
  {Seq2(<<LetE("x", "u8", Num(n)), IfElseE(Var("x"), Long(2), Long(24)),
          Out(Num(24), Var("x"))>>) :
     n \in {0, 1}}

(* Numbers at the edges of one byte, of one cell and of two.               *)
Numbers ==
  {Seq2(<<Num(n), LetE("x", "u8", Num(m))>>) :
     n \in {4095, 4096, 8191, 65280, 65535}, m \in {255, 256}}

(* Characters at the edges of a signed char, and in the branch that is     *)
(* executed or in the other one.                                           *)
Chars ==
  {Seq2(<<LetE("x", "u8", Num(n)), s>>) :
     n \in {0, 1},
     s \in UNION {{LetE("y", "u8", Char(c)), Out(Num(24), Char(c)),
                   Set("x", Join(Char(c), "ADD_E", Var("x"))),
                   If(Var("x"), Seq2(<<Set("x", Char(c))>>)),
                   IfElseE(Char(c), Seq2(<<Set("x", Num(2))>>), Seq2(<<Set("x", Num(3))>>))} :
                  c \in {-128, -23, -1, 127}}}

AllBodies == Bodies \union AnyPrograms \union Numbers \union Chars

(* One body per statement of the documentation that does not hold.         *)
BoundaryComparison ==
  {Seq2(<<LetE("x", "u8", Join(Num(4), t, Num(n)))>>) :
     t \in {"GREATER_THAN_EQUAL_E", "LESS_THAN_EQUAL_E"}, n \in {3, 4, 5}}

LongBranches ==
  {Seq2(<<LetE("x", "u8", Num(n)), IfElseE(Var("x"), Long(k), Long(1))>>) :
     n \in {0, 1}, k \in 25 .. 27}

-----------------------------------------------------------------------------
RECURSIVE TreesOf(_)
RECURSIVE DepthOf(_)

(* The expressions the trees are made of, no sequence longer than 60, and  *)
(* in turn what these are made of.                                         *)
PartsOf(trees) ==
  {SubExprs(p[1])[p[2]] : p \in {q \in trees \X (1 .. 60) : q[2] <= Len(SubExprs(q[1]))}}

TreesOf(trees) == IF trees = {} THEN {} ELSE trees \union TreesOf(PartsOf(trees))

DepthOf(e) ==
  LET parts == {DepthOf(SubExprs(e)[k]) : k \in DOMAIN SubExprs(e)}
  IN  IF parts = {} THEN 0 ELSE 1 + (CHOOSE d \in parts : \A c \in parts : c <= d)

(* The depth of every tree that bodies are made of.                        *)
Depths(bodies) == [e \in TreesOf(bodies) |-> DepthOf(e)]

AllDepths      == Depths(AllBodies)
BoundaryDepths == Depths(BoundaryComparison)
BranchDepths   == Depths(LongBranches)
=============================================================================
