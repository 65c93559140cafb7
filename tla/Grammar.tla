------------------------------- MODULE Grammar -------------------------------
(***************************************************************************)
(* What the programs of the language are and which trees they have,        *)
(* independently of how they are parsed: an ambiguous grammar over spans   *)
(* of a token list, and three rules that leave one reading.                *)
(*                                                                         *)
(*   - Operators bind as in hare_grammar.txt: * and / first, then + and -, *)
(*     then the four orders, then == and !=; equal ones from the left.     *)
(*   - let, =, return and a prefix * take all that follows, so that no     *)
(*     operator stands behind them.                                        *)
(*   - A `=` belongs to the nearest variable or prefix * that may take it; *)
(*     directly behind a prefix * a variable leaves it to the *.           *)
(*                                                                         *)
(* A name in a tree is the place of its token in the list.                 *)
(***************************************************************************)
EXTENDS Syntax

LOCAL INSTANCE SequencesExt

Level(w) ==
  CASE w \in {"*", "/"} -> 1
    [] w \in {"+", "-"} -> 2
    [] w \in {"<", "<=", ">", ">="} -> 3
    [] w \in {"==", "!="} -> 4

(* The tree of a chain of operands c[1], c[3] .. and operators c[2], c[4]..*)
(* The last of the loosest operators is applied last.                      *)
RECURSIVE Grouped(_)
Grouped(c) ==
  IF Len(c) = 1 THEN c[1]
  ELSE LET ops == {k \in DOMAIN c : k % 2 = 0}
           top == CHOOSE k \in ops :
                    \A j \in ops \ {k} :
                      Level(c[j]) < Level(c[k]) \/ (Level(c[j]) = Level(c[k]) /\ j < k)
       IN  Bin(BinaryTag[c[top]], Grouped(SubSeq(c, 1, top - 1)),
               Grouped(SubSeq(c, top + 1, Len(c))))

(* A `=` after d would be taken by something inside d.                     *)
RECURSIVE TakesEqual(_)
TakesEqual(d) ==
  CASE d.tag \in {"VARIABLE_E", "DEREF_E"} -> TRUE
    [] d.tag \in {"LET_E", "ASSIGN_E", "RETURN_E"} -> TakesEqual(d.e)
    [] d.tag = "DEREF_ASSIGN_E" -> TakesEqual(d.e2)
    [] d.tag \in ByteOps \union {"NOT_EQUAL_E"} -> TakesEqual(d.rhs)
    [] OTHER -> FALSE

IsDestination(d) == d.tag = "VARIABLE_E" \/ (d.tag # "ASSIGN_E" /\ ~TakesEqual(d))

-----------------------------------------------------------------------------
RECURSIVE Exprs(_, _, _)
RECURSIVE Chains(_, _, _)
RECURSIVE Lists(_, _, _)

Types(t, i, j) == [k \in 1 .. j - i + 1 |-> t[i + k - 1].type]

At(t, S, w) == {k \in S : t[k].type = w}

Blocks(t, i, j) ==
  IF i < j /\ t[i].type = "{" /\ t[j].type = "}"
  THEN {Seq2(l) : l \in Lists(t, i + 1, j - 1)}
  ELSE {}

(* The readings of tokens i to j as expressions each ended by a `;`.       *)
Lists(t, i, j) ==
  UNION {{<<e>> \o l : e \in Exprs(t, i, k - 1),
                       l \in IF k = j THEN {<<>>} ELSE Lists(t, k + 1, j)} :
         k \in At(t, i .. j, ";")}

Ifs(t, i, j) ==
  UNION {{If(c, b) : c \in Exprs(t, i + 2, k - 1), b \in Blocks(t, k + 1, j)} :
         k \in At(t, i + 2 .. j, ")")}
    \union
  UNION {{IfElseE(c, b, d) : c \in Exprs(t, i + 2, k - 1), b \in Blocks(t, k + 1, m - 1),
                             d \in Blocks(t, m + 1, j)} :
         k \in At(t, i + 2 .. j, ")"), m \in At(t, i + 2 .. j, "else")}

(* What an operator may follow.                                            *)
Closed(t, i, j) ==
  LET types == Types(t, i, j)
  IN  CASE types = <<"CHAR_LITERAL">> -> {Char(t[i].text)}
        [] types = <<"NUMBER">>       -> {Num(t[i].text)}
        [] types = <<"NUMBER", "IDENTIFIER">> ->
             {Num(t[k].text) : k \in {j} \cap {k \in i .. j : t[i].text = "0" /\
                                                              t[k].text \in HexDigits}}
        [] types = <<"IDENTIFIER">>   -> {Var(i)}
        [] types = <<"IDENTIFIER", "(", ")">> -> {Call(i)}
        [] IsPrefix(<<"if", "(">>, types) -> Ifs(t, i, j)
        [] OTHER -> {}

(* What takes all that follows.                                            *)
Open(t, i, j) ==
  LET types == Types(t, i, j)
      n     == Len(types)
  IN  CASE n > 5 /\ types[1] = "let" ->
             {LetE(i + 1, types[4], e) :
                e \in IF /\ types[2] = "IDENTIFIER" /\ types[3] = ":"
                         /\ types[4] \in ProgramTypes /\ types[5] = "="
                      THEN Exprs(t, i + 5, j) ELSE {}}
        [] IsPrefix(<<"IDENTIFIER", "=">>, types) ->
             {Set(i, e) : e \in Exprs(t, i + 2, j)}
        [] n > 1 /\ types[1] = "return" -> {Ret(e) : e \in Exprs(t, i + 1, j)}
        [] n > 1 /\ types[1] = "*" ->
             {Ref(e) : e \in {e \in Exprs(t, i + 1, j) : e.tag # "ASSIGN_E"}}
               \union
             UNION {{Out(d, e) : d \in {d \in Exprs(t, i + 1, k - 1) : IsDestination(d)},
                                 e \in Exprs(t, k + 1, j)} :
                    k \in At(t, i .. j, "=")}
        [] OTHER -> {}

Chains(t, i, j) ==
  {<<e>> : e \in Closed(t, i, j) \union Open(t, i, j)}
    \union
  UNION {{<<e, t[k].type>> \o c : e \in Closed(t, i, k - 1), c \in Chains(t, k + 1, j)} :
         k \in {k \in i + 1 .. j - 1 : t[k].type \in DOMAIN BinaryTag}}

(* The trees of tokens i to j.                                             *)
Exprs(t, i, j) == IF i > j THEN {} ELSE {Grouped(c) : c \in Chains(t, i, j)}

-----------------------------------------------------------------------------
(* Parameters: name, colon, type, and commas between them; one more comma  *)
(* at the end is allowed.                                                  *)
RECURSIVE ArgLists(_, _, _)
ArgLists(t, i, j) ==
  IF i > j THEN {<<>>}
  ELSE IF j < i + 2 \/ t[i].type # "IDENTIFIER" \/ t[i + 1].type # ":"
            \/ t[i + 2].type \notin ProgramTypes
            \/ (j > i + 2 /\ t[i + 3].type # ",")
       THEN {}
       ELSE {<<[name |-> i, type |-> t[i + 2].type]>> \o l : l \in ArgLists(t, i + 4, j)}

Functions(t, i, j) ==
  IF j < i + 6 \/ ~IsPrefix(<<"fn", "IDENTIFIER", "(">>, Types(t, i, j)) THEN {}
  ELSE UNION {{[name |-> i + 1, args |-> l, type |-> t[k + 1].type, expr |-> b] :
                 l \in ArgLists(t, i + 3, k - 1), b \in Blocks(t, k + 3, j)} :
              k \in {k \in At(t, i + 3 .. j - 3, ")") :
                       t[k + 1].type \in ProgramTypes /\ t[k + 2].type = "="}}

(* The readings of t from token i on as functions each ended by a `;`.     *)
RECURSIVE ProgramsFrom(_, _)
ProgramsFrom(t, i) ==
  IF i > Len(t) THEN {<<>>}
  ELSE UNION {{<<f>> \o p : f \in Functions(t, i, k - 1), p \in ProgramsFrom(t, k + 1)} :
              k \in At(t, i .. Len(t), ";")}

Readings(t) == ProgramsFrom(t, 1)
=============================================================================
