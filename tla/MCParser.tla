------------------------------- MODULE MCParser -------------------------------
(***************************************************************************)
(* Token lists for the model checker: bodies of one function over the      *)
(* tokens that interact, and programs with one token changed, missing,     *)
(* added, or broken off, with something behind them that looks like tokens.*)
(***************************************************************************)
EXTENDS ParserGrammar

T(type) == Word(type)
X == [type |-> "IDENTIFIER", text |-> "x"]
One == [type |-> "NUMBER", text |-> "1"]
Zero == [type |-> "NUMBER", text |-> "0"]
Wide == [type |-> "NUMBER", text |-> "65537"]
Letter == [type |-> "CHAR_LITERAL", text |-> "a"]

XHex   == [type |-> "IDENTIFIER", text |-> "xf"]
XUpper == [type |-> "IDENTIFIER", text |-> "xF"]
XWrong == [type |-> "IDENTIFIER", text |-> "xG"]

UpTo(S, n) == UNION {[1 .. k -> S] : k \in 0 .. n}

Some(types) == {T(w) : w \in types}

InFunction(body) ==
  <<T("fn"), X, T("("), T(")"), T("void"), T("="), T("{")>> \o body \o <<T("}"), T(";")>>

LetX == <<T("let"), X, T(":"), T("u8"), T("=")>>

OneStatement == {b \o <<T(";")>> :
  b \in UpTo({X, One, T("*"), T("=")}, 6)
         \union UpTo({X, T("*"), T("=")}, 7)
         \union {LetX \o b : b \in UpTo({X, One, T("+"), T("="), T("*")}, 4)}
         \union UpTo({X, One, T("+"), T("="), T("*"), T("return")}, 4)
         \union UpTo({Zero, XHex, XUpper, XWrong, Wide, T("+")}, 4)
         \union UpTo({X, Letter, T("("), T(")"), T("="), T("if")}, 4)}

Bodies == OneStatement \union UpTo({One, T(";"), T("{"), T("}"), T("-")}, 4)

(* Chains of up to five operands.                                          *)
Chain(ops) ==
  [k \in 1 .. 2 * Len(ops) + 1 |-> IF k % 2 = 1 THEN One ELSE T(ops[k \div 2])]

OperatorChains ==
  {Chain(o) \o <<T(";")>> : o \in UpTo({"==", "<", "+", "*"}, 4)
                                     \union UpTo({"-", "/", ">=", "!="}, 2)}

(* Two functions, parameters, nested conditionals.                         *)
Whole ==
  {InFunction(LetX \o <<One, T(";")>>
              \o <<T("if"), T("("), X, T(">"), One, T(")"), T("{"), X, T("="), Letter, T(";"), T("}"),
                   T("else"), T("{"), T("*"), X, T("="), One, T(";"), One, T(";"), T("}"), T(";")>>),
   <<T("fn"), X, T("("), X, T(":"), T("u8"), T(","), X, T(":"), T("void"), T(")"), T("u16"), T("="),
     T("{"), T("return"), X, T("("), T(")"), T("*"), One, T(";"), T("}"), T(";")>>
   \o InFunction(<<X, T(";")>>)}

AllTypes ==
  Some({"fn", "let", "if", "else", "return", "for", "void", "u8", ":", ",", ";", "{", "}",
        "(", ")", "=", "==", "+", "*"}) \union {X, One, Zero, Letter, XHex}

Without(p, k)    == SubSeq(p, 1, k - 1) \o SubSeq(p, k + 1, Len(p))
With(p, k, t)    == SubSeq(p, 1, k) \o <<t>> \o SubSeq(p, k + 1, Len(p))
Changed(p, k, t) == [p EXCEPT ![k] = t]

Edited ==
  Whole \union {Without(p, k) : p \in Whole, k \in 1 .. 30}
    \union UNION {{With(p, k, t) : k \in 0 .. Len(p), t \in AllTypes} : p \in Whole}
    \union UNION {{Changed(p, k, t) : k \in 1 .. Len(p), t \in AllTypes} : p \in Whole}

TokenLists == {InFunction(b) : b \in Bodies \union OperatorChains} \union Edited \union {<<>>}

Truncated == UNION {{SubSeq(p, 1, k) : k \in 0 .. Len(p)} : p \in Whole}

AllInputs ==
  {[tokens |-> t, beyond |-> <<>>] : t \in TokenLists}
    \union {[tokens |-> t, beyond |-> b] :
              t \in Truncated, b \in {<<t>> : t \in AllTypes}
                                    \union {<<One, T(";"), T("}"), T(";")>>, <<T("}"), T(";")>>}}

ChainInputs == {[tokens |-> InFunction(b), beyond |-> <<>>] : b \in OperatorChains}

Hexadecimal == {"xf", "xF"}
NotHexadecimal == {"xG"}
AllTexts == {"", "x", "1", "0", "65537", "a", "unset"} \union Hexadecimal \union NotHexadecimal
Canonical == [t \in AllTexts |-> IF t = "xF" THEN "xf" ELSE IF t = "65537" THEN "1" ELSE t]
=============================================================================
