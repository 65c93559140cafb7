------------------------------- MODULE MCLexer -------------------------------
(* Texts for the model checker.                                            *)
EXTENDS Lexer

UpTo(S, n) == UNION {[1 .. k -> S] : k \in 0 .. n}

(* Every character class, and then the few that interact, at more length.  *)
AllChars == {"9", "f", "n", " ", Newline, Nul, "/", ";", "}", "=", "!", "<", "+",
             Tick, Backslash, Quote, "$"}

AllTexts ==
  UpTo(AllChars, 3)
    \union UpTo({"f", "n", "9", " "}, 6)
    \union UpTo({"/", Newline, "=", "f"}, 5)
    \union UpTo({Quote, ";", " ", Newline}, 5)
    \union UpTo({Tick, Backslash, "n", "$"}, 5)
    \union UpTo({"=", "!", "<", "/", Newline}, 4)
    \union UpTo({"f", Nul, Newline, "/"}, 5)

CommentTexts == UpTo({"/", Newline, "f"}, 4)

DigitChars  == {"9"}
LetterChars == {"f", "n"}
SpaceChars  == {" ", Newline}
TwoKeywords == {<<"f", "n">>, <<"n">>}
SomePositions == {0, 3}
VoidWord    == <<"n">>
=============================================================================
