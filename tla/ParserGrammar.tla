---------------------------- MODULE ParserGrammar ----------------------------
(***************************************************************************)
(* The parser compared with the grammar of the language.                   *)
(***************************************************************************)
EXTENDS Parser, Grammar

Ended == pc \in {"done", "refused", "crashed"}

(* The program with digits in the place of what are none.                  *)
Repaired ==
  [k \in DOMAIN tokens |->
     IF tokens[k].text \in HexWrong
     THEN [tokens[k] EXCEPT !.text = CHOOSE x \in HexDigits : TRUE] ELSE tokens[k]]

(* Descending with one token of lookahead, clearing abort between the      *)
(* alternatives and reading on past the end, the parser accepts exactly    *)
(* the programs of the grammar, and these without a look past the end.  A  *)
(* 0x with no digits behind it counts as a number all the same: only its   *)
(* value is nobody's.                                                      *)
AcceptsGrammar ==
  Ended =>
    /\ pc = "done" <=> Readings(Repaired) # {}
    /\ pc = "done" => ~past

(* Tokens for which one rotation is as good as the grammar's levels: no    *)
(* `!=`, no comparison followed by an addition followed by a product, and  *)
(* no == followed by an order.                                             *)
Plain ==
  LET levels == [k \in DOMAIN tokens |->
                   IF tokens[k].type \in DOMAIN BinaryTag THEN Level(tokens[k].type) ELSE 0]
  IN  /\ \A k \in DOMAIN tokens : tokens[k].type # "!="
      /\ ~\E i, j, k \in DOMAIN tokens :
            i < j /\ j < k /\ levels[i] > 2 /\ levels[j] = 2 /\ levels[k] = 1
      /\ ~\E i, j \in DOMAIN tokens : i < j /\ levels[i] = 4 /\ levels[j] = 3

(* The tree is the one reading there is: operators bind, a `=` belongs and *)
(* a name points where the grammar says.                                   *)
TreeIsMeant == pc = "done" /\ Plain /\ ~Misread => Readings(tokens) = {ast}

-----------------------------------------------------------------------------
(* The operators are those of hare_grammar.txt:94-132: a tree never        *)
(* differs from the grammar's.                                             *)
TreesFollowGrammar == pc = "done" /\ ~Misread => Readings(tokens) = {ast}
=============================================================================
