------------------------------- MODULE Lexemes -------------------------------
(***************************************************************************)
(* What the tokens of the language are, independently of how they are      *)
(* read: a text is cut from the left, always at the longest piece that is  *)
(* a lexeme, and blanks and comments are dropped.                          *)
(*                                                                         *)
(* A character is a string, a text a sequence of characters.               *)
(***************************************************************************)
EXTENDS Integers, Sequences

CONSTANTS
  Digits,    (* isdigit                                                    *)
  Letters,   (* isalpha, and `_`                                           *)
  Spaces,    (* isspace                                                    *)
  Keywords   (* the spellings of the keywords                              *)

Nul       == "nul"
Newline   == "newline"
Tick      == "'"
Quote     == "quote"
Backslash == "backslash"

Symbols ==
  {<<s>> : s \in {":", ",", ";", "{", "}", "[", "]", "(", ")",
                  "+", "-", "*", "/", "=", ">", "<"}}
    \union {<<s, "=">> : s \in {"=", "!", ">", "<"}}

All(S, w) == \A k \in DOMAIN w : w[k] \in S

IsNumber(w) == w # <<>> /\ All(Digits, w)

IsWord(w) == w # <<>> /\ w[1] \in Letters /\ All(Letters \union Digits, w)

IsChar(w) ==
  \/ w = <<Tick, Backslash, "n", Tick>>
  \/ /\ Len(w) = 3
     /\ w[1] = Tick /\ w[3] = Tick
     /\ w[2] \notin {Tick, Backslash}

IsString(w) ==
  /\ Len(w) > 2
  /\ w[1] = Quote /\ w[Len(w)] = Quote
  /\ \A k \in 2 .. Len(w) - 1 : w[k] # Quote

IsBlank(w) == Len(w) = 1 /\ w[1] \in Spaces

IsComment(w) ==
  /\ Len(w) > 1
  /\ w[1] = "/" /\ w[2] = "/"
  /\ \A k \in DOMAIN w : w[k] # Newline

IsLexeme(w) ==
  \/ IsNumber(w) \/ IsWord(w) \/ IsChar(w) \/ IsString(w)
  \/ IsBlank(w) \/ IsComment(w) \/ w \in Symbols

(* The piece of t at i: the longest lexeme there, or the rest of t where   *)
(* no lexeme fits.                                                         *)
Piece(t, i) ==
  LET ends == {j \in i .. Len(t) : IsLexeme(SubSeq(t, i, j))}
  IN  SubSeq(t, i, IF ends = {} THEN Len(t)
                   ELSE CHOOSE j \in ends : \A k \in ends : k <= j)

(* What Of makes of the pieces of t, from left to right.                   *)
Along(t, Of(_)) ==
  LET from[i \in 1 .. Len(t) + 1] ==
        IF i > Len(t) THEN <<>>
        ELSE Of(Piece(t, i)) \o from[i + Len(Piece(t, i))]
  IN  from[1]

Pieces(t) == Along(t, LAMBDA w : <<w>>)

Legal(t) ==
  /\ \A k \in DOMAIN t : t[k] # Nul
  /\ \A k \in DOMAIN Pieces(t) : IsLexeme(Pieces(t)[k])

(* The token of a lexeme: its kind and, unless that says it all, its text. *)
Meant(w) ==
  CASE IsNumber(w) -> [kind |-> "NUMBER", text |-> w]
    [] IsWord(w)   -> [kind |-> IF w \in Keywords THEN "ONLY_TYPE" ELSE "IDENTIFIER",
                       text |-> w]
    [] IsChar(w)   -> [kind |-> "CHAR_LITERAL",
                       text |-> IF Len(w) = 4 THEN <<Newline>> ELSE <<w[2]>>]
    [] IsString(w) -> [kind |-> "STRING_LITERAL", text |-> SubSeq(w, 2, Len(w) - 1)]
    [] OTHER       -> [kind |-> "ONLY_TYPE", text |-> w]

Kept(w) == IF IsBlank(w) \/ IsComment(w) THEN <<>> ELSE <<Meant(w)>>

TokensMeant(t) == Along(t, Kept)
=============================================================================
