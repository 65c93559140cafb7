-------------------------------- MODULE Syntax --------------------------------
(***************************************************************************)
(* The words of the language that both its grammar and its parser speak    *)
(* of, and the trees.  A token is a record of its type, named by its       *)
(* spelling, and its text; where there is no text to keep, that is empty.  *)
(***************************************************************************)
EXTENDS ExprTree

CONSTANTS
  Texts,      (* what stands in tokens                                     *)
  HexDigits,  (* identifiers that are the digits of a hexadecimal number:  *)
              (* an x and hexadecimal digits                               *)
  HexWrong,   (* identifiers of an x and more that are not                 *)
  Spelling    (* how the value of a number is written that has this text:  *)
              (* 16 bits of it, in either base, with no zeros before it    *)

(* The value of a number that nobody sets is one of its own.               *)
ASSUME TextsAssumption == {"", "0", "unset"} \union HexDigits \union HexWrong \subseteq Texts

ASSUME SpellingAssumption ==
  /\ Spelling \in [Texts -> Texts]
  /\ \A t \in Texts : Spelling[t] \in HexDigits <=> t \in HexDigits

WithText == {"IDENTIFIER", "NUMBER", "CHAR_LITERAL", "STRING_LITERAL"}

ProgramTypes == {"void", "u8", "u16"}

TokenType ==
  WithText \union ProgramTypes
    \union {":", ",", ";", "{", "}", "[", "]", "(", ")"}
    \union {"fn", "let", "=", "return", "if", "else", "for"}
    \union {"+", "-", "*", "/", "==", "!=", "<", "<=", ">", ">="}

Token == [type : TokenType, text : Texts]

Word(w) == [type |-> w, text |-> ""]

(* What the lexer makes.  Digits are no identifier.                        *)
IsLexed(t) ==
  /\ t.type \notin WithText => t.text = ""
  /\ t.type = "NUMBER" => t.text \notin HexDigits

BinaryTag ==
  [w \in {"+", "-", "*", "/", "==", "!=", "<", "<=", ">", ">="} |->
     CASE w = "+"  -> "ADD_E"           [] w = "-"  -> "SUB_E"
       [] w = "*"  -> "MULT_E"          [] w = "/"  -> "DIV_E"
       [] w = "==" -> "EQUAL_EQUAL_E"   [] w = "!=" -> "NOT_EQUAL_E"
       [] w = "<"  -> "LESS_THAN_E"     [] w = "<=" -> "LESS_THAN_EQUAL_E"
       [] w = ">"  -> "GREATER_THAN_E"  [] w = ">=" -> "GREATER_THAN_EQUAL_E"]

-----------------------------------------------------------------------------
(* Names are places in the program.                                        *)
Places == Nat \ {0}

(* The nodes over the trees of T.                                          *)
Nodes(T) ==
  [tag : {"LET_E"}, var : Places, type : ProgramTypes, e : T]
    \union [tag : {"ASSIGN_E"}, var : Places, e : T]
    \union [tag : {"DEREF_E", "RETURN_E"}, e : T]
    \union [tag : {"DEREF_ASSIGN_E"}, e1 : T, e2 : T]
    \union [tag : ByteOps, lhs : T, rhs : T]
    \union [tag : {"IF_ELSE_E"}, cond : T, if_body : T, else_body : Seq(T)]
    \union [tag : {"SEQUENCE_E"}, list : Seq(T)]

Leaves ==
  [tag : {"NUMBER_E"}, value : Texts]
    \union [tag : {"CHAR_LITERAL_E"}, c : Texts]
    \union [tag : {"VARIABLE_E", "FUNCTION_CALL_E"}, name : Places]

(* The trees of n levels of nodes at most.                                 *)
Trees[n \in Nat] == Leaves \union IF n = 0 THEN {} ELSE Nodes(Trees[n - 1])

(* Sequences, one behind the other.                                        *)
Joined(seqs) ==
  LET upTo[k \in 0 .. Len(seqs)] == IF k = 0 THEN <<>> ELSE upTo[k - 1] \o seqs[k]
  IN  upTo[Len(seqs)]
=============================================================================
