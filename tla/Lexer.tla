-------------------------------- MODULE Lexer --------------------------------
(***************************************************************************)
(* The lexer (lexer.c).  lexify reads a file through a buffer of one line, *)
(* one character ahead, and cuts it into tokens.  There is one action per  *)
(* case of next_token and one per turn of its loops.                       *)
(*                                                                         *)
(* The type of a symbol or a keyword is named by its spelling; such a      *)
(* token has no text of its own.                                           *)
(*                                                                         *)
(* A definition named after another one and a mistake (Keyword_KeepsText)  *)
(* is that definition with the mistake made, for the properties to find    *)
(* out.  No specification uses it.                                         *)
(***************************************************************************)
EXTENDS Lexemes, FiniteSets

CONSTANTS
  Texts,     (* the files that are read                                    *)
  Void,      (* the spelling of `void`                                     *)
  BuffSize,  (* size_buff: a fill reads at most BuffSize - 1 characters    *)
  LenMod,    (* the length of a text is a uint8_t: it wraps at LenMod      *)
  PosMod,    (* line and column are uint16_t: they wrap at PosMod          *)
  StrayPos   (* what a line or a column that nobody set may hold           *)

(* The symbols that are one character whatever follows, and those that `=` *)
(* may follow.                                                             *)
Single == {":", ",", ";", "{", "}", "[", "]", "(", ")", "+", "-", "*"}

MayBeDouble == {"=", ">", "<"}

ASSUME TextsAssumption == \A t \in Texts : t \in Seq(STRING)
ASSUME ClassesAssumption ==
  /\ Newline \in Spaces
  /\ Digits \intersect Letters = {} /\ Spaces \intersect (Digits \union Letters) = {}
  /\ (Digits \union Letters \union Spaces)
       \intersect (Single \union MayBeDouble \union {Nul, "/", "!", Tick, Quote, Backslash}) = {}
ASSUME KeywordsAssumption ==
  Keywords \subseteq Seq(Letters \union Digits) \ {<<>>} /\ Void \in Keywords
ASSUME SizesAssumption ==
  /\ BuffSize \in Nat /\ BuffSize > 1
  /\ LenMod \in Nat /\ LenMod > 1
  /\ PosMod \in Nat /\ PosMod > 1
ASSUME StrayPosAssumption == StrayPos \subseteq 0 .. PosMod - 1 /\ StrayPos # {}

VARIABLES
  text,      (* the file                                                   *)
  in,        (* the reader: what is left of the file, the buffer, the      *)
             (* place in it, line, column, the character it gave last, and *)
             (* how many it has given (history)                            *)
  pc,        (* "token" (the loop of lexify), the loop that runs:          *)
             (* "number", "ident", "comment", "string"; "done", "failed",  *)
             (* "crashed"                                                  *)
  tok,       (* the token the running loop makes                           *)
  tokens,    (* the tokens so far                                          *)
  heap       (* how many texts are allocated and not freed                 *)

vars == <<text, in, pc, tok, tokens, heap>>

-----------------------------------------------------------------------------
(* fgets: up to the end of the line, or as much as the buffer holds.       *)
LineEnd(rest) ==
  CHOOSE n \in 1 .. Len(rest) :
    /\ n = Len(rest) \/ n = BuffSize - 1 \/ rest[n] = Newline
    /\ \A k \in 1 .. n - 1 : k # BuffSize - 1 /\ rest[k] # Newline

Refilled_Skips(r) ==
  [r EXCEPT !.buff = SubSeq(r.rest, 1, LineEnd(r.rest)) \o <<Nul>>,
            !.rest = SubSeq(r.rest, LineEnd(r.rest) + 1, Len(r.rest)),
            !.pos  = 2]

Refilled(r) ==
  [r EXCEPT !.buff = SubSeq(r.rest, 1, LineEnd(r.rest)) \o <<Nul>>,
            !.rest = SubSeq(r.rest, LineEnd(r.rest) + 1, Len(r.rest)),
            !.pos  = 1]

(* The character at the place before pos, and the position it is at.       *)
Given(r) ==
  LET c == r.buff[r.pos]
  IN  [r EXCEPT !.c      = c,
                !.line   = IF c = Newline THEN (@ + 1) % PosMod ELSE @,
                !.column = IF c = Newline THEN 0 ELSE (@ + 1) % PosMod,
                !.read   = @ + 1]

NextChar(r) ==
  IF r.buff[r.pos + 1] # Nul THEN Given([r EXCEPT !.pos = @ + 1])
  ELSE IF r.rest # <<>> THEN Given(Refilled(r))
  ELSE [r EXCEPT !.c = Nul]

-----------------------------------------------------------------------------
(* token_one_char and token_only_type, at the position of the reader;      *)
(* begin is where the token began (history).                               *)
Token(kind, spelling, r) ==
  [kind |-> kind, text |-> spelling, line |-> r.line, column |-> r.column,
   begin |-> in.read]

OneChar(kind, c, r) == Token(kind, IF c = Nul THEN <<>> ELSE <<c>>, r)

OnlyType(spelling, r) == Token("ONLY_TYPE", spelling, r)

(* token_append: strlen into a uint8_t.                                    *)
TokenAppend_NoWrap(t, c) == [t EXCEPT !.text = @ \o <<c>>]

TokenAppend(t, c) ==
  [t EXCEPT !.text = SubSeq(@, 1, Len(@) % LenMod) \o <<c>>]

HasText(t) == t.kind \notin {"ONLY_TYPE", "UNKNOWN"}

WithText(list) == {k \in DOMAIN list : HasText(list[k])}

NoToken == [kind |-> "UNKNOWN", text |-> Void, line |-> 0, column |-> 0, begin |-> 0]

Init ==
  /\ text \in Texts
  /\ in = NextChar([rest |-> text, buff |-> <<Nul>>, pos |-> 0, line |-> 1 % PosMod,
                    column |-> 0, c |-> Nul, read |-> 0])
  /\ pc = "token"
  /\ tok = NoToken
  /\ tokens = <<>>
  /\ heap = 0

(* The reader is left as r and one more token is in the list.              *)
Emit(t, r) ==
  /\ pc' = "token"
  /\ tokens' = Append(tokens, t)
  /\ in' = r
  /\ UNCHANGED <<text, tok>>

(* A loop starts with t, or with no token, and the reader as r.            *)
Begin(loop, t, r) ==
  /\ pc' = loop
  /\ tok' = t
  /\ in' = r
  /\ UNCHANGED <<text, tokens>>

(* state->failed: tokens_delete frees the texts of the list.  The text of  *)
(* a character that is no token was never set: what free does to it is     *)
(* anybody's guess.                                                        *)
Fails(r) ==
  /\ pc' \in IF \E k \in DOMAIN tokens : tokens[k].kind = "UNKNOWN"
             THEN {"failed", "crashed"} ELSE {"failed"}
  /\ heap' = heap - Cardinality(WithText(tokens))
  /\ tokens' = <<>>
  /\ in' = r
  /\ UNCHANGED <<text, tok>>

-----------------------------------------------------------------------------
EndOfFile ==
  /\ pc = "token"
  /\ in.c = Nul
  /\ pc' = "done"
  /\ UNCHANGED <<text, in, tok, tokens, heap>>

Blank ==
  /\ pc = "token"
  /\ in.c \in Spaces
  /\ Begin("token", tok, NextChar(in))
  /\ UNCHANGED heap

StartNumber ==
  /\ pc = "token"
  /\ in.c \in Digits
  /\ Begin("number", OneChar("NUMBER", in.c, in), NextChar(in))
  /\ heap' = heap + 1

MoreNumber ==
  /\ pc = "number"
  /\ in.c \in Digits
  /\ Begin("number", TokenAppend(tok, in.c), NextChar(in))
  /\ UNCHANGED heap

EndNumber ==
  /\ pc = "number"
  /\ in.c \notin Digits
  /\ Emit(tok, in)
  /\ UNCHANGED heap

StartIdent ==
  /\ pc = "token"
  /\ in.c \in Letters
  /\ Begin("ident", OneChar("IDENTIFIER", in.c, in), NextChar(in))
  /\ heap' = heap + 1

MoreIdent ==
  /\ pc = "ident"
  /\ in.c \in Letters \union Digits
  /\ Begin("ident", TokenAppend(tok, in.c), NextChar(in))
  /\ UNCHANGED heap

EndIdent ==
  /\ pc = "ident"
  /\ in.c \notin Letters \union Digits
  /\ tok.text \notin Keywords
  /\ Emit(tok, in)
  /\ UNCHANGED heap

(* A keyword has the position of the character that ends it.               *)
Keyword_KeepsText ==
  /\ pc = "ident"
  /\ in.c \notin Letters \union Digits
  /\ tok.text \in Keywords
  /\ Emit([OnlyType(tok.text, in) EXCEPT !.begin = tok.begin], in)
  /\ heap' = heap

Keyword ==
  /\ pc = "ident"
  /\ in.c \notin Letters \union Digits
  /\ tok.text \in Keywords
  /\ Emit([OnlyType(tok.text, in) EXCEPT !.begin = tok.begin], in)
  /\ heap' = heap - 1

Slash ==
  /\ pc = "token"
  /\ in.c = "/"
  /\ LET next == NextChar(in)
     IN  IF next.c = "/" THEN Begin("comment", tok, next)
         ELSE Emit(OnlyType(<<"/">>, next), next)
  /\ UNCHANGED heap

(* Nothing but a newline ends a comment.                                   *)
CommentTurn_Stays ==
  /\ pc = "comment"
  /\ Begin("comment", tok, NextChar(in))
  /\ UNCHANGED heap

CommentTurn ==
  /\ pc = "comment"
  /\ LET next == NextChar(in)
     IN  Begin(IF next.c = Newline THEN "token" ELSE "comment", tok, next)
  /\ UNCHANGED heap

Symbol_Late ==
  /\ pc = "token"
  /\ in.c \in Single
  /\ Emit(OnlyType(<<in.c>>, NextChar(in)), NextChar(in))
  /\ UNCHANGED heap

Symbol ==
  /\ pc = "token"
  /\ in.c \in Single
  /\ Emit(OnlyType(<<in.c>>, in), NextChar(in))
  /\ UNCHANGED heap

(* The next character is read before the position is taken.                *)
SymbolOrEqual_OneRead ==
  /\ pc = "token"
  /\ in.c \in MayBeDouble
  /\ LET next  == NextChar(in)
     IN  IF next.c = "=" THEN Emit(OnlyType(<<in.c, "=">>, next), next)
         ELSE Emit(OnlyType(<<in.c>>, next), next)
  /\ UNCHANGED heap

SymbolOrEqual ==
  /\ pc = "token"
  /\ in.c \in MayBeDouble
  /\ LET next  == NextChar(in)
         after == NextChar(next)
     IN  IF next.c = "=" THEN Emit(OnlyType(<<in.c, "=">>, after), after)
         ELSE Emit(OnlyType(<<in.c>>, next), next)
  /\ UNCHANGED heap

(* A `!` without `=` falls through into `+`, which reads on once more.     *)
Bang ==
  /\ pc = "token"
  /\ in.c = "!"
  /\ LET next  == NextChar(in)
         after == NextChar(next)
     IN  Emit(OnlyType(IF next.c = "=" THEN <<"!", "=">> ELSE <<"+">>,
                       IF next.c = "=" THEN after ELSE next),
              after)
  /\ UNCHANGED heap

(* A character literal: the character, or \n, then whatever stands where   *)
(* the closing tick should, which is only complained about.                *)
CharLiteral ==
  /\ pc = "token"
  /\ in.c = Tick
  /\ LET first  == NextChar(in)
         second == NextChar(first)
         wrong  == first.c = Tick \/ (first.c = Backslash /\ second.c # "n")
         last   == IF first.c = Backslash THEN second ELSE first
         value  == IF first.c = Backslash THEN Newline ELSE first.c
     IN  IF wrong THEN Fails(last)
         ELSE /\ Emit(OneChar("CHAR_LITERAL", value, last), NextChar(NextChar(last)))
              /\ heap' = heap + 1

(* A string literal: the first character is taken whatever it is.          *)
StartString ==
  /\ pc = "token"
  /\ in.c = Quote
  /\ LET next == NextChar(in)
     IN  Begin("string", OneChar("STRING_LITERAL", next.c, next), next)
  /\ heap' = heap + 1

MoreString ==
  /\ pc = "string"
  /\ LET next == NextChar(in)
     IN  /\ next.c \notin {Nul, Quote}
         /\ Begin("string", TokenAppend(tok, next.c), next)
  /\ UNCHANGED heap

(* Both next_string_literal and next_token read on after the quote.        *)
EndString ==
  /\ pc = "string"
  /\ LET next == NextChar(in)
     IN  /\ next.c = Quote
         /\ Emit(tok, NextChar(NextChar(next)))
  /\ UNCHANGED heap

OpenString ==
  /\ pc = "string"
  /\ NextChar(in).c = Nul
  /\ Fails(NextChar(in))

(* Any other character becomes a token of type void: its type is all that  *)
(* is set (lexer.c:369-370).  Its text, its line and its column are what   *)
(* the stack held.                                                         *)
Unknown ==
  /\ pc = "token"
  /\ in.c \notin Spaces \union Digits \union Letters \union Single \union MayBeDouble
                  \union {Nul, "/", "!", Tick, Quote}
  /\ \E l, m \in StrayPos :
       Emit([Token("UNKNOWN", Void, in) EXCEPT !.line = l, !.column = m], NextChar(in))
  /\ UNCHANGED heap

Next ==
  \/ EndOfFile
  \/ Blank
  \/ StartNumber \/ MoreNumber \/ EndNumber
  \/ StartIdent \/ MoreIdent \/ EndIdent \/ Keyword
  \/ Slash \/ CommentTurn
  \/ Symbol \/ SymbolOrEqual \/ Bang
  \/ CharLiteral
  \/ StartString \/ MoreString \/ EndString \/ OpenString
  \/ Unknown

Spec == Init /\ [][Next]_vars

(* One thread: the lexer goes on while it can.                             *)
FairSpec == Spec /\ WF_vars(Next)

-----------------------------------------------------------------------------
(* The listing: every token as it is spelled, on a line of its own.        *)
fprintf_token(t) ==
  CASE t.kind = "CHAR_LITERAL" ->
         <<Tick>> \o (IF t.text = <<Newline>> THEN <<Backslash, "n">> ELSE t.text) \o <<Tick>>
    [] t.kind = "STRING_LITERAL" -> <<Quote>> \o t.text \o <<Quote>>
    [] OTHER -> t.text

fprintf_tokens(list) ==
  LET from[k \in 1 .. Len(list) + 1] ==
        IF k > Len(list) THEN <<>>
        ELSE Append(fprintf_token(list[k]), Newline) \o from[k + 1]
  IN  from[1]

-----------------------------------------------------------------------------
Loops == {"number", "ident", "comment", "string"}

(* The shape of the state: the place is inside the buffer, which ends with *)
(* the one terminator, and no text is longer than its counted length.      *)
TypeOK ==
  /\ in.pos \in 0 .. Len(in.buff) - 1
  /\ Len(in.buff) <= BuffSize
  /\ in.buff[Len(in.buff)] = Nul
  /\ in.line \in 0 .. PosMod - 1 /\ in.column \in 0 .. PosMod - 1
  /\ pc \in Loops \union {"token", "done", "failed", "crashed"}
  /\ HasText(tok) => Len(tok.text) <= LenMod
  /\ heap \in Nat

NulFree == \A k \in DOMAIN text : text[k] # Nul

(* The place of the n-th character: its line, and its column in it.        *)
Place(n) ==
  LET newlines == {k \in 1 .. n : text[k] = Newline}
      last     == CHOOSE k \in newlines \union {0} : \A j \in newlines : j <= k
  IN  <<(1 + Cardinality(newlines)) % PosMod, (n - last) % PosMod>>

(* The buffer neither loses nor repeats a character, however the lines are *)
(* cut into fills, and line and column go with it.                         *)
InStep ==
  NulFree =>
    /\ \/ in.read > 0 /\ in.c = text[in.read]
       \/ in.read = Len(text) /\ in.c = Nul
    /\ <<in.line, in.column>> = Place(in.read)

(* What is not promised: the character after a string literal, which is    *)
(* dropped and must be a blank, and texts longer than their length counts. *)
Promised ==
  /\ Legal(text)
  /\ \A k \in DOMAIN Pieces(text) :
       LET w == Pieces(text)[k]
       IN  /\ IsNumber(w) \/ IsWord(w) => Len(w) <= LenMod
           /\ IsString(w) => /\ Len(w) - 2 <= LenMod
                             /\ \/ k = Len(Pieces(text))
                                \/ IsBlank(Pieces(text)[k + 1])

(* Reading one character ahead and deciding case by case finds the longest *)
(* lexemes: of a legal text nothing is refused, what is in the list is the *)
(* beginning of the tokens meant, and at the end it is all of them; and    *)
(* the listing of them is a text with the same tokens.                     *)
TokensAreMeant ==
  Promised =>
    LET meant == TokensMeant(text)
    IN  /\ pc \notin {"failed", "crashed"}
        /\ Len(tokens) <= Len(meant)
        /\ pc = "done" => /\ Len(tokens) = Len(meant)
                          /\ Legal(fprintf_tokens(tokens))
                          /\ TokensMeant(fprintf_tokens(tokens)) = meant
        /\ \A k \in DOMAIN tokens :
             tokens[k].kind = meant[k].kind /\ tokens[k].text = meant[k].text

(* Where an error message will point: names, numbers and the symbols of    *)
(* one character are at the place of their first character.  A character   *)
(* of no token has no place: the lexer never sets it.                      *)
PointsAtStart ==
  NulFree =>
    \A k \in DOMAIN tokens :
      LET t == tokens[k]
      IN  \/ t.kind \in {"NUMBER", "IDENTIFIER"}
          \/ t.kind = "ONLY_TYPE" /\ t.text[1] \in Single /\ text[t.begin] # "!"
          => <<t.line, t.column>> = Place(t.begin)

(* Every text that was allocated is in the list or in the running loop.    *)
(* After a failure all of them are freed but that of an open string        *)
(* literal.  Freeing them can only go wrong after a character that no      *)
(* token of the language contains outside of literals and comments.        *)
TextsOwned ==
  /\ IF pc \in {"failed", "crashed"}
     THEN tokens = <<>> /\ heap <= 1
     ELSE heap = Cardinality(WithText(tokens))
                   + (IF pc \in Loops \ {"comment"} THEN 1 ELSE 0)
  /\ pc = "crashed" =>
       \E k \in DOMAIN text :
         /\ text[k] \notin Digits \union Letters \union Spaces \union {Quote, Tick, "!"}
         /\ \A w \in Symbols : text[k] \notin {w[j] : j \in DOMAIN w}

(* A comment that the end of the file ends.                                *)
OpenComment ==
  \E k \in 1 .. Len(text) - 1 :
    /\ text[k] = "/" /\ text[k + 1] = "/"
    /\ \A j \in k + 2 .. Len(text) : text[j] # Newline

(* Every other text is cut into tokens or refused in the end.              *)
LexReturns ==
  NulFree /\ ~OpenComment => <>(pc \in {"done", "failed", "crashed"})

-----------------------------------------------------------------------------
(* "This functions deletes all the comments" (lexer.h:61), whichever       *)
(* comments there are: lexify returns.                                     *)
CommentsAreDeleted == <>(pc \in {"done", "failed", "crashed"})
=============================================================================
