-------------------------------- MODULE Parser --------------------------------
(***************************************************************************)
(* The parser (parser.c, parser_utils.c): a recursive descent over the     *)
(* tokens, with its calls on an explicit stack.  A frame holds what its    *)
(* function has got so far: places of tokens, types, trees; and, as        *)
(* history, where it was called.  An action is one question to the current *)
(* token and what follows from the answer.                                 *)
(*                                                                         *)
(* current_token does not look at the number of tokens: past the last one  *)
(* it reads what the memory holds, here the tokens beyond and then one     *)
(* that fits nowhere.                                                      *)
(*                                                                         *)
(* A definition named after another one and a mistake is that definition   *)
(* with the mistake made, for the properties to find out.                  *)
(***************************************************************************)
EXTENDS Syntax, FiniteSets

CONSTANT
  Inputs     (* what is parsed: tokens, and what the memory holds beyond   *)

ASSUME InputsAssumption ==
  \A i \in Inputs :
    /\ i.tokens \in Seq(Token) /\ i.beyond \in Seq(Token)
    /\ \A k \in DOMAIN i.tokens : IsLexed(i.tokens[k])

HowMany(i, type) == Cardinality({k \in DOMAIN i.tokens : i.tokens[k].type = type})

(* The tree counts functions and parameters in 8 bits and statements in    *)
(* 16, and there is no room for a 129th function (GrowArray).  Programs    *)
(* are not as long as that.                                                *)
ASSUME CountersAssumption ==
  \A i \in Inputs :
    HowMany(i, "fn") <= 128 /\ HowMany(i, ",") <= 254 /\ HowMany(i, ";") <= 65535

VARIABLES
  tokens,    (* the tokens                                                 *)
  beyond,    (* what looks like tokens behind them                         *)
  index,     (* how many tokens have been taken                            *)
  abort,     (* the calls return NULL, one after the other                 *)
  stack,     (* the calls                                                  *)
  ast,       (* the functions parsed                                       *)
  pc,        (* "parsing", "done", "refused", "deleted", "crashed"         *)
  past,      (* history: a token past the last one was read                *)
  errors,    (* history: an error was written                              *)
  freed      (* history: the texts freed, by place                         *)

vars == <<tokens, beyond, index, abort, stack, ast, pc, past, errors, freed>>

-----------------------------------------------------------------------------
Size == Len(tokens) + Len(beyond)

Outside == [type |-> "nothing", text |-> ""]

TokenAt(n) ==
  IF n < Len(tokens) THEN tokens[n + 1]
  ELSE IF n < Size THEN beyond[n + 1 - Len(tokens)]
  ELSE Outside

current_token == TokenAt(index)

Is(type) == current_token.type = type

(* The next n tokens are looked at.                                        *)
Looks(n) == past' = (past \/ index + n > Len(tokens))

(* n tokens are taken.                                                     *)
Takes(n) == index' = index + n

(* The texts that are freed with the tree e, given those of its parts.     *)
TextsOf(e, texts) ==
  CASE e.tag = "LET_E"          -> <<e.var>> \o texts[e.e]
    [] e.tag \in ByteOps        -> texts[e.lhs] \o texts[e.rhs]
    [] e.tag = "VARIABLE_E"     -> <<e.name>>
    [] e.tag = "SEQUENCE_E"     -> Joined([k \in 1 .. Len(e.list) |-> texts[e.list[k]]])
    [] e.tag = "ASSIGN_E"       -> <<e.var>> \o texts[e.e]
    [] e.tag = "DEREF_ASSIGN_E" -> texts[e.e1] \o texts[e.e2]
    [] e.tag \in {"DEREF_E", "RETURN_E"} -> texts[e.e]
    [] e.tag = "FUNCTION_CALL_E" -> <<e.name>>
    [] e.tag = "IF_ELSE_E" ->
         texts[e.if_body] \o texts[e.cond]
           \o Joined([k \in 1 .. Len(e.else_body) |-> texts[e.else_body[k]]])
    [] OTHER -> <<>>

expression_delete ==
  LET texts[e \in Trees[Size]] == TextsOf(e, texts) IN texts

(* The texts ast_delete frees: not those of the parameters.                *)
ast_delete(functions) ==
  Joined([k \in 1 .. Len(functions) |->
            <<functions[k].name>> \o expression_delete[functions[k].expr]])

-----------------------------------------------------------------------------
(* Calls.                                                                  *)
Top   == stack[Len(stack)]
Below == SubSeq(stack, 1, Len(stack) - 1)

(* What a function cannot do without, in its order: tokens, a type, and    *)
(* calls.  An alternative of parse_unary_expr goes by the token it begins  *)
(* with, and by another name once it turns out to be longer.               *)
Needs ==
  [fn        |-> <<"fn", "IDENTIFIER", "(", "args", ")", "program_type", "=", "expr">>,
   let       |-> <<"let", "IDENTIFIER", ":", "program_type", "=", "binary_expr">>,
   if        |-> <<"if", "(", "binary_expr", ")", "expr">>,
   if_else   |-> <<"if", "(", "binary_expr", ")", "expr", "else", "expr">>,
   deref     |-> <<"*", "binary_expr">>,
   deref_assign |-> <<"*", "binary_expr", "=", "binary_expr">>,
   return    |-> <<"return", "binary_expr">>,
   var       |-> <<"IDENTIFIER">>,
   func_call |-> <<"IDENTIFIER", "(", ")">>,
   var_assign |-> <<"IDENTIFIER", "=", "binary_expr">>,
   arg       |-> <<"IDENTIFIER", ":", "program_type">>]

Callees == {"binary_expr", "expr", "args"}

(* The alternatives of parse_unary_expr that go on behind their token.     *)
Alternative ==
  [w \in {"let", "if", "*", "return", "IDENTIFIER"} |->
     CASE w = "*" -> "deref" [] w = "IDENTIFIER" -> "var" [] OTHER -> w]

Longer == {<<"if", "else", "if_else">>, <<"deref", "=", "deref_assign">>,
           <<"var", "(", "func_call">>, <<"var", "=", "var_assign">>}

Frame(fn, from, got) == [fn |-> fn, from |-> from, got |-> got]

Given(calls, x) == [calls EXCEPT ![Len(calls)].got = Append(@, x)]

(* Nothing has failed, and the function called last runs.                  *)
Running == pc = "parsing" /\ ~abort /\ stack # <<>>

Needing == Running /\ Top.fn \in DOMAIN Needs /\ Len(Top.got) < Len(Needs[Top.fn])

Need == Needs[Top.fn][Len(Top.got) + 1]

Complete == Running /\ Top.fn \in DOMAIN Needs /\ Len(Top.got) = Len(Needs[Top.fn])

Fits_AnyIdentifier ==
  IF Need = "program_type" THEN current_token.type \in ProgramTypes
  ELSE Need = "IDENTIFIER" \/ Is(Need)

(* parse_token_type, parse_identifier and parse_program_type.              *)
Fits ==
  IF Need = "program_type" THEN current_token.type \in ProgramTypes ELSE Is(Need)

Take ==
  /\ Needing /\ Need \notin Callees
  /\ Fits
  /\ stack' = Given(stack, IF Need = "program_type" THEN current_token.type ELSE index + 1)
  /\ Looks(1) /\ Takes(1)
  /\ UNCHANGED <<tokens, beyond, abort, ast, pc, errors, freed>>

Miss_Quiet ==
  /\ Needing /\ Need \notin Callees
  /\ ~Fits
  /\ abort' = TRUE
  /\ Looks(1)
  /\ UNCHANGED <<tokens, beyond, index, stack, ast, pc, errors, freed>>

Miss ==
  /\ Needing /\ Need \notin Callees
  /\ ~Fits
  /\ abort' = TRUE /\ errors' = TRUE
  /\ Looks(1)
  /\ UNCHANGED <<tokens, beyond, index, stack, ast, pc, freed>>

CallFunction ==
  /\ Needing /\ Need \in {"binary_expr", "args"}
  /\ stack' = Append(stack, Frame(Need, index, <<>>))
  /\ UNCHANGED <<tokens, beyond, index, abort, ast, pc, past, errors, freed>>

-----------------------------------------------------------------------------
(* parse_expr: a block, and what stands in it.                             *)
BeginBlock ==
  /\ Needing /\ Need = "expr"
  /\ Is("{")
  /\ stack' = Append(stack, Frame("expr", index, <<>>))
  /\ Looks(1) /\ Takes(1)
  /\ UNCHANGED <<tokens, beyond, abort, ast, pc, errors, freed>>

(* No error is written.                                                    *)
NoBlock ==
  /\ Needing /\ Need = "expr"
  /\ ~Is("{")
  /\ abort' = TRUE
  /\ Looks(1)
  /\ UNCHANGED <<tokens, beyond, index, stack, ast, pc, errors, freed>>

Statement ==
  /\ Running /\ Top.fn = "expr"
  /\ stack' = Append(stack, Frame("binary_expr", index, <<>>))
  /\ UNCHANGED <<tokens, beyond, index, abort, ast, pc, past, errors, freed>>

-----------------------------------------------------------------------------
(* parse_binary_expr: an operand or <<>>, and an operator and its right    *)
(* operand as long as there is one.                                        *)
WantsOperand == Running /\ Top.fn = "binary_expr" /\ Len(Top.got) # 1

HasOperand == Running /\ Top.fn = "binary_expr" /\ Len(Top.got) = 1

token_type_to_binary_tag(w) ==
  IF w = "!=" THEN "EQUAL_EQUAL_E" ELSE BinaryTag[w]

(* The call that waits in calls gets the operand e.                        *)
WithOperand(calls, e) ==
  [calls EXCEPT ![Len(calls)].got =
     IF @ = <<>> THEN <<e>> ELSE <<Join(@[1], token_type_to_binary_tag(@[2]), e)>>]

(* parse_unary_expr: of its alternatives the one that begins with the      *)
(* current token.                                                          *)
CharLiteral ==
  /\ WantsOperand
  /\ Is("CHAR_LITERAL")
  /\ stack' = WithOperand(stack, Char(current_token.text))
  /\ freed' = Append(freed, index + 1)
  /\ Looks(1) /\ Takes(1)
  /\ UNCHANGED <<tokens, beyond, abort, ast, pc, errors>>

(* A 0 and an identifier of an x and more are a number, whatever sscanf    *)
(* makes of the rest; a lone x is not.                                     *)
IsZero == Is("NUMBER") /\ current_token.text = "0"

IsHexadecimal ==
  /\ IsZero
  /\ TokenAt(index + 1).type = "IDENTIFIER"
  /\ TokenAt(index + 1).text \in HexDigits \union HexWrong

Number ==
  /\ WantsOperand
  /\ Is("NUMBER") /\ ~IsHexadecimal
  /\ stack' = WithOperand(stack, Num(Spelling[current_token.text]))
  /\ freed' = Append(freed, index + 1)
  /\ Looks(IF IsZero THEN 2 ELSE 1) /\ Takes(1)
  /\ UNCHANGED <<tokens, beyond, abort, ast, pc, errors>>

HexNumber_KeepsText ==
  /\ WantsOperand
  /\ IsHexadecimal
  /\ LET digits == TokenAt(index + 1).text
         value  == IF digits \in HexDigits THEN Spelling[digits] ELSE "unset"
     IN  stack' = WithOperand(stack, Num(value))
  /\ freed' = Append(freed, index + 1)
  /\ Looks(2) /\ Takes(2)
  /\ UNCHANGED <<tokens, beyond, abort, ast, pc, errors>>

HexNumber ==
  /\ WantsOperand
  /\ IsHexadecimal
  /\ LET digits == TokenAt(index + 1).text
         value  == IF digits \in HexDigits THEN Spelling[digits] ELSE "unset"
     IN  stack' = WithOperand(stack, Num(value))
  /\ freed' = freed \o <<index + 1, index + 2>>
  /\ Looks(2) /\ Takes(2)
  /\ UNCHANGED <<tokens, beyond, abort, ast, pc, errors>>

BeginAlternative ==
  /\ WantsOperand
  /\ current_token.type \in DOMAIN Alternative
  /\ stack' = Append(stack, Frame(Alternative[current_token.type], index, <<index + 1>>))
  /\ Looks(1) /\ Takes(1)
  /\ UNCHANGED <<tokens, beyond, abort, ast, pc, errors, freed>>

(* *x = e has been read as * and the assignment x = e, and is put right.   *)
StarAssignment == Top.fn = "deref" /\ Top.got[2].tag = "ASSIGN_E"

GoesOn(l) == Complete /\ l[1] = Top.fn /\ Is(l[2]) /\ ~StarAssignment

GoOn ==
  /\ \E l \in Longer :
       /\ GoesOn(l)
       /\ stack' = Append(Below, Frame(l[3], Top.from, Append(Top.got, index + 1)))
  /\ Looks(1) /\ Takes(1)
  /\ UNCHANGED <<tokens, beyond, abort, ast, pc, errors, freed>>

(* The tree an alternative makes of what it got.                           *)
Expression(fn, got) ==
  CASE fn = "let"        -> LetE(got[2], got[4], got[6])
    [] fn = "if"         -> If(got[3], got[5])
    [] fn = "if_else"    -> IfElseE(got[3], got[5], got[7])
    [] fn = "deref" -> IF got[2].tag = "ASSIGN_E" THEN Out(Var(got[2].var), got[2].e)
                       ELSE Ref(got[2])
    [] fn = "deref_assign" -> Out(got[2], got[4])
    [] fn = "return"     -> Ret(got[2])
    [] fn = "var"        -> Var(got[1])
    [] fn = "func_call"  -> Call(got[1])
    [] fn = "var_assign" -> Set(got[1], got[3])

(* Whether or not it has asked itself for more, parse_binary_expr looks at *)
(* the same token next.                                                    *)
EndOfAlternative ==
  /\ Complete /\ Top.fn \notin {"fn", "arg"}
  /\ \A l \in Longer : ~GoesOn(l)
  /\ stack' = WithOperand(Below, Expression(Top.fn, Top.got))
  /\ Looks(1)
  /\ UNCHANGED <<tokens, beyond, index, abort, ast, pc, errors, freed>>

Operator ==
  /\ HasOperand
  /\ current_token.type \in DOMAIN BinaryTag
  /\ stack' = Given(stack, current_token.type)
  /\ Looks(1) /\ Takes(1)
  /\ UNCHANGED <<tokens, beyond, abort, ast, pc, errors, freed>>

NoAlternative ==
  current_token.type \notin DOMAIN Alternative \union {"CHAR_LITERAL", "NUMBER"}

Caller == Below[Len(Below)]

(* No error is written where an operator stands before.                    *)
MissingOperand ==
  /\ WantsOperand /\ NoAlternative
  /\ Top.got = <<>> => Caller.fn # "expr"
  /\ abort' = TRUE
  /\ Looks(1)
  /\ UNCHANGED <<tokens, beyond, index, stack, ast, pc, errors, freed>>

-----------------------------------------------------------------------------
(* An expression ends where no operator follows.                           *)
IsWhole == HasOperand /\ current_token.type \notin DOMAIN BinaryTag

EndOfExpression ==
  /\ IsWhole /\ Caller.fn # "expr"
  /\ stack' = Given(Below, Top.got[1])
  /\ Looks(1)
  /\ UNCHANGED <<tokens, beyond, index, abort, ast, pc, errors, freed>>

EndOfStatement ==
  /\ IsWhole /\ Caller.fn = "expr"
  /\ Is(";")
  /\ stack' = Given(Below, Top.got[1])
  /\ Looks(1) /\ Takes(1)
  /\ UNCHANGED <<tokens, beyond, abort, ast, pc, errors, freed>>

OpenStatement ==
  /\ IsWhole /\ Caller.fn = "expr"
  /\ ~Is(";")
  /\ abort' = TRUE /\ errors' = TRUE
  /\ Looks(1)
  /\ UNCHANGED <<tokens, beyond, index, stack, ast, pc, freed>>

NoStatement ==
  WantsOperand /\ NoAlternative /\ Top.got = <<>> /\ Caller.fn = "expr"

EndOfBlock ==
  /\ NoStatement
  /\ Is("}") /\ Caller.got # <<>>
  /\ stack' = Given(SubSeq(stack, 1, Len(stack) - 2), Seq2(Caller.got))
  /\ Looks(1) /\ Takes(1)
  /\ UNCHANGED <<tokens, beyond, abort, ast, pc, errors, freed>>

(* An empty block returns NULL, which nobody takes.                        *)
EmptyBlock ==
  /\ NoStatement
  /\ Is("}") /\ Caller.got = <<>>
  /\ abort' = TRUE /\ errors' = TRUE
  /\ Looks(1) /\ Takes(1)
  /\ UNCHANGED <<tokens, beyond, stack, ast, pc, freed>>

OpenBlock ==
  /\ NoStatement
  /\ ~Is("}")
  /\ abort' = TRUE /\ errors' = TRUE
  /\ Looks(1)
  /\ UNCHANGED <<tokens, beyond, index, stack, ast, pc, freed>>

-----------------------------------------------------------------------------
(* parse_args.  After a comma a missing name is an error that is written,  *)
(* but not one that stops.                                                 *)
BeginArg ==
  /\ Running /\ Top.fn = "args"
  /\ Is("IDENTIFIER")
  /\ stack' = Append(stack, Frame("arg", index, <<index + 1>>))
  /\ Looks(1) /\ Takes(1)
  /\ UNCHANGED <<tokens, beyond, abort, ast, pc, errors, freed>>

NoArg ==
  /\ Running /\ Top.fn = "args"
  /\ ~Is("IDENTIFIER")
  /\ stack' = Given(Below, Top.got)
  /\ errors' = (errors \/ Top.got # <<>>)
  /\ Looks(1)
  /\ UNCHANGED <<tokens, beyond, index, abort, ast, pc, freed>>

Arg == [name |-> Top.got[1], type |-> Top.got[3]]

NextArg ==
  /\ Complete /\ Top.fn = "arg"
  /\ Is(",")
  /\ stack' = Given(Below, Arg)
  /\ Looks(1) /\ Takes(1)
  /\ UNCHANGED <<tokens, beyond, abort, ast, pc, errors, freed>>

LastArg ==
  /\ Complete /\ Top.fn = "arg"
  /\ ~Is(",")
  /\ stack' = Given(SubSeq(stack, 1, Len(stack) - 2), Append(Caller.got, Arg))
  /\ Looks(1)
  /\ UNCHANGED <<tokens, beyond, index, abort, ast, pc, errors, freed>>

-----------------------------------------------------------------------------
(* The calls return NULL.  An operator that misses its right operand       *)
(* deletes the left one; a missing first operand is an error where one is  *)
(* required: everywhere but behind a statement.                            *)
Misses(n) == Top.fn = "binary_expr" /\ Len(Top.got) = n

Unwind_ForgetsLet ==
  /\ pc = "parsing" /\ abort /\ stack # <<>>
  /\ stack' = Below
  /\ abort' = (Top.fn # "let")
  /\ freed' = IF Misses(2) THEN freed \o expression_delete[Top.got[1]] ELSE freed
  /\ errors' = (errors \/ (Misses(0) /\ (Caller.fn = "expr" => Caller.got = <<>>)))
  /\ UNCHANGED <<tokens, beyond, index, ast, pc, past>>

Unwind ==
  /\ pc = "parsing" /\ abort /\ stack # <<>>
  /\ stack' = Below
  /\ freed' = IF Misses(2) THEN freed \o expression_delete[Top.got[1]] ELSE freed
  /\ errors' = (errors \/ (Misses(0) /\ (Caller.fn = "expr" => Caller.got = <<>>)))
  /\ UNCHANGED <<tokens, beyond, index, abort, ast, pc, past>>

-----------------------------------------------------------------------------
Init ==
  /\ \E i \in Inputs : tokens = i.tokens /\ beyond = i.beyond
  /\ index = 0 /\ abort = FALSE
  /\ stack = <<>> /\ ast = <<>>
  /\ pc = "parsing"
  /\ past = FALSE /\ errors = FALSE /\ freed = <<>>

(* The head of the loop of parse.                                          *)
AtLoop == pc = "parsing" /\ stack = <<>>

BeginFunction ==
  /\ AtLoop /\ ~abort /\ index < Len(tokens)
  /\ Is("fn")
  /\ stack' = <<Frame("fn", index, <<index + 1>>)>>
  /\ Takes(1)
  /\ UNCHANGED <<tokens, beyond, abort, ast, pc, past, errors, freed>>

(* The tree is deleted.                                                    *)
Refuse ==
  /\ pc' = "refused"
  /\ freed' = freed \o ast_delete(ast) /\ ast' = <<>>
  /\ UNCHANGED <<tokens, beyond, index, abort, stack, past, errors>>

NoFunction == AtLoop /\ ~abort /\ index < Len(tokens) /\ ~Is("fn") /\ Refuse

(* parse returns NULL at once and deletes nothing.                         *)
Abort ==
  /\ AtLoop /\ abort
  /\ pc' = "refused"
  /\ UNCHANGED <<tokens, beyond, index, abort, stack, ast, past, errors, freed>>

Function(got) == [name |-> got[2], args |-> got[4], type |-> got[6], expr |-> got[8]]

AppendFunction ==
  /\ Complete /\ Top.fn = "fn"
  /\ Is(";")
  /\ ast' = Append(ast, Function(Top.got))
  /\ stack' = <<>>
  /\ Looks(1) /\ Takes(1)
  /\ UNCHANGED <<tokens, beyond, abort, pc, errors, freed>>

MissingSemicolon ==
  /\ Complete /\ Top.fn = "fn"
  /\ ~Is(";")
  /\ stack' = <<>>
  /\ pc' = "refused" /\ errors' = TRUE
  /\ Looks(1)
  /\ UNCHANGED <<tokens, beyond, index, abort, ast, freed>>

End ==
  /\ AtLoop /\ ~abort /\ index = Len(tokens)
  /\ pc' = "done"
  /\ UNCHANGED <<tokens, beyond, index, abort, stack, ast, past, errors, freed>>

(* The last function has taken tokens that are none.                       *)
EndBeyond == AtLoop /\ ~abort /\ index > Len(tokens) /\ Refuse

(* What lies beyond the tokens need not be readable, nor be tokens.        *)
Crash ==
  /\ pc = "parsing" /\ past
  /\ pc' = "crashed"
  /\ UNCHANGED <<tokens, beyond, index, abort, stack, ast, past, errors, freed>>

(* The owner of the tree is done with it.                                  *)
Delete ==
  /\ pc = "done"
  /\ pc' = "deleted"
  /\ freed' = freed \o ast_delete(ast)
  /\ UNCHANGED <<tokens, beyond, index, abort, stack, ast, past, errors>>

(* Inside a function.                                                      *)
Descend ==
  \/ Take \/ Miss \/ CallFunction
  \/ BeginBlock \/ NoBlock \/ Statement
  \/ CharLiteral \/ Number \/ HexNumber \/ BeginAlternative \/ GoOn \/ EndOfAlternative
  \/ Operator \/ MissingOperand
  \/ EndOfExpression \/ EndOfStatement \/ OpenStatement
  \/ EndOfBlock \/ EmptyBlock \/ OpenBlock
  \/ BeginArg \/ NoArg \/ NextArg \/ LastArg
  \/ Unwind

Next ==
  \/ BeginFunction \/ NoFunction \/ Descend \/ Abort \/ AppendFunction \/ MissingSemicolon
  \/ End \/ EndBeyond \/ Crash \/ Delete

Spec == Init /\ [][Next]_vars

-----------------------------------------------------------------------------
(* What the tree is printed as (parser_result of the tests), in tokens.    *)
binary_tag_to_token_type(tag) ==
  CHOOSE w \in DOMAIN BinaryTag : BinaryTag[w] = tag

(* The tree e, given its parts.                                            *)
PrintOf(e, printed) ==
  CASE e.tag = "LET_E" ->
         <<Word("let"), TokenAt(e.var - 1), Word(":"), Word(e.type), Word("=")>>
           \o printed[e.e]
    [] e.tag \in ByteOps ->
         printed[e.lhs] \o <<Word(binary_tag_to_token_type(e.tag))>> \o printed[e.rhs]
    [] e.tag = "VARIABLE_E" -> <<TokenAt(e.name - 1)>>
    [] e.tag = "NUMBER_E" ->
         IF e.value \in HexDigits
         THEN <<[type |-> "NUMBER", text |-> "0"],
                [type |-> "IDENTIFIER", text |-> e.value]>>
         ELSE <<[type |-> "NUMBER", text |-> e.value]>>
    [] e.tag = "SEQUENCE_E" ->
         Joined([k \in 1 .. Len(e.list) |-> printed[e.list[k]] \o <<Word(";")>>])
    [] e.tag = "ASSIGN_E" -> <<TokenAt(e.var - 1), Word("=")>> \o printed[e.e]
    [] e.tag = "DEREF_ASSIGN_E" ->
         <<Word("*")>> \o printed[e.e1] \o <<Word("=")>> \o printed[e.e2]
    [] e.tag = "DEREF_E" -> <<Word("*")>> \o printed[e.e]
    [] e.tag = "RETURN_E" -> <<Word("return")>> \o printed[e.e]
    [] e.tag = "FUNCTION_CALL_E" -> <<TokenAt(e.name - 1), Word("("), Word(")")>>
    [] e.tag = "CHAR_LITERAL_E" -> <<[type |-> "CHAR_LITERAL", text |-> e.c]>>
    [] e.tag = "IF_ELSE_E" ->
         <<Word("if"), Word("(")>> \o printed[e.cond] \o <<Word(")"), Word("{")>>
           \o printed[e.if_body] \o <<Word("}")>>
           \o Joined([k \in 1 .. Len(e.else_body) |->
                        <<Word("else"), Word("{")>> \o printed[e.else_body[k]]
                          \o <<Word("}")>>])

fprintf_expression ==
  LET printed[e \in Trees[Size]] == PrintOf(e, printed) IN printed

fprintf_args_AllCommas(args) ==
  Joined([k \in 1 .. Len(args) |->
            <<TokenAt(args[k].name - 1), Word(":"), Word(args[k].type), Word(",")>>])

fprintf_args(args) ==
  Joined([k \in 1 .. Len(args) |->
            <<TokenAt(args[k].name - 1), Word(":"), Word(args[k].type)>>
              \o (IF k = Len(args) THEN <<>> ELSE <<Word(",")>>)])

fprintf_function(f) ==
  <<Word("fn"), TokenAt(f.name - 1), Word("(")>> \o fprintf_args(f.args)
    \o <<Word(")"), Word(f.type), Word("="), Word("{")>>
    \o fprintf_expression[f.expr] \o <<Word("}"), Word(";")>>

fprintf_ast(functions) ==
  Joined([k \in 1 .. Len(functions) |-> fprintf_function(functions[k])])

-----------------------------------------------------------------------------
(* A call and the one above it: what is called is what is needed.          *)
Fields == DOMAIN Needs \union Callees

Waits(f, fn) ==
  \/ /\ f.fn \in DOMAIN Needs
     /\ Len(f.got) < Len(Needs[f.fn])
     /\ Needs[f.fn][Len(f.got) + 1] = fn
     /\ fn \in Callees
  \/ f.fn = "expr" /\ fn = "binary_expr"
  \/ f.fn = "binary_expr" /\ Len(f.got) # 1 /\ fn \in DOMAIN Needs \ {"fn", "arg"}
  \/ f.fn = "args" /\ fn = "arg"

(* The shape of the state: the index is where the memory is modelled, a    *)
(* call waits for the one above it, and a name or a parameter of the tree  *)
(* is the place of an identifier.                                          *)
TypeOK ==
  /\ index \in 0 .. Size
  /\ abort \in BOOLEAN /\ past \in BOOLEAN /\ errors \in BOOLEAN
  /\ pc \in {"parsing", "done", "refused", "deleted", "crashed"}
  /\ \A k \in DOMAIN stack :
       /\ stack[k].fn \in Fields
       /\ IF k = 1 THEN stack[k].fn = "fn" ELSE Waits(stack[k - 1], stack[k].fn)
  /\ ~past =>
       \A k \in DOMAIN ast :
         /\ tokens[ast[k].name].type = "IDENTIFIER"
         /\ \A n \in DOMAIN ast[k].args : tokens[ast[k].args[n].name].type = "IDENTIFIER"

HasText(k) == tokens[k].type \in WithText

RangeOf(s) == {s[k] : k \in DOMAIN s}

Parameters ==
  UNION {{ast[k].args[n].name : n \in DOMAIN ast[k].args} : k \in DOMAIN ast}

(* Who owns the texts: none is freed twice, by the parser on its way or    *)
(* with the tree, and none the tree still points to; when the tree is      *)
(* deleted, those of the parameters are all that is left.                  *)
TextsFreedOnce ==
  ~past =>
    /\ \A i, j \in DOMAIN freed : i # j => freed[i] # freed[j]
    /\ pc \in {"parsing", "done"} =>
         RangeOf(ast_delete(ast)) \intersect RangeOf(freed) = {}
    /\ pc = "deleted" =>
         RangeOf(freed) = {k \in DOMAIN tokens : HasText(k)} \ Parameters

Respelt(t) == Spelling[t.text] # t.text

(* A number that is not what is written: one of more than 16 bits, one     *)
(* that begins with zeros, a 0 and an x with no hexadecimal digit.         *)
Misread ==
  \/ \E k \in DOMAIN tokens : tokens[k].type = "NUMBER" /\ Respelt(tokens[k])
  \/ \E k \in 1 .. Len(tokens) - 1 :
       /\ tokens[k].type = "NUMBER" /\ tokens[k].text = "0"
       /\ tokens[k + 1].type = "IDENTIFIER"
       /\ \/ tokens[k + 1].text \in HexWrong
          \/ tokens[k + 1].text \in HexDigits /\ Respelt(tokens[k + 1])

SpareComma ==
  \E k \in 1 .. Len(tokens) - 1 : tokens[k].type = "," /\ tokens[k + 1].type = ")"

(* What test.c:111-195 checks of every test: the tree of an accepted       *)
(* program is printed as the program.                                      *)
RoundTrip ==
  /\ pc = "done"
  /\ ~Misread /\ ~SpareComma
  /\ \A k \in DOMAIN tokens : tokens[k].type # "!="
  => fprintf_ast(ast) = tokens

(* Errors are written of what is refused, except where an operand, a block *)
(* or a function is missing; of what is accepted only about a comma behind *)
(* the last parameter.                                                     *)
ErrorsExplain ==
  /\ pc = "refused" /\ ~past /\ ~errors =>
       \/ index = 0
       \/ tokens[index].type \in DOMAIN BinaryTag \union {")", "else", "=", ";"}
  /\ pc = "done" /\ errors => SpareComma
=============================================================================
