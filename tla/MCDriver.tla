------------------------------ MODULE MCDriver ------------------------------
(* A toy compiler and the tests it is given.                               *)
EXTENDS Driver, SequencesExt

nl  == "\n"
nul == "0"

(* The last character of a source says how far it gets:                    *)
(*   l  is not lexed             r  is printed as one that is not lexed    *)
(*   p  is not parsed            s  is printed as one that is not parsed   *)
(*   c  is not compiled          t  is printed as another one each time    *)
(*   n  is not assembled         w  is printed as one with other tokens    *)
(*   a  goes through                                                       *)
(* What stands before it is what the program sends when it is executed.    *)
Kinds == {"l", "p", "c", "n", "a", "r", "s", "t", "u", "w"}
MCChar == Kinds \union {nl, nul}

PrintedAs(kind) ==
  CASE kind = "r" -> "l" [] kind = "s" -> "p" [] kind = "t" -> "u"
    [] kind = "u" -> "t" [] kind = "w" -> "a" [] OTHER -> kind

Line(text)    == Append(text, nl)
Lexemes(text) == IF text # <<>> /\ Last(text) = nl THEN Front(text) ELSE text
Kind(text)    == IF text = <<>> THEN "l" ELSE Last(text)
Value(sort, text) == [sort |-> sort, of |-> text]

MClexify(text) ==
  IF Kind(Lexemes(text)) = "l" THEN Failed ELSE Value("tokens", Lexemes(text))
MCfprintf_tokens(tokens) == Line(tokens.of)
MCparse(tokens) ==
  IF Kind(tokens.of) = "p" THEN Failed ELSE Value("ast", tokens.of)
MCfprintf_ast(ast) == Line(Append(Front(ast.of), PrintedAs(Last(ast.of))))
MCcompile_to_uxn(ast) ==
  IF Kind(ast.of) = "c" THEN Failed ELSE Value("program", ast.of)
MCfprintf_uxn_program(p) == Line(p.of)
MCuxnasm(text) == IF Kind(Lexemes(text)) = "n" THEN Failed ELSE Lexemes(text)
MCuxncli(rom)  == Front(rom)

-----------------------------------------------------------------------------
NoFiles == [f \in Paths |-> IF f = "stdout" THEN <<>> ELSE Absent]

Test(source, tokens, output) ==
  [NoFiles EXCEPT !["main.ha"] = source,
                  !["lexer_expected"] = tokens,
                  !["output_expected"] = output]

Setup(prog, files, locked, cmds, n) ==
  [program |-> prog, disk |-> files, readonly |-> locked, tools |-> cmds, again |-> n]

BothTools == {"uxnasm", "uxncli"}

UpTo(S, n) == UNION {[1 .. k -> S] : k \in 0 .. n}

(* Outputs that differ in a character, in where a line or the file ends,   *)
(* and behind a NUL.                                                       *)
Outputs == UpTo({"a", nl, nul}, 3) \union UpTo({"a", nl}, 4)

ComparedTests ==
  {Setup("test", Test(x \o <<"a">>, Line(x \o <<"a">>), y), {}, BothTools, 0) :
     x \in Outputs, y \in Outputs}

MCSources == {<<"a", k>> : k \in Kinds}

(* Everything goes wrong once, or is in the way from the start.            *)
FailingTests ==
  {Setup("test", Test(s, Line(s), y), locked, cmds, 0) :
     s \in MCSources, y \in {<<>>, <<"a">>, Absent},
     locked \in {{}} \union {{f} : f \in Paths}, cmds \in SUBSET BothTools}
  \union
  {Setup("test", Test(s, t, <<"a">>), {}, BothTools, 0) :
     s \in {Absent} \union MCSources, t \in {Absent, <<>>, <<"a", "a", nl>>}}

Compilations ==
  {Setup("compiler", [NoFiles EXCEPT !["main.ha"] = s, !["main.ha.rom"] = r],
         locked, cmds, 1) :
     s \in {Absent, <<"a", "a">>}, r \in {Absent, <<"n", "a">>},
     locked \in {{}, {"code.uxntal"}, {"code.uxntal.rom"}}, cmds \in SUBSET BothTools}

(* Run again on what is left of the last run; run on the results of another *)
(* build of the compiler, which may be right by chance and may be in the   *)
(* way.                                                                    *)
RepeatedTests ==
  {Setup("test", Test(<<"a", "a">>, <<"a", "a", nl>>, y), {}, BothTools, 2) :
     y \in {<<>>, <<"a">>}}

LeftTests ==
  {Setup("test", [Test(s, Line(s), <<"a">>) EXCEPT ![f] = left], locked, cmds, 0) :
     s \in {<<"a">>, <<"a", "a">>, <<"a", "n">>},
     f \in {"lexer_result", "code.rom", "output_result"},
     left \in {<<"a">>, <<"a", "a">>, <<"a", "a", nl>>},
     locked \in {{}, {"lexer_result"}, {"code.rom"}, {"output_result"}},
     cmds \in SUBSET BothTools}

MCSetups == ComparedTests \union FailingTests \union Compilations
              \union RepeatedTests \union LeftTests
=============================================================================
