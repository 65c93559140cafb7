------------------------------- MODULE Driver -------------------------------
(***************************************************************************)
(* The two main programs, test.c and complete_compiler.c, and the files    *)
(* they leave behind.  Each is a script: a sequence of steps that call     *)
(* lexer, parser, compiler and printers, hand over what these allocate,    *)
(* and read and write files; test.c also compares files (FilesEqual).      *)
(* Files outlive the program: it may be killed, the user may edit main.ha, *)
(* clean the results, and run it again.                                    *)
(*                                                                         *)
(* What the parts compute is given by the constants named after them; they *)
(* are specified in Lexer, Parser, CodeGen, Link and Uxn.  The texts       *)
(* written to the error file are left out, and so are the messages.        *)
(*                                                                         *)
(* A definition named after another one and a mistake is that definition   *)
(* with the mistake made, for the properties to find out.                  *)
(***************************************************************************)
EXTENDS FilesEqual

CONSTANTS
  lexify(_), parse(_), compile_to_uxn(_),        (* may be Failed          *)
  fprintf_tokens(_), fprintf_ast(_), fprintf_uxn_program(_),
  uxnasm(_), uxncli(_),      (* the assembler, which may fail; the machine *)
  Failed,                    (* no result                                  *)
  Absent,                    (* the content of a file that is not there    *)
  Gone,                      (* a variable that points to nothing, or to   *)
                             (* something that was freed                   *)
  Sources,                   (* the texts a user may write into main.ha    *)
  Setups                     (* [program, disk, readonly, tools, again]    *)

Paths ==
  {"main.ha", "lexer_expected", "lexer_result", "lexer_2_result",
   "parser_result", "parser_2_result", "code.uxntal", "code.uxntal.rom",
   "main.ha.rom", "code.rom", "output_result", "output_expected",
   "error", "uxnasm_result", "stdout"}

Variables == {"tokens", "tokens_2", "ast", "ast_2", "uxn_program"}

ASSUME SetupsAssumption ==
  \A s \in Setups :
    /\ s.program \in {"test", "compiler"}
    /\ s.disk \in [Paths -> Text \union {Absent}]
    /\ s.again \in Nat
ASSUME SourcesAssumption == Sources \subseteq Text \union {Absent}

VARIABLES
  program,   (* "test" or "compiler"                                       *)
  disk,      (* what is in each file                                       *)
  readonly,  (* the files that cannot be opened for writing                *)
  tools,     (* which of "uxnasm" and "uxncli" can be run                  *)
  again,     (* bound of the model: how often the program is run again     *)
  pc,        (* the step of the script to take                             *)
  outcome,   (* "running", "done"; "refused": left after an error message; *)
             (* "crashed": a stream that is NULL was used; "killed"        *)
  held,      (* what each variable of the program points to                *)
  said,      (* history: the parts this run has printed [OK ...] for       *)
  did        (* history: "assembled", "executed", if this run really did   *)

setup   == <<program, readonly, tools>>
process == <<pc, outcome, held, said, did>>
dVars   == <<setup, again, disk, process, feVars>>

-----------------------------------------------------------------------------
(* The steps: what is done, with which variable or file, and which one is  *)
(* set by it; the files that are opened for it with fopen, and those whose *)
(* fopen the program looks at; the files the shell opens for a command.    *)
Step(op, what, into, reads, writes, checked) ==
  [op |-> op, what |-> what, into |-> into,
   reads |-> reads, writes |-> writes, checked |-> checked, shell |-> {}]

LexFile(file, tokens, log, checked) ==
  Step("lex", file, tokens, {file}, log, checked)
CreateFile(file)              == Step("create", "", file, {}, {file}, {})
ListTokens(tokens, file, checked) ==
  Step("list", tokens, file, {}, {file}, checked)
ParseTokens(tokens, ast, log) == Step("parse", tokens, ast, {}, log, {})
PrintAst(ast, file)           == Step("print", ast, file, {}, {file}, {})
Delete(var)                   == Step("delete", var, "", {}, {}, {})
CompileAst(ast, log)          == Step("compile", ast, "uxn_program", {}, log, {})
PrintProgram(file)            == Step("program", "uxn_program", file, {}, {file}, {})
Compare(f1, f2, checked)      == Step("compare", f1, f2, {f1, f2}, {}, checked)
Say(part)                     == Step("say", part, "", {}, {}, {})
Assemble(file, rom, output)   ==
  [Step("assemble", file, rom, {}, {}, {}) EXCEPT !.shell = {output}]
Execute(rom, output)          ==
  [Step("execute", rom, output, {}, {}, {}) EXCEPT !.shell = {output}]

Log == {"error"}

LexerSteps_Unchecked ==
  <<LexFile("main.ha", "tokens", Log, {"main.ha"}),
    ListTokens("tokens", "lexer_result", {"lexer_result"}),
    Compare("lexer_expected", "lexer_result", {}),
    Say("lexer")>>

LexerSteps ==
  <<LexFile("main.ha", "tokens", Log, {"main.ha"}),
    ListTokens("tokens", "lexer_result", {"lexer_result"}),
    Compare("lexer_expected", "lexer_result", {"lexer_expected", "lexer_result"}),
    Say("lexer")>>

ParserSteps ==
  <<ParseTokens("tokens", "ast", Log),
    PrintAst("ast", "parser_result"),
    LexFile("parser_result", "tokens_2", Log, {}),
    ParseTokens("tokens_2", "ast_2", Log),
    PrintAst("ast_2", "parser_2_result"),
    Delete("ast_2"),
    Compare("parser_result", "parser_2_result", {}),
    CreateFile("lexer_2_result"),
    LexFile("parser_2_result", "tokens", Log, {}),
    ListTokens("tokens", "lexer_2_result", {}),
    Delete("tokens"),
    Compare("lexer_2_result", "lexer_expected", {}),
    Say("parser")>>

CompilerSteps ==
  <<CompileAst("ast", Log), PrintProgram("code.uxntal"), Say("compiler")>>

ExecutionSteps_OldResult ==
  <<Assemble("code.uxntal", "code.rom", "uxnasm_result"),
    Compare("output_result", "output_expected",
            {"output_result", "output_expected"}),
    Execute("code.rom", "output_result"),
    Say("execution"),
    Delete("uxn_program")>>

ExecutionSteps ==
  <<Assemble("code.uxntal", "code.rom", "uxnasm_result"),
    Execute("code.rom", "output_result"),
    Compare("output_result", "output_expected",
            {"output_result", "output_expected"}),
    Say("execution"),
    Delete("uxn_program")>>

(* complete_compiler.c writes its errors to stdout, and executes a rom     *)
(* named after the source, not the one it has just assembled.              *)
CompleteSteps ==
  <<LexFile("main.ha", "tokens", {}, {"main.ha"}),
    ParseTokens("tokens", "ast", {}),
    CompileAst("ast", {}),
    PrintProgram("code.uxntal"),
    Say("compiler"),
    Assemble("code.uxntal", "code.uxntal.rom", "stdout"),
    Execute("main.ha.rom", "stdout"),
    Delete("uxn_program")>>

Script ==
  IF program = "test"
  THEN LexerSteps \o ParserSteps \o CompilerSteps \o ExecutionSteps
  ELSE CompleteSteps

-----------------------------------------------------------------------------
DInit ==
  /\ Init
  /\ \E s \in Setups :
       /\ program = s.program
       /\ disk = s.disk
       /\ readonly = s.readonly
       /\ tools = s.tools
       /\ again = s.again
  /\ pc = 1
  /\ outcome = "running"
  /\ held = [v \in Variables |-> Gone]
  /\ said = {}
  /\ did = {}

now == Script[pc]

(* The files of a step that cannot be opened.                              *)
Unopened == {f \in now.reads : disk[f] = Absent} \union (now.writes \intersect readonly)

Doing(op) ==
  /\ outcome = "running"
  /\ now.op = op
  /\ Unopened = {}

(* The program goes on behind the step.                                    *)
Proceed ==
  /\ pc' = pc + 1
  /\ outcome' = IF pc = Len(Script) THEN "done" ELSE "running"

Leave(o) == outcome' = o /\ pc' = pc

Writes(file, text) == disk' = [disk EXCEPT ![file] = text]

(* A variable is given the result of a call, or the program is left; what  *)
(* a failed call has freed does not matter any more.                       *)
Result(var, value, freed) ==
  IF value = Failed
  THEN Leave("refused") /\ UNCHANGED held
  ELSE /\ Proceed
       /\ held' = [v \in Variables |-> IF v = var THEN value
                                       ELSE IF v \in freed THEN Gone ELSE held[v]]

Rest == UNCHANGED <<setup, again>>

(* fopen returns NULL.  Where the program looks at it, it says so and is   *)
(* left; where it does not, it uses the stream.                            *)
OpenRefused ==
  /\ outcome = "running"
  /\ Unopened \intersect now.checked # {}
  /\ Leave("refused")
  /\ UNCHANGED <<held, said, did, disk, feVars>> /\ Rest

OpenCrashes ==
  /\ outcome = "running"
  /\ Unopened # {} /\ Unopened \intersect now.checked = {}
  /\ Leave("crashed")
  /\ UNCHANGED <<held, said, did, disk, feVars>> /\ Rest

LexStep ==
  /\ Doing("lex")
  /\ Result(now.into, lexify(disk[now.what]), {})
  /\ UNCHANGED <<said, did, disk, feVars>> /\ Rest

CreateStep ==
  /\ Doing("create")
  /\ Writes(now.into, <<>>)
  /\ Proceed
  /\ UNCHANGED <<held, said, did, feVars>> /\ Rest

(* The printers are handed something that is still there.                  *)
Prints(text) ==
  /\ held[now.what] # Gone
  /\ Writes(now.into, text)
  /\ Proceed
  /\ UNCHANGED <<held, said, did, feVars>> /\ Rest

ListStep    == Doing("list") /\ Prints(fprintf_tokens(held[now.what]))
PrintStep   == Doing("print") /\ Prints(fprintf_ast(held[now.what]))
ProgramStep == Doing("program") /\ Prints(fprintf_uxn_program(held[now.what]))

(* parse frees the tokens it is given, compile_to_uxn the tree.            *)
ParseStep_KeepsTokens ==
  /\ Doing("parse")
  /\ held[now.what] # Gone
  /\ Result(now.into, parse(held[now.what]), {})
  /\ UNCHANGED <<said, did, disk, feVars>> /\ Rest

ParseStep ==
  /\ Doing("parse")
  /\ held[now.what] # Gone
  /\ Result(now.into, parse(held[now.what]), {now.what})
  /\ UNCHANGED <<said, did, disk, feVars>> /\ Rest

CompileStep ==
  /\ Doing("compile")
  /\ held[now.what] # Gone
  /\ Result(now.into, compile_to_uxn(held[now.what]), {now.what})
  /\ UNCHANGED <<said, did, disk, feVars>> /\ Rest

DeleteStep ==
  /\ Doing("delete")
  /\ held[now.what] # Gone
  /\ held' = [held EXCEPT ![now.what] = Gone]
  /\ Proceed
  /\ UNCHANGED <<said, did, disk, feVars>> /\ Rest

SayStep ==
  /\ Doing("say")
  /\ said' = said \union {now.what}
  /\ Proceed
  /\ UNCHANGED <<held, did, disk, feVars>> /\ Rest

(* files_equal: the call, its steps, and what is made of the answer.       *)
CompareCall ==
  /\ Doing("compare")
  /\ at = "idle"
  /\ Call(disk[now.what], disk[now.into])
  /\ UNCHANGED <<process, disk>> /\ Rest

CompareTurn == Doing("compare") /\ feStep /\ UNCHANGED <<process, disk>> /\ Rest

CompareReturn ==
  /\ Doing("compare")
  /\ at \in {"yes", "no"}
  /\ IF at = "yes" THEN Proceed ELSE Leave("refused")
  /\ at' = "idle"
  /\ UNCHANGED <<file1, file2, from1, from2, read1, read2, i>>
  /\ UNCHANGED <<held, said, did, disk>> /\ Rest

(* What system() returns is not looked at.  The shell runs uxnasm if it    *)
(* can open the file for its output; the rom is written only if all goes   *)
(* well, and else an old one stays.                                        *)
Assembles ==
  /\ "uxnasm" \in tools
  /\ (now.shell \union {now.into}) \intersect readonly = {}
  /\ disk[now.what] # Absent
  /\ uxnasm(disk[now.what]) # Failed

AssembleStep ==
  /\ Doing("assemble")
  /\ IF Assembles
     THEN Writes(now.into, uxnasm(disk[now.what])) /\ did' = did \union {"assembled"}
     ELSE UNCHANGED <<disk, did>>
  /\ Proceed
  /\ UNCHANGED <<held, said, feVars>> /\ Rest

(* The shell empties the file for the output before uxncli is run, if it   *)
(* can be written at all.                                                  *)
Emptied(f)  == IF f \in readonly THEN disk[f] ELSE <<>>
Executes    ==
  /\ "uxncli" \in tools
  /\ now.shell \intersect readonly = {}
  /\ disk[now.what] # Absent

ExecuteStep ==
  /\ Doing("execute")
  /\ IF Executes
     THEN Writes(now.into, uxncli(disk[now.what])) /\ did' = did \union {"executed"}
     ELSE Writes(now.into, Emptied(now.into)) /\ UNCHANGED did
  /\ Proceed
  /\ UNCHANGED <<held, said, feVars>> /\ Rest

(* The user: the program is killed, or run again on the files that are     *)
(* there, with another main.ha, or after make clean_results.               *)
Results == {"error", "code.rom", "code.uxntal", "lexer_result", "lexer_2_result",
            "parser_result", "parser_2_result", "output_result", "uxnasm_result"}

Kill ==
  /\ outcome = "running"
  /\ again > 0
  /\ Leave("killed")
  /\ UNCHANGED <<held, said, did, disk, feVars>> /\ Rest

RunAgain ==
  /\ outcome # "running"
  /\ again > 0
  /\ again' = again - 1
  /\ \E source \in Sources, cleaned \in {{}, Results} :
       disk' = [f \in Paths |-> IF f = "main.ha" THEN source
                                ELSE IF f \in cleaned THEN Absent ELSE disk[f]]
  /\ pc' = 1
  /\ outcome' = "running"
  /\ held' = [v \in Variables |-> Gone]
  /\ said' = {}
  /\ did' = {}
  /\ at' = "idle"
  /\ UNCHANGED <<file1, file2, from1, from2, read1, read2, i>>
  /\ UNCHANGED setup

DStep ==
  \/ OpenRefused \/ OpenCrashes
  \/ LexStep \/ CreateStep \/ ListStep \/ PrintStep \/ ProgramStep
  \/ ParseStep \/ CompileStep \/ DeleteStep \/ SayStep
  \/ CompareCall \/ CompareTurn \/ CompareReturn
  \/ AssembleStep \/ ExecuteStep

DNext == DStep \/ Kill \/ RunAgain

DSpec == DInit /\ [][DNext]_dVars

(* The program goes on while it can, and the tools it waits for come back. *)
DFairSpec == DSpec /\ WF_dVars(DStep)

-----------------------------------------------------------------------------
(* The shape of the state, and of the comparison within it.                *)
DTypeOK ==
  /\ TypeOK
  /\ program \in {"test", "compiler"}
  /\ disk \in [Paths -> Text \union {Absent}]
  /\ pc \in 1 .. Len(Script) + 1
  /\ outcome \in {"running", "done", "refused", "crashed", "killed"}
  /\ DOMAIN held = Variables
  /\ said \subseteq {"lexer", "parser", "compiler", "execution"}
  /\ did \subseteq {"assembled", "executed"}

(* What this main.ha is to this compiler.                                  *)
TokensOfMain == lexify(disk["main.ha"])
AstOfMain    == parse(TokensOfMain)
Pretty       == fprintf_ast(AstOfMain)
PrettyAgain  == fprintf_ast(parse(lexify(Pretty)))
CodeOfMain   == fprintf_uxn_program(compile_to_uxn(AstOfMain))
OutputOfMain == uxncli(uxnasm(CodeOfMain))

Same(f, g) == f = g \/ ~IsText(f) \/ ~IsText(g)

(* Every [OK ...] is earned by the main.ha that is there, whatever files   *)
(* earlier runs have left and wherever they were killed: the tokens are    *)
(* the expected ones, printing and parsing come to rest on the same        *)
(* tokens, code.uxntal is the program, and, if it could be assembled and   *)
(* executed, its output is the expected one.  Files with a NUL are not     *)
(* compared to the end.                                                    *)
OkIsEarned ==
  /\ "lexer" \in said => Same(fprintf_tokens(TokensOfMain), disk["lexer_expected"])
  /\ "parser" \in said =>
       /\ Same(PrettyAgain, Pretty)
       /\ Same(fprintf_tokens(lexify(PrettyAgain)), disk["lexer_expected"])
  /\ "compiler" \in said => disk["code.uxntal"] = CodeOfMain
  /\ "execution" \in said /\ did = {"assembled", "executed"} =>
       Same(OutputOfMain, disk["output_expected"])

(* Who owns what: a step is handed only what was made and not freed yet,   *)
(* and a run to the end leaves nothing.                                    *)
HandedOver ==
  /\ outcome = "running" /\ now.what \in Variables => held[now.what] # Gone
  /\ outcome = "running" /\ now.into \in Variables => held[now.into] = Gone
  /\ outcome = "done" => \A v \in Variables : held[v] = Gone

(* A stream that is NULL is used only for a file that must not be written: *)
(* every file that is read without looking was made or seen before.        *)
CrashOnlyOnReadOnly == outcome = "crashed" => Unopened \subseteq readonly

(* Every run ends, with a message or without.                              *)
RunEnds == outcome = "running" ~> outcome # "running"

=============================================================================
