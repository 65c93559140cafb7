# Hare to Uxn: a verification project

TLA+ models of the compiler in `src/` (a small Hare-like language to Uxn
assembly), TLC configurations that check them on small instances, and TLAPS
proofs of what matters most for every instance.

## 1. The system

| component | code | state | operations |
|---|---|---|---|
| Lexer | `lexer/lexer.c` | a 100-byte line buffer, position, line and column, `failed`, `empty_token`; the list `Tokens` | `next_char`, `next_token` and one function per kind of token, `lexify` |
| Parser | `parser/parser.c`, `parser_utils.c` | `Tokens`, `index`, `abort`; the tree `Ast` | recursive descent; `parse_binary_expr` builds operator chains with one rotation |
| Growable arrays | `tokens_append`, `ast_append`, `var_layout_resize`, `part_program_resize`, `concat_program` | `len`, `cap`, block | append, append two cells, concatenate |
| Variable layout | `compiler.c:7-69` | names and types, in order of declaration | append; find the address of a name by summing sizes |
| Code generation | `compiler.c:267-487` | the tree, the layout, partial programs | `compile_expr`, `compile_function` |
| Linking | `compiler.c:489-564` | partial programs, positions, the 64 kB program | `compile_to_uxn` |
| Listing | `compiler_utils.c:293-311`, `fprintf_uxn_instruction` | the program | a cell becomes the name of an instruction, or two digits |
| Drivers | `test.c`, `complete_compiler.c` | what the variables of `main` point to; the files of a test directory | lex, parse, compile, print, assemble, execute, compare, in a fixed order |
| File comparison | `utils/files.c` | two line buffers and a place in them | `files_equal` |
| Uxn | not in the code | stacks, zero page, memory | the instructions of `compiler_utils.h:3-40` |

Everything is one thread and one pass: the driver calls lexer, parser,
compiler and printer in turn and hands each the result of the one before.
Ownership goes with the call: the parser frees the tokens, the compiler the
tree. There are no callbacks and no messages. What is kept between runs are
the result files in the directory of a test, which the next run finds there,
whether the last one ended or was killed. What is hard here is therefore not
concurrency. It is

* arithmetic in narrow integers: capacities and addresses in `uint8_t`,
  positions in `uint16_t`, jump distances in a signed byte;
* answers that are recomputed at every question and must stay the same;
* what a failure half-way through a recursion leaves allocated, or hides;
* values that are never initialised;
* files that are left over, cannot be opened, or were not written by the
  command that should have written them;
* the agreement of generated code with the source, across two machines.

The properties that make each component correct:

* growable arrays: no store is outside of the block;
* variable layout: one address per variable, always the same, no overlap;
* code generation: every partial program is used or freed once, a failure is
  final, and the code does what the tree means;
* linking: the program holds every function, whole, where it was put; the
  listing begins with main; what each way out leaves in the heap is known;
* lexer: every text is cut into its longest lexemes or refused, in finite
  time, and no token's text is lost;
* parser: it accepts the programs of the grammar and no others, the tree is the
  one the grammar gives and is printed as the program, no accepted program is
  read past its end, and no text is freed twice or under the tree;
* listing: a cell is assembled to the instruction the compiler meant;
* file comparison: the answer is right for every pair of texts, wherever the
  pieces of their lines end;
* drivers: every `[OK ...]` is earned by the source that is there, nothing is
  used after it was handed over, and every run ends.

## 2. The modules

| module | what it is |
|---|---|
| `GrowArray` | counters and block of a growable array; the width is a constant, the growth policy a rigid variable |
| `Lexemes` | what the tokens of a text are: longest pieces from the left |
| `Lexer` | `lexify` with its line buffer, compared with `Lexemes` |
| `Syntax` | tokens and trees, as both the parser and the grammar speak of them |
| `Grammar` | what programs are and which trees they have: an ambiguous grammar over spans of tokens, and three rules that leave one reading |
| `Parser` | `parse` and its recursive descent with an explicit stack, the printing and the deletion of trees |
| `ParserGrammar` | `Parser` compared with `Grammar` |
| `VarAlloc` | abstract: an allocator that stores an address per variable |
| `VarLayout` | the code's layout: two arrays and a search, one action per loop turn; implements `VarAlloc` |
| `ExprTree` | the trees the parser makes: constructors, `precedence`, `Join` |
| `CodeGen` | `compile_expr` with an explicit stack; one action per case of the `switch` |
| `Uxn` | the machine (external) |
| `HareSem` | what a body means: an evaluator that knows nothing of the compiler |
| `Listing` | the enumeration of instructions, their names, the words of a listing, and the assembler (external) |
| `CompileRun` | `CodeGen` composed with `Listing` and `Uxn`, compared with `HareSem` |
| `Link` | `compile_to_uxn` and the listing of a program |
| `FilesEqual` | `files_equal`, one action per pair of `fgets` and per turn of the comparing loop |
| `Driver` | the `main` of `test.c` and of `complete_compiler.c`, with `FilesEqual`, files, and runs that follow each other |
| `CommonLemmas` | lemmas about least numbers, sums that wrap, and sequences |
| `Arrays_proofs`, `Parser_proofs`, `Link_proofs`, `CodeGen_proofs`, `CompileRun_proofs`, `Lexer_proofs`, `Driver_proofs` | proofs; the first is about `GrowArray` and `VarLayout` |
| `MC...` | values for TLC, one per specification |

A definition `D_Mistake` beside `D` is `D` with a plausible bug. Each
property of a passing run is broken by one of them (`mutants` in
`PROJECT.json`); no specification uses them.

### State and actions, and the code

`GrowArray`: `len` and `cap` are the C fields; `touched` records how many
elements from the start of the block the last operation stored into.
`AppendOne` is every append of one element, growth included; `AppendWide` is
`append_number` for 0x1000 and more, which only follows the `LIT2` of an empty
program, hence `len = 1`; `Join` is `concat_program`. `array` says which of the
four structures this is and never changes: `eager` distinguishes
`tokens_append` (`len >= cap`) from the other three (`cap < len`), `wide` a
partial program, the only one that stores two cells at once.

`Lexer`: `in` is the part of `LexerState` that reads: what `fgets` has not read
yet, the buffer, `pos`, `line`, `column`, and the character `*c` that
`next_token` is handed. `pc` says which loop runs, `tok` is the token it makes.
`StartNumber`, `MoreNumber`, `EndNumber` are `next_number`, and so on; the cases
without a loop are one action each. Texts are reduced to the characters that
matter, keywords to two short ones; `heap` counts the texts of tokens. A fill
of the buffer is `BuffSize - 1` characters at most, as `fgets` does; a NUL in
the file ends the line early, as it does in the code. `fprintf_tokens` is an
operator of the list of tokens. Of a character that begins no token only the
type of the token is set (`lexer.c:369-370,460-468`): its line and column are any
of `StrayPos`, and deleting its text, which nobody set, is a crash.

`Parser`: `index` and `abort` are those of `ParseState`, `ast` is the list of
functions. `stack` holds the active calls: a frame names its function (`fn`), says
where it was called (`from`, history) and what it has got so far (`got`): places of
tokens, types, trees. `Needs` lists what each function asks for, in the order of its
code, and an action is one question to the current token with all that follows
from the answer: `Take` and `Miss` are a `parse_token_type`, `parse_identifier` or
`parse_program_type` that succeeds or fails, `CallFunction`, `BeginBlock` and
`Statement` are calls, `Number`, `HexNumber`, `CharLiteral` and `BeginAlternative` the
alternatives of `parse_unary_expr`, which begin with different tokens, `GoOn` an
alternative that turns out to be longer, `WithOperand` the joining of operands,
`Unwind` a call that returns NULL to its caller. At the empty stack stands the loop
of `parse` (`BeginFunction`, `Abort`, `NoFunction`, `End`, `EndBeyond`); `Delete` is
the deletion of the tree by its owner. Three variables are history: a token
past the last was read (`past`), an error was written (`errors`), the texts freed
(`freed`). Tokens are a type and a text; a name in a tree is the place of its
token, so that two uses of one name are told apart. `current_token` does not compare
`index` with the number of tokens: behind the last token are the tokens of `beyond` and
then one that fits nowhere, and after such a read the program may also crash. Only
texts are followed, not the blocks of the nodes; an aborted parse leaves all it
has. The value of a number is a `uint16_t` (`parser_utils.h:68`), and `Spelling` says
how it is written when the tree is printed: without the bits that were cut
(`parser.c:85,97`), without leading zeros, with small hexadecimal digits. What `sscanf`
makes of an `x` with something that is no digit is a value nobody set: such a program
is accepted as if digits stood there (`Repaired`). The properties that are about the
tree leave out the programs with a number that is read as another (`Misread`).
`CountersAssumption` says where the model is the code: the counters of functions,
parameters and statements do not wrap.

`VarLayout`: `names` and `types` are the arrays; `pc`, `why`, `wanted`, `i` and
`addr` are the running call of `var_layout_get_addr`. `Let` is the append of
`LET_E` and the call of the search; `Search` the call of `ASSIGN_E` and
`VARIABLE_E`; `Skip`, `Found` and `Missing` are the turns and the two exits of
the loop. The size of a `void` variable is not initialised, so `Skip` adds any
value of `Garbage`. `start`, `told` and `refused` are history.

`CodeGen`: `stack` holds the active calls of `compile_expr`, each with the
results of its parts so far. `Descend` is the call for the next part; the
action of an expression is the rest of its case; `Fail` is `break` or
`return NULL`; `Unwind` is a caller that gets NULL. `live` counts partial
programs allocated and not freed (the zero-size blocks `concat_program`
allocates for `fun_addr` are not counted). Cells are instructions or bytes:
comments are left out, and numbers are truncated to the byte an `Instruction`
is under `-fshort-enums`. A character is a `char`, which is signed: `Widened` is
its conversion to the `uint16_t` that `append_number` takes (`compiler.c:407`), so
that one that is not ASCII, a negative number here, is written in two bytes.
Layout sizes of `void` are left to `VarLayout`.

`Link`: `ast` is reduced to what linking sees of a function: is it called main,
how many cells is it compiled to (0 is the failure of `compile_function`), has
it variables. A cell of `memory` names the function and offset it came from.
`func_pos` starts with arbitrary contents (`Garbage`), as `malloc` leaves it.
`heap` is the set of blocks that are allocated, by name; what `compile_expr`
allocates and frees on its way is the matter of `CodeGen`.
A store past the end of the program lands in the next array of the structure:
`Spoilt` gives the outcomes. `high` is `pos` without the wrap, history only.

`Listing`: an `Instruction` of the compiler is a number of its own enumeration,
written here as 31 bases by 8 modes with a first row of its own; the order is
not the machine's, so that only the names carry a program over. A byte is
written with two digits (`%02x`). Comments in the listing are left out.

`Uxn` and `CompileRun`: the compiled cells are listed and assembled before they
are loaded, at offset 0 (0x100); memory after them is `BRK`. Executing a raw byte is not followed further: status `lost`.

`HareSem`: what an expression does and what it is (`Eval`, `HasValue`,
`IsStatement`, `CodeLen`, `Inside`, `Undeclared`) are recursive functions over a
constant set of trees, `Expressions`; `Depth` gives each its depth, so that the
parts of an expression are less deep than it is (`TreesAssumption`). The bodies
that are compiled are among them (`BodiesAssumption`), and a cell that is printed
and assembled is the same cell (`WordsAssumption`). `WellFormed` says which bodies
the language is meant for: statements over declared variables, values where they
are needed, jumps that reach. A number has 16 bits, as in the tree the
parser makes, and a character is any `char`, -128 to 127 (`lexer.c:267` and
`parser.c:110` take whatever stands between the ticks). `SplitChar` is one that is
not ASCII.

`FilesEqual`: `from` and `read` are where the piece in a buffer begins and ends
in its file; the buffers are read through them. A piece is what `fgets` returns:
to the newline, to the end of the file, or `BuffSize - 1` characters. A NUL in a
piece ends the string that is compared, as it does in the code.

`Driver`: a program is a script, a sequence of steps of a dozen kinds; a step
names the variable or file it works on, the files that are opened for it, and
whether the program looks at the result of `fopen`. `held` is what the variables
of `main` point to, `disk` what is in the files. What lexer, parser, compiler,
assembler and machine answer are constants here, the components having
modules of their own. A call that answers NULL, and a comparison that fails,
leave the program (`Leave`); what `system()` returns is not looked at, as in
the code. The shell empties the file for the output before it runs a command.
`Kill` stops a run between two steps and `RunAgain` starts one on what is on the
disk, after an edit of `main.ha` and perhaps `make clean_results`. Left out are
the check of the arguments, the texts of the messages and of the error file,
and kills in the middle of writing a file; the generated program is taken to
return.

## 3. The runs

Deadlock checking is off everywhere: every one of these programs ends.

| run | bounds | shows |
|---|---|---|
| `MCGrowArray_all` | both growth tests, wide literals or not; counters of 8 bits, lengths to 255, joins of 0, 1 and 3 | `GrowTypeOK`; to length 128 (127 for `Tokens`) `InBounds`, `OverrunByOne`, `RepairedByNextStore` |
| `MCLexer_all` | 16,000 texts: 3 of 17 characters, or 4 to 6 of those that interact; fills of 3 characters, lengths that wrap at 3, positions that wrap at 4, positions that are not set 0 and 3 | `TypeOK`, `InStep`, `TokensAreMeant`, `PointsAtStart`, `TextsOwned`, `LexReturns` |
| `MCParser_all` | 19,000 token lists: bodies of up to 7 tokens over the tokens that interact, chains of up to five operands, three whole programs with one token changed, missing or added, or broken off with one of 23 tokens behind them; 953 are accepted | `TypeOK`, `AcceptsGrammar`, `TreeIsMeant`, `RoundTrip`, `TextsFreedOnce`, `ErrorsExplain` |
| `MCVarLayout_all` | 3 names, all types, 3 declarations, addresses wrap at 4, uninitialised sizes 0 and 3 | `Implements`, `StableAnswers`, `NoOverlap`, `TypeOK` |
| `MCCompileRun_all` | 4,315 bodies: 3,346 of every shape, 10 of numbers at their boundaries, 40 of characters at the boundaries of a signed `char`, 919 of statements with values at the edges of a byte | while compiling `NothingLost`, `CleanFailure`, `FailureIsFinal`; of all that run `CRTypeOK`, `OnlyKnownTrouble`, `ForwardOnly`, `RunStops`; of the 1,064 well-formed ones `Agree` and `Balanced`, if they halt, and 1,034 of them have only ASCII characters, so that by `OnlyKnownTrouble` and `RunStops` they do |
| `MCLink_all` | up to 3 functions of 0 to 2 cells, main anywhere; up to 3 of 1 to 4 cells before a main; memory of 16 | `TypeOK`, `ExitOwnership`, `AllIntact`, `MainIsListedFirst` |
| `MCDriver_all` | 5,600 starts: all pairs of outputs of up to 3 of {a, newline, NUL} and up to 4 of {a, newline}, buffers of 3; sources that fail or differ at every stage, each file missing or not writable, each tool there or not; results of another build; two further runs after a kill, an edit, a cleaning | `DTypeOK`, `AnswerIsRight`, `OkIsEarned`, `HandedOver`, `CrashOnlyOnReadOnly`, `RunEnds` |

Why the bounds are enough. The arrays are run over the whole range of their
8-bit counters; the 16- and 32-bit ones differ in `Mod` only, and the proofs
cover every `Mod`. Four bytes of zero page make three variables wrap. A memory
of 16 cells makes positions wrap and stores run out of the program. The
bodies have every expression of the language around every kind of operand,
chains of two operators (the least that `Join` rotates), numbers above a byte
(300), and conditionals with bodies of 125, 130, 255 and 260 cells. Ten bodies have
numbers on both sides of every boundary of `append_number`, and 40 have the
characters -128, -23, -1 and 127 as value, operand and condition, in branches that
are executed and in others.

The inputs are trees the parser can make. There are no parentheses in the
language, so operator chains are built with `Join`, the parser's own step, and
`let`, `=`, `return` and `*` only stand last in a chain, since they take
everything that follows. String literals are never parsed and `!=` becomes
`EQUAL_EQUAL_E`; the cases of the compiler for them are in the model.

The token lists of `MCParser_all` have every pair of alternatives of
`parse_unary_expr` next to each other and nested in each other; a `=` can be
claimed by two destinations from the fifth token on, and three levels of
operators meet in a chain of four operands. Its programs break off behind every
token, where the descent stands in every function it has.

A buffer of 3 holds pieces of 2 characters, so that files of 4 are read in three
pieces, break inside and at the end of a line, and differ in what stands before,
at and behind a NUL. The sources of `MCDriver_all` fail in each of the parts, and
after having been printed and read again in each of them; two runs after the
first are enough for results of the first to be left under those of the second.

Fairness. The program is one thread that calls and returns: `WF` of the whole
next-state relation in `Lexer`, whose loops wait for a character that need not
come; of the steps of the machine in `CompileRun`, which goes on once it was started
(nobody has to start it, and the compiler need not go on); of the steps
of the program in `Driver` (the tools it waits for return; what the user does,
`Kill` and `RunAgain`, is not fair). The other modules state no liveness: `compile_expr`,
`expression_delete` and the printing are recursions over a finite tree, and
the loops of `compile_to_uxn` and of the layout count to the end of an array.

### Where the code and what is written about it differ

Each of these runs checks one sentence and TLC finds it violated.

| run | the sentence | the code |
|---|---|---|
| `MCLexer_comment` | `lexer.h:61` "This functions deletes all the comments" | a comment that the file ends in, without a newline, is never left |
| `MCParser_grammar` | `hare_grammar.txt:97,125` the rules of `!=` and of `+` over `*` | `!=` becomes `EQUAL_EQUAL_E` (`parser_utils.c:184`); one rotation is not enough for `a < b + c * d` |
| `MCCompileRun_compare` | `lexer.h:41,43` `<=` and `>=` | compiled as `<` and `>` |
| `MCCompileRun_branches` | `compiler.c:441,448` "too large (> 255)" | jumps are signed bytes: 128 cells are too many already |
| `MCLink_written` | `compiler_to_uxn/README.md:17` "Write all the functions to the program" | a function longer than its successor is overwritten by it |

More of them are in the models without a run of their own.

* `append_number` makes room once and stores two cells (`compiler.c:217`):
  `OverrunByOne` says how far outside the block that is, and
  `RepairedByNextStore` that it does not last.
* `compiler.c:528` "Compute the positions of every functions": the loop breaks
  at main, and what is behind main has the position `malloc` left (`Garbage`).
* A comma behind the last parameter is accepted, with an error message
  (`parser.c:433`); the printed tree does not have it. `RoundTrip` and
  `ErrorsExplain` except it (`SpareComma`).
* Where an operand, a block or a function is missing, a program is refused
  without a word: `ErrorsExplain` lists the places. "Empty block are not allowed"
  (`parser.c:411`) is never written, since `abort` is not set there.
* "The parser avoided to have variable with `void` type" (`compiler.c:58`):
  `parse_let` takes any type, and the size of `void` is never set.
  `StableAnswers` and `NoOverlap` except the variables behind one (`Clean`).
* "If any steps in any part of testing fail then the program stops"
  (`test.c:15`): what `system()` returns is not looked at (`test.c:258,263`), and
  the output of an old rom, or none, is compared. `OkIsEarned` speaks of the
  output only when both commands did their work (`did`).
* `complete_compiler.c:65` assembles `<path>.rom` of the listing and line 67
  executes `main.ha.rom`, named after the source (`CompleteSteps`).
* Two files that differ only behind a NUL, in the same piece of a line, are
  called equal (`files.c:14`); `AnswerIsRight` and `OkIsEarned` except them.
* `compiler.c:48` says that the search finds the last variable of a name; it
  stops at the first, which is what `VarAlloc` promises.
* "Memory Leak - None in lexer, parser or compiler" (`README.md:42-43`):
  when a function fails, `func_binary`, `func_pos` and the code compiled before it
  stay in the heap (`compiler.c:519-523`), and `compile_function` deletes the empty
  layout it started from (`compiler.c:485`), so that the arrays of the layouts always
  do. `ExitOwnership` says exactly that. Of the parts, a
  use of an undefined variable leaves its empty partial program
  (`compiler.c:373`), and `CleanFailure` is about the other failures; the text
  of an open string literal is left (`lexer.c:494`), and `TextsOwned` allows it.
* A character that is not ASCII becomes 0xff80 or more on its way into
  `append_number` (`compiler.c:407`): two bytes follow the `LIT`, which takes one, and the
  second is executed. `OnlyKnownTrouble` and `RunStops` except bodies with such a
  character (`SplitChar`); the length check and the jump distances count its three
  cells, so `ForwardOnly`, `Balanced` and `Agree` need not.
* A character that begins no token is accepted by the lexer as a token of type
  `void` without text, line or column (`lexer.c:369-370,460-468`). `PointsAtStart`
  speaks of the other tokens.
* `lexer/README.md:25` says that a character literal that is not closed makes
  `lexify` return NULL; it is accepted, and `CharLiteral` drops whatever stands
  in place of the tick.
* The character after a string literal is dropped (`lexer.c:294`): `Promised`
  asks for a blank there.
* A number of more than 16 bits is cut without a word when it is read
  (`parser.c:85,97` cast to `uint32_t`, `parser_utils.h:68` stores a `uint16_t`):
  `65537` is 1. `RoundTrip` and `TreeIsMeant` except such programs (`Misread`).
* Doubling an 8-bit capacity wraps to 0 at the 129th element, which is where
  `Limit` stops.

## 4. The proofs

All are checked by TLAPS from the assumptions on constants named in the
modules.

* `Arrays_proofs`, of growable arrays: `GrowTypeCorrect`, `GrowInBounds`, `GrowProportional`,
  `GrowOverrunByOne` and the action property `GrowRepaired`, for every width and
  every kind of array. The inductive invariant adds to these that the capacity
  keeps up with the length: `touched <= cap` says nothing of the next append,
  `len <= cap` does. One state is excepted, three cells in use in a block of two
  right after a wide literal (`JustWide`), and the next append is shown to
  leave it.
* `Arrays_proofs`, of the layout: `VarTypeCorrect`, `VarLetIsDefined`, `VarStableAnswers`,
  `VarNoOverlap` and `VarImplements`, for every number of names and every width
  of addresses, void variables included. The invariant says that
  while a search looks at declaration `i`, no earlier declaration has the name
  and the sum is `start[i] % AddrMod`, where `start` is the exact prefix sum;
  and that every answer given is the start of the first declaration, wrapped.
  It needs the lemma of `CommonLemmas` that wrapping at every addition is
  wrapping once.
* `Link_proofs`: `LinkTypeCorrect`, `LinkAllIntact` and `LinkExitOwnership`, for
  every list of functions and every size of memory. `AllIntact` speaks of the
  end; the invariant says of every moment before it that a placed function
  starts above main and at least its own length above every function placed
  before it (`Positions`), and that what is written stays, unless a function
  behind main is written over it (`Kept`). Lengths that do not descend turn the
  first into disjointness (lemma `Apart`); this is exactly what `MCLink_written`
  shows to be needed. For `ExitOwnership`, which says exactly what each way out
  leaves, the invariant `Owned` says phase by phase exactly which blocks there are.
  The module ends with `LinkMainIsListedFirst`, as general. While everything fits, a cell that is not empty was
  written from the function put there (`Sourced`), and `AllIntact` already says
  that no function lost a cell. `main`, written last, is whole (`MainStands`), and the
  functions stand in the order main, 1, 2, ... (lemma `Places`); so the listing
  that has gone through `i` cells ends with the last non-empty cell before `i`,
  and the next one is either its neighbour in the same function or the first
  cell of the next (lemma `Successor`).
* `CodeGen_proofs`: `CompileLosesNothing`, `CompileFailsClean`,
  `CompileStaysFailed` and `CompileTypeCorrect` (`TypeOK` of `CodeGen`, which TLC
  sees through `CRTypeOK`), for every set of expression trees (`Trees`: the parts of
  an expression are expressions, and a conditional has two or three; for the
  last also `Literals`: the values of literals are natural numbers, characters any integers, the types of
  declarations `u8` and `u16`). The invariant follows the stack of calls: a call that waits has compiled fewer
  parts than its expression has, so what it frees when a part fails
  (`Freed`) is all it holds (`Held`), but for `*e1 = e2`; and every case of the
  switch leaves one program where it held `Held(Top)`. Sums over the
  stack are a recursive function, whose values are found by the least-number
  principle.
* `Lexer_proofs`: `LexTypeCorrect`, `LexInStep`, `LexPointsAtStart`,
  `LexTextsOwned` and `LexTokensAreMeant`, for every set of files, every size of the buffer, every width
  of lengths and positions and every list of keywords. `InStep` alone is not
  inductive: what the next character is depends on what lies in the buffer. The
  invariant of the reader (`Good`) says where in the file the buffer was cut out
  (`Before`), that what is left begins where the buffer ends, and that line and
  column are the place of what was read; lemma `PlaceMoves` says how a
  place moves with one character. One character read keeps it, and every action reads one to
  three times. The invariant of the tokens (`TokenInv`) says that every token in
  the list and in the running loop is at its place, that a token of type void
  proves a strange character in the file, and that the texts allocated are
  those of the list and one for a running loop. That keywords begin like names
  (`KeywordsAssumption`) is why the late position of keywords is no matter of
  `PointsAtStart`.
  `LexTokensAreMeant` is the specification of the lexer proved: `TokensAreMeant`, for
  every file. `Lexemes` defines pieces, their meanings and the listing by recursion
  on the place in a text; that such functions exist and obey their equations
  is lemma `ChainExists` (recursion on trees of `CommonLemmas`, the depth being the
  distance to the end). Lemma `FirstTells` says that the first character of a
  lexeme decides its kind, for which the classes of characters must not
  overlap (`ClassesAssumption`, what `isdigit`, `isalpha` and `isspace` are in
  C). `Reached(t, list, i)` says that the list is what is meant by the pieces before
  the one that begins at `i`. The invariant (`MeaningInv`) says that this holds
  where the reader is, or where the running loop began, and that what the loop
  has read since is the beginning of that piece (`ReadsWord`, `ReadsComment`,
  `ReadsString`). One lemma per case of `next_token` shows that it ends where the
  longest lexeme does (`Taken` puts its token in the list, `Passed` drops a blank
  or a comment); the lost character after a string literal is a blank that was
  promised. The premise `Promised` is why a failure cannot happen. At the end the
  listing is read again: what a token is printed as is a lexeme that means
  the token (`Spelled`), no longer lexeme goes on across the newline behind it
  (`NoLonger`), so the pieces of the listing are the tokens (`ReadBack`). This is
  about the listing as a text, not about a second run of the lexer.
* `Driver_proofs`: first `FilesTypeCorrect` and `FilesAnswerIsRight` of
  `files_equal`, for every alphabet, every size of the buffers and every pair of
  files. The invariant says that while texts are compared both pieces begin at
  one place and everything before the place of the comparison is the same in
  both; so they also end at one place, which is what the next pair of `fgets`
  needs. That `fgets` has an end to return is the least-number principle (lemma
  `Least` of `CommonLemmas`).
  Then `DriverTypeCorrect`, `DriverOkIsEarned`, `DriverHandedOver` and
  `DriverCrashOnlyOnReadOnly` of the two programs, for every disk they may
  start on, every source, and every compiler, emulator and assembler: what
  `ParseOf`, `ListingOf` and the others return is a parameter, of which only is
  supposed that each returns results of its kind or `Failed` and that no result
  is a missing file (`PartsAre`). The invariant (`DInv`) has a clause per step
  of `test.c`: what each variable holds (`TestHolds`), which calls have worked
  (`TestWorked`), what this run has written (`TestWrote`), compared
  (`TestCompared`) and said (`TestSaid`); `CompilerInv` is the same for
  `complete_compiler.c`, which is shorter. What an earlier run left on the disk
  is not in it, and need not be: every file a run reads it has written, or found
  to exist, at an earlier step. While a comparison runs, the files are those of
  the step that called it (`Comparing`), and the invariant of `files_equal` is
  used again.

* `CompileRun_proofs`: `RunAgrees`, `RunBalanced`, `RunKnownTrouble`, `RunForward` and
  `RunTypeCorrect`, for every set of expression trees: the generated code does
  what the body means, on the machine. The argument has four parts.
  First, the recursive functions of `HareSem` exist and obey their definitions:
  a function whose value at a tree depends on its parts only is unique and
  exists (`RecursionExists` of `CommonLemmas`, by the least depth where it would
  not).
  Second, the machine is a function from a state to the next (`Goes`), and
  `Reaches(r, s, t)` says that it gets from `s` to `t` in the code `r` by steps that
  go forward. Code is `Good` for an expression if, wherever it is loaded and
  whatever is on the stack, it has the length `CodeLen`, and either the machine
  finds the stack too short, where a value is missing, or is lost at the second
  byte of a character that is not ASCII (`SecondByteRuns`), or it reaches the end of
  the code with what `Eval` says in the variables and the output, and with the
  value on the stack. There is a lemma per case of `compile_expr` that its result
  is good if the results for the parts are (`LetReturnsGood`, `IfElseReturnsGood`
  and so on), the conditional with its two signed jumps being the long one.
  A variable keeps its address when others are declared behind it (`AddrStays`), and
  no two share one as long as they fit (`FitsZeroPage`); without that premise
  `Agree` is false.
  Third, `Compiled` is the invariant of `compile_expr`: each call works on the next
  part of the one that waits for it, and every partial program is good for its
  part, in a scope where what it uses is declared.
  Fourth, `RInv` says of the machine that from where it is it still reaches an end
  that is as it should be (`Destined`). A step brings it nearer (`NearerTheEnd`); a
  machine that has stopped is at that end (`AtTheEnd`). The properties are read
  off there.

* `Parser_proofs`: `ParseTypeCorrect`, `ParseTextsFreedOnce`, `ParseRoundTrip`,
  `ParseErrorsExplain` and `ParseEndsInside` (no program is accepted that was read past
  its end), for every list of tokens and whatever the memory holds behind it.
  None of the properties is inductive: while a parse runs, most of the tokens taken
  are in no tree yet. The invariant, `ParseInv`, has seven parts. `Content` is the
  heart: up to the place the parser is sure of, the tokens fall into pieces, one
  behind the other, one for each function of the tree and one for each call on
  the stack (`Follows`), and what a piece was made into covers it (`Covers`): its texts
  are those among the tokens that the parser has not freed on its way, each once
  (`Owns`), and it is printed as those tokens (`Reads`), where the program is one that
  `RoundTrip` speaks of (`Faithful`). A piece is cut up in the same way: `ItemsCover`
  follows what a call has got, `ChainCovers` a chain of operators, `Statements` a block,
  `Meant` a tree. There is a lemma per node that it means the tokens if its parts do
  (`LetMeant`, `IfElseMeant` and so on), and one per action for what it does to the pieces.
  The rotation of `Join` takes a tree apart and builds another; that its texts and
  its print are the same is associativity of `\o`. `*x = e`, first read as `*`
  and an assignment, is the other tree that is rebuilt. The other parts: `Legal`, each
  call waits for the one above it and has got no more than it needs; `Ranges` and
  `Ends`, where the index may stand at each exit, and that `past` with an empty stack
  never leads to acceptance; `FreedIs`, texts are freed once and before the
  index; `Named`, names are identifiers; `Told`, which token stands before a refusal
  without an error. `expression_delete` and `fprintf_expression` are recursive functions
  on trees of bounded depth (`Trees`); that they exist and obey their equations is
  proved first (`RecursionExists` of `CommonLemmas`). The provers read the marks
  `,` `;` `{` `}` between quotes in different ways, so the proofs speak of
  `Comma`, `Semicolon`, `Opening` and `Closing`.

Model-checked only: liveness (`RunStops`, `LexReturns`, `RunEnds`), which
TLAPS does not do; `AcceptsGrammar` and `TreeIsMeant`, since `Grammar` declares
RECURSIVE operators, with which the provers cannot work, and what they compute
for every input would be an induction over data.

## 5. Not modelled, and the plan

Not modelled: messages, error texts and terminal colours, comments in the
listing, the check of the arguments of the programs, the third-party tools in
`src/uxn` (their part is in `Uxn`, `Listing` and the constants of `Driver`). The
code for the addresses of functions (`fun_wait_addr_resize`,
`append_function_addr`) is never called.

What is left are compositions: lexer with parser (the token list with its
capacity, which is what lies behind the last token), parser with code generation
(the inputs of `CodeGen` become the parser's outputs), linker with machine (main
runs on into the functions that `MainIsListedFirst` says are listed behind it).
