----------------------------- MODULE CompileRun -----------------------------
(***************************************************************************)
(* The compiler and the machine together: a body is compiled, listed and   *)
(* assembled (Listing), and the machine runs it to the end.  The question  *)
(* is whether the run does what the body means (HareSem).                  *)
(***************************************************************************)
EXTENDS CodeGen, HareSem, Listing

ASSUME BodiesAssumption == Programs \subseteq Expressions

(* What is printed for a cell of a program is assembled to that cell.      *)
ASSUME WordsAssumption ==
  \A cell \in {Inst(o) : o \in Opcodes} \union {Raw(b) : b \in 0 .. 255} :
    Assembled(Printed(cell)) = cell

VARIABLES rom, at, ws, zp, out, status

M == INSTANCE Uxn

machine == <<rom, at, ws, zp, out, status>>
crVars  == <<cgVars, machine>>

CRInit ==
  /\ Init
  /\ rom = <<>>
  /\ at = 0
  /\ ws = <<>>
  /\ zp = [a \in 0 .. 255 |-> 0]
  /\ out = <<>>
  /\ status = "off"

CompileStep == Compile /\ UNCHANGED machine

LoadRom ==
  /\ pc = "done"
  /\ M!Load(uxnasm(fprintf_uxn_program(code)))
  /\ UNCHANGED cgVars

RunStep == M!Execute /\ UNCHANGED cgVars

CRNext == CompileStep \/ LoadRom \/ RunStep

(* Nobody has to start the machine; once started it goes on.               *)
CRSpec == CRInit /\ [][CRNext]_crVars /\ WF_crVars(RunStep)

-----------------------------------------------------------------------------
(* The state has its shape: the compiler's, and bytes on the stack and on  *)
(* the zero page of the machine.                                           *)
CRTypeOK ==
  /\ TypeOK
  /\ at \in Int
  /\ \A k \in DOMAIN ws : ws[k] \in 0 .. 255
  /\ \A a \in 0 .. 255 : zp[a] \in 0 .. 255
  /\ status \in {"off", "running", "halted", "underflow", "lost"}

DeclaredNames == {layout[k].name : k \in DOMAIN layout}

(* When the program stops, every variable holds the value its body gives   *)
(* it, and the devices received what the body sends, in that order.        *)
AsMeant ==
  LET meaning == Meaning(prog)
  IN  /\ out = meaning.out
      /\ \A n \in DeclaredNames : zp[Addr(layout, n)] = meaning.env[n]

(* The variables have room on the zero page.                               *)
FitsZeroPage(vars) == Total([k \in 1 .. Len(vars) |-> Size(vars[k].type)]) <= 256

(* Every well-formed body without >= and <= whose variables have room is   *)
(* run as it is meant.                                                     *)
Agree ==
  /\ status = "halted"
  /\ WellFormed(prog)
  /\ FitsZeroPage(layout)
  /\ ~Somewhere(ComparesOrEqual, prog)
  => AsMeant

(* Between two statements nothing is left on the stack: at the end of a    *)
(* well-formed body it is empty.                                           *)
Balanced == status = "halted" /\ WellFormed(prog) => ws = <<>>

(* The jumps of a body fit a signed byte.                                  *)
StaysOnTrack(body) == ~Somewhere(FarJump, body)

(* For every body, in the language's intended use or not, while its jumps  *)
(* fit a signed byte: a run executes a byte of a literal only where the    *)
(* body has a character that is not ASCII (compiler.c:407 writes two bytes *)
(* behind a LIT, which takes one), and finds the stack too short only      *)
(* where an expression without a value was used for its value.             *)
OnlyKnownTrouble ==
  StaysOnTrack(prog) =>
    /\ status = "lost" => Somewhere(SplitChar, prog)
    /\ status = "underflow" => Somewhere(MissesValue, prog)

(* A body has no loops: while its jumps fit, execution goes forward.       *)
ForwardOnly ==
  [][StaysOnTrack(prog) => at' > at \/ status' # status \/ status = "off"]_machine

(* The language has no loops: while the jumps of a body fit and its        *)
(* characters are ASCII, its program comes to an end by itself, whatever   *)
(* the distances its nested conditionals are given (compiler.c:419-451).   *)
RunStops ==
  status = "running" /\ StaysOnTrack(prog) /\ ~Somewhere(SplitChar, prog)
  ~> status \in {"halted", "underflow"}

-----------------------------------------------------------------------------
(* "body if too large (> 255)", "body else too large (> 255)"              *)
(* (compiler.c:441, 448): a conditional that is not refused works.         *)
AcceptedBranchesWork == status # "lost"

(* ">=" and "<=" are the comparisons of the language (lexer.h:41, 43).     *)
ComparisonsAgree == status = "halted" /\ WellFormed(prog) => AsMeant
=============================================================================
