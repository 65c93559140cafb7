----------------------------- MODULE Driver_proofs -----------------------------
(***************************************************************************)
(* Proofs about files_equal, for every alphabet, every buffer and every    *)
(* pair of files; and about the two main programs, whatever the parts they *)
(* call compute, whatever lies on the disk and whichever tools fail.       *)
(***************************************************************************)
EXTENDS Driver, CommonLemmas, TLAPS

(***************************************************************************)
(* The inductive invariant.  While two texts are compared, both buffers    *)
(* hold pieces that begin at the same place, and everything before the     *)
(* place of the comparison is the same in both files: that both pieces end *)
(* there is what goes on to the next, so the pieces end at one place too.  *)
(* Equal files are read in step, whatever is in them.                      *)
(***************************************************************************)
SameTo(n) ==
  /\ n <= Len(file1) /\ n <= Len(file2)
  /\ \A k \in 1 .. n : file1[k] = file2[k]

IsPiece(file, from, e) ==
  /\ e \in from + 1 .. Len(file)
  /\ Stops(file, from, e)
  /\ \A d \in from + 1 .. e - 1 : ~Stops(file, from, d)

Texts == IsText(file1) /\ IsText(file2)

Compared ==
  /\ at = "read" /\ Texts => read1 = read2 /\ SameTo(read1)
  /\ at = "compare" /\ Texts =>
       /\ from1 = from2
       /\ from1 + i <= read1 /\ from1 + i <= read2
       /\ SameTo(from1 + i)

InStep == file1 = file2 => from1 = from2 /\ read1 = read2

IInv == TypeOK /\ Compared /\ InStep /\ AnswerIsRight

-----------------------------------------------------------------------------
(* fgets has something to return while there is something to read.         *)
LEMMA PieceEndIs ==
  ASSUME NEW file \in Text, NEW from \in 0 .. Len(file) - 1
  PROVE  IsPiece(file, from, PieceEnd(file, from))
<1> DEFINE T == {e \in from + 1 .. Len(file) : Stops(file, from, e)}
<1>0. Len(file) \in Nat  BY DEF Text
<1>1. T \subseteq Nat  BY <1>0
<1>2. Len(file) \in T  BY <1>0 DEF Stops
<1>3. PICK e \in T : \A d \in T : e <= d
  BY <1>1, <1>2, Least
<1>4. /\ e \in from + 1 .. Len(file)
      /\ Stops(file, from, e)
      /\ \A d \in from + 1 .. e - 1 : ~Stops(file, from, d)
  BY <1>0, <1>3
<1> QED  BY <1>4 DEF PieceEnd, IsPiece

(* A piece fits the buffer, since the place where the buffer is full is    *)
(* one where fgets stops.                                                  *)
LEMMA PieceFits ==
  ASSUME NEW file \in Text, NEW from \in 0 .. Len(file) - 1, NEW e,
         IsPiece(file, from, e)
  PROVE  e - from < BuffSize
<1>0. Len(file) \in Nat /\ BuffSize \in Nat /\ BuffSize > 1
  BY BuffSizeAssumption DEF Text
<1>1. e \in from + 1 .. Len(file)  BY DEF IsPiece
<1> SUFFICES ASSUME e - from >= BuffSize PROVE FALSE
  BY <1>0, <1>1
<1>2. from + (BuffSize - 1) \in from + 1 .. e - 1  BY <1>0, <1>1
<1>3. Stops(file, from, from + (BuffSize - 1))  BY <1>0, <1>2 DEF Stops
<1> QED  BY <1>2, <1>3 DEF IsPiece

-----------------------------------------------------------------------------
LEMMA InitIInv == Init => IInv
<1> SUFFICES ASSUME Init PROVE IInv
  OBVIOUS
<1>1. TypeOK  BY BuffSizeAssumption DEF Init, TypeOK, Text
<1>2. Compared /\ InStep /\ AnswerIsRight
  BY DEF Init, Compared, InStep, AnswerIsRight
<1> QED  BY <1>1, <1>2 DEF IInv

(* The steps of one call, and a new call, preserve the invariant.          *)
LEMMA CallIInv ==
  ASSUME IInv, NEW f1 \in Text, NEW f2 \in Text, Call(f1, f2)
  PROVE  IInv'
<1>1. TypeOK'  BY BuffSizeAssumption DEF Call, TypeOK, Text
<1>2. InStep' /\ AnswerIsRight'
  BY DEF Call, InStep, AnswerIsRight
<1>3. Compared'
  <2>1. SameTo(0)'  BY DEF SameTo, Call, Text
  <2> QED  BY <2>1 DEF Call, Compared
<1> QED  BY <1>1, <1>2, <1>3 DEF IInv

LEMMA ReadIInv == ASSUME IInv, ReadPieces PROVE IInv'
<1> USE DEF IInv
<1>0. /\ file1 \in Text /\ file2 \in Text
      /\ Len(file1) \in Nat /\ Len(file2) \in Nat
      /\ read1 \in 0 .. Len(file1) - 1 /\ read2 \in 0 .. Len(file2) - 1
  BY DEF TypeOK, ReadPieces, Text
<1>1. IsPiece(file1, read1, read1') /\ IsPiece(file2, read2, read2')
  BY <1>0, PieceEndIs DEF ReadPieces
<1>2. read1' - read1 < BuffSize /\ read2' - read2 < BuffSize
  BY <1>0, <1>1, PieceFits
<1>3. /\ file1' = file1 /\ file2' = file2 /\ from1' = read1 /\ from2' = read2
      /\ i' = 0 /\ at = "read" /\ at' = "compare"
  BY DEF ReadPieces
<1>4. /\ read1' \in read1 + 1 .. Len(file1)
      /\ read2' \in read2 + 1 .. Len(file2)
  BY <1>1 DEF IsPiece
<1>5. TypeOK'
  <2>1. read1' \in 0 .. Len(file1) /\ read2' \in 0 .. Len(file2)
    BY <1>0, <1>4
  <2>2. from1' \in 0 .. read1' /\ from2' \in 0 .. read2'
    BY <1>0, <1>3, <1>4
  <2>3. 0 \in 0 .. BuffSize - 1  BY BuffSizeAssumption
  <2> QED  BY <1>0, <1>2, <1>3, <2>1, <2>2, <2>3 DEF TypeOK
<1>6. Compared'
  <2> SUFFICES ASSUME Texts'
               PROVE  /\ from1' = from2'
                      /\ from1' + i' <= read1' /\ from1' + i' <= read2'
                      /\ SameTo(from1 + i)'
    BY <1>3 DEF Compared
  <2>1. Texts  BY <1>3 DEF Texts, IsText
  <2>2. read1 = read2 /\ SameTo(read1)  BY <2>1, <1>3 DEF Compared
  <2>3. SameTo(from1 + i)'  BY <1>0, <1>3, <2>2 DEF SameTo
  <2> QED  BY <1>0, <1>3, <1>4, <2>2, <2>3
<1>7. InStep'
  BY <1>3 DEF InStep, ReadPieces
<1>8. AnswerIsRight'  BY <1>3 DEF AnswerIsRight
<1> QED  BY <1>5, <1>6, <1>7, <1>8

(* A step that only gives an answer, the right one, or goes on reading.    *)
LEMMA AnswerIInv ==
  ASSUME IInv, NEW a \in {"yes", "no", "read"}, Answer(a),
         a = "no" => file1 # file2,
         a = "yes" /\ Texts => file1 = file2,
         a = "read" /\ Texts => read1 = read2 /\ SameTo(read1)
  PROVE  IInv'
<1> USE DEF IInv
<1>0. /\ file1' = file1 /\ file2' = file2 /\ from1' = from1 /\ from2' = from2
      /\ read1' = read1 /\ read2' = read2 /\ i' = i /\ at' = a
  BY DEF Answer
<1>1. TypeOK'  BY <1>0 DEF TypeOK
<1>2. InStep'  BY <1>0 DEF InStep
<1>3. Compared'
  BY <1>0 DEF Compared, Texts, IsText, SameTo
<1>4. AnswerIsRight'  BY <1>0 DEF AnswerIsRight, Texts, IsText
<1> QED  BY <1>1, <1>2, <1>3, <1>4

LEMMA EndedIInv == ASSUME IInv, BothEnded \/ OneEnded PROVE IInv'
<1>0. /\ TypeOK /\ Compared /\ InStep /\ at = "read"
      /\ file1 \in Text /\ file2 \in Text
      /\ Len(file1) \in Nat /\ Len(file2) \in Nat
  BY DEF IInv, TypeOK, Text, BothEnded, OneEnded
<1>1. CASE BothEnded
  <2>1. ASSUME Texts PROVE file1 = file2
    <3>1. read1 = read2 /\ SameTo(read1)  BY <1>0, <2>1 DEF Compared
    <3>2. Len(file1) = Len(file2)  BY <1>1, <3>1 DEF BothEnded
    <3>3. \A k \in 1 .. Len(file1) : file1[k] = file2[k]
      BY <1>1, <3>1 DEF BothEnded, SameTo
    <3> QED  BY <1>0, <3>2, <3>3 DEF Text
  <2> QED  BY <1>1, <2>1, AnswerIInv DEF BothEnded
<1>2. CASE OneEnded
  <2>1. file1 # file2  BY <1>0, <1>2 DEF OneEnded, InStep
  <2> QED  BY <1>2, <2>1, AnswerIInv DEF OneEnded
<1> QED  BY <1>1, <1>2

(* What the invariant says of the two buffers while they are compared.     *)
LEMMA Buffers ==
  ASSUME IInv, at = "compare", Texts
  PROVE  /\ from1 = from2 /\ from1 \in Nat /\ i \in Nat
         /\ buff1 = IF from1 + i < read1 THEN file1[from1 + i + 1] ELSE Nul
         /\ buff2 = IF from1 + i < read2 THEN file2[from1 + i + 1] ELSE Nul
         /\ buff1 = Nul <=> from1 + i = read1
         /\ buff2 = Nul <=> from1 + i = read2
<1>0. /\ TypeOK /\ Compared
      /\ Len(file1) \in Nat /\ Len(file2) \in Nat /\ BuffSize \in Nat
  BY BuffSizeAssumption DEF IInv, TypeOK, Text
<1>1. /\ from1 = from2 /\ from1 \in Nat /\ from2 \in Nat /\ i \in Nat
      /\ read1 \in 0 .. Len(file1) /\ read2 \in 0 .. Len(file2)
      /\ from1 + i <= read1 /\ from1 + i <= read2
  BY <1>0 DEF Compared, TypeOK
<1>2. /\ buff1 = IF from1 + i < read1 THEN file1[from1 + i + 1] ELSE Nul
      /\ buff2 = IF from1 + i < read2 THEN file2[from1 + i + 1] ELSE Nul
  BY <1>1 DEF buff1, buff2, Buffered
<1>3. /\ from1 + i < read1 => file1[from1 + i + 1] # Nul
      /\ from1 + i < read2 => file2[from1 + i + 1] # Nul
  BY <1>0, <1>1 DEF Texts, IsText
<1> QED  BY <1>1, <1>2, <1>3

LEMMA SameIInv == ASSUME IInv, SameChar PROVE IInv'
<1> USE DEF IInv
<1>0. /\ file1' = file1 /\ file2' = file2 /\ from1' = from1 /\ from2' = from2
      /\ read1' = read1 /\ read2' = read2 /\ i' = i + 1
      /\ at = "compare" /\ at' = "compare"
      /\ buff1 = buff2 /\ buff1 # Nul
  BY DEF SameChar
<1>1. /\ Len(file1) \in Nat /\ Len(file2) \in Nat /\ BuffSize \in Nat
      /\ from1 \in Nat /\ from2 \in Nat /\ i \in Nat
      /\ read1 \in 0 .. Len(file1) /\ read2 \in 0 .. Len(file2)
      /\ read1 - from1 < BuffSize
  BY BuffSizeAssumption DEF TypeOK, Text
<1>2. from1 + i < read1 /\ from2 + i < read2
  BY <1>0, <1>1 DEF buff1, buff2, Buffered
<1>3. TypeOK'  BY <1>0, <1>1, <1>2 DEF TypeOK
<1>4. InStep' /\ AnswerIsRight'
  BY <1>0 DEF InStep, AnswerIsRight
<1>5. Compared'
  <2> SUFFICES ASSUME Texts
               PROVE  /\ from1 = from2
                      /\ from1 + (i + 1) <= read1 /\ from1 + (i + 1) <= read2
                      /\ SameTo(from1 + (i + 1))
    BY <1>0 DEF Compared, Texts, IsText, SameTo
  <2>1. from1 = from2 /\ SameTo(from1 + i)  BY <1>0 DEF Compared
  <2>2. file1[from1 + i + 1] = file2[from1 + i + 1]
    BY <1>0, <1>2, Buffers
  <2>3. \A k \in 1 .. from1 + (i + 1) : k \in 1 .. from1 + i \/ k = from1 + i + 1
    BY <1>1
  <2>4. SameTo(from1 + (i + 1))
    BY <1>1, <1>2, <2>1, <2>2, <2>3 DEF SameTo
  <2> QED  BY <1>1, <1>2, <2>1, <2>4
<1> QED  BY <1>3, <1>4, <1>5

LEMMA OverIInv == ASSUME IInv, PiecesOver PROVE IInv'
<1>0. TypeOK /\ at = "compare" /\ Answer("read") /\ i \in 0 .. BuffSize - 1
  BY DEF PiecesOver, IInv, TypeOK
<1>1. buff1 = Nul /\ buff2 = Nul
  BY <1>0, BuffSizeAssumption DEF PiecesOver
<1>2. ASSUME Texts PROVE read1 = read2 /\ SameTo(read1)
  <2>1. from1 + i = read1 /\ from1 + i = read2
    BY <1>0, <1>1, <1>2, Buffers
  <2>2. SameTo(from1 + i)  BY <1>0, <1>2 DEF IInv, Compared
  <2> QED  BY <2>1, <2>2
<1> QED  BY <1>0, <1>2, AnswerIInv

LEMMA DifferentIInv == ASSUME IInv, DifferentChar PROVE IInv'
<1>1. file1 # file2
  BY DEF IInv, InStep, DifferentChar, buff1, buff2, Buffered
<1> QED  BY <1>1, AnswerIInv DEF DifferentChar

LEMMA StutterIInv == ASSUME IInv, UNCHANGED feVars PROVE IInv'
  BY DEF feVars, IInv, TypeOK, Compared, InStep, AnswerIsRight,
         Texts, IsText, SameTo

LEMMA NextIInv == IInv /\ [Next]_feVars => IInv'
<1> SUFFICES ASSUME IInv, [Next]_feVars PROVE IInv'
  OBVIOUS
<1>1. CASE ReadPieces  BY <1>1, ReadIInv
<1>2. CASE BothEnded \/ OneEnded  BY <1>2, EndedIInv
<1>3. CASE SameChar  BY <1>3, SameIInv
<1>4. CASE PiecesOver  BY <1>4, OverIInv
<1>5. CASE DifferentChar  BY <1>5, DifferentIInv
<1>6. CASE \E f1, f2 \in Text : Call(f1, f2)  BY <1>6, CallIInv
<1>7. CASE UNCHANGED feVars  BY <1>7, StutterIInv
<1> QED  BY <1>1, <1>2, <1>3, <1>4, <1>5, <1>6, <1>7 DEF Next, feStep

-----------------------------------------------------------------------------
(* files_equal stays within its buffers and its files.                     *)
THEOREM FilesTypeCorrect == Spec => []TypeOK
<1>1. IInv => TypeOK  BY DEF IInv
<1> QED  BY <1>1, InitIInv, NextIInv, PTL DEF Spec

(* The answers of files_equal, for files of any length in pieces of any    *)
(* length.                                                                 *)
THEOREM FilesAnswerIsRight == Spec => []AnswerIsRight
<1>1. IInv => AnswerIsRight  BY DEF IInv
<1> QED  BY <1>1, InitIInv, NextIInv, PTL DEF Spec

-----------------------------------------------------------------------------
(* What the parts make of a source m, one after the other.                 *)
Ast1(m)    == parse(lexify(m))
Pretty1(m) == fprintf_ast(Ast1(m))
Tokens2(m) == lexify(Pretty1(m))
Ast2(m)    == parse(Tokens2(m))
Pretty2(m) == fprintf_ast(Ast2(m))
Tokens3(m) == lexify(Pretty2(m))
Program(m) == compile_to_uxn(Ast1(m))
Code(m)    == fprintf_uxn_program(Program(m))
Rom(m)     == uxnasm(Code(m))

(* test.c before its step q: what the variables hold, which calls have not *)
(* failed, what was written, and what was compared.                        *)
TestHolds(q, m) ==
  [v \in Variables |->
     CASE v = "tokens" /\ q \in 2 .. 5      -> lexify(m)
       [] v = "tokens" /\ q \in 14 .. 15    -> Tokens3(m)
       [] v = "tokens_2" /\ q = 8           -> Tokens2(m)
       [] v = "ast" /\ q \in 6 .. 18        -> Ast1(m)
       [] v = "ast_2" /\ q \in 9 .. 10      -> Ast2(m)
       [] v = "uxn_program" /\ q \in 19 .. 25 -> Program(m)
       [] OTHER                             -> Gone]

TestWorked(q, m) ==
  /\ q >= 2  => m \in Text /\ lexify(m) # Failed
  /\ q >= 6  => Ast1(m) # Failed
  /\ q >= 8  => Tokens2(m) # Failed
  /\ q >= 9  => Ast2(m) # Failed
  /\ q >= 14 => Tokens3(m) # Failed
  /\ q >= 19 => Program(m) # Failed

TestWrote(q, m, d, x) ==
  /\ q >= 3  => d["lexer_result"] = fprintf_tokens(lexify(m))
  /\ q >= 4  => d["lexer_expected"] # Absent
  /\ q >= 7  => d["parser_result"] = Pretty1(m)
  /\ q >= 10 => d["parser_2_result"] = Pretty2(m)
  /\ q \in 13 .. 14 => d["lexer_2_result"] = <<>>
  /\ q >= 15 => d["lexer_2_result"] = fprintf_tokens(Tokens3(m))
  /\ q >= 20 => d["code.uxntal"] = Code(m)
  /\ "assembled" \in x => q >= 22 /\ d["code.rom"] = Rom(m)
  /\ "executed" \in x  => q >= 23
  /\ x = {"assembled", "executed"} => d["output_result"] = uxncli(Rom(m))

TestCompared(q, m, d) ==
  /\ q >= 4  => Same(fprintf_tokens(lexify(m)), d["lexer_expected"])
  /\ q >= 12 => Same(Pretty2(m), Pretty1(m))
  /\ q >= 17 => Same(fprintf_tokens(Tokens3(m)), d["lexer_expected"])
  /\ q >= 24 => Same(d["output_result"], d["output_expected"])

TestSaid(q, s) ==
  /\ "lexer" \in s     => q >= 5
  /\ "parser" \in s    => q >= 18
  /\ "compiler" \in s  => q >= 21
  /\ "execution" \in s => q >= 25

TestInv(q, d, h, s, x) ==
  LET m == d["main.ha"]
  IN  /\ q \in 1 .. 26
      /\ h = TestHolds(q, m)
      /\ TestWorked(q, m)
      /\ TestWrote(q, m, d, x)
      /\ TestCompared(q, m, d)
      /\ TestSaid(q, s)

(* complete_compiler.c.                                                    *)
CompilerHolds(q, m) ==
  [v \in Variables |->
     CASE v = "tokens" /\ q = 2             -> lexify(m)
       [] v = "ast" /\ q = 3                -> Ast1(m)
       [] v = "uxn_program" /\ q \in 4 .. 8 -> Program(m)
       [] OTHER                             -> Gone]

CompilerInv(q, d, h, s) ==
  LET m == d["main.ha"]
  IN  /\ q \in 1 .. 9
      /\ h = CompilerHolds(q, m)
      /\ q >= 2 => m \in Text /\ lexify(m) # Failed
      /\ q >= 3 => Ast1(m) # Failed
      /\ q >= 4 => Program(m) # Failed
      /\ q >= 5 => d["code.uxntal"] = Code(m)
      /\ s \subseteq {"compiler"} /\ ("compiler" \in s => q >= 6)

(* Where the comparison is while the program is at a step.                 *)
Comparing(q) ==
  at # "idle" =>
    /\ program = "test" /\ q \in {3, 11, 16, 23}
    /\ file1 = disk[Script[q].what] /\ file2 = disk[Script[q].into]

DInv ==
  /\ DTypeOK
  /\ Compared /\ InStep /\ AnswerIsRight
  /\ program = "test"     => TestInv(pc, disk, held, said, did)
  /\ program = "compiler" => CompilerInv(pc, disk, held, said)
  /\ outcome = "running" <=> pc \in 1 .. Len(Script) /\ outcome \notin {"refused", "crashed", "killed"}
  /\ Comparing(pc)
  /\ CrashOnlyOnReadOnly
  /\ again \in Nat

-----------------------------------------------------------------------------
(* What the parts are: each has its kind of results, and none of these is  *)
(* what a variable points to when it points to nothing.                    *)
PartsAre(T, A, P) ==
  /\ \A t \in Text : /\ lexify(t) \in T \union {Failed}
                     /\ uxnasm(t) \in Text \union {Failed} /\ uxncli(t) \in Text
  /\ \A x \in T : fprintf_tokens(x) \in Text /\ parse(x) \in A \union {Failed}
  /\ \A x \in A : fprintf_ast(x) \in Text /\ compile_to_uxn(x) \in P \union {Failed}
  /\ \A x \in P : fprintf_uxn_program(x) \in Text
  /\ Gone \notin T \union A \union P
  /\ Absent \notin Text

(* The scripts, step by step.                                              *)
LEMMA Concatenated ==
  ASSUME NEW S, NEW a \in Seq(S), NEW b \in Seq(S), NEW c \in Seq(S), NEW d \in Seq(S),
         NEW all, all = a \o b \o c \o d
  PROVE  /\ Len(all) = Len(a) + Len(b) + Len(c) + Len(d)
         /\ \A k \in 1 .. Len(a) : all[k] = a[k]
         /\ \A k \in 1 .. Len(b) : all[Len(a) + k] = b[k]
         /\ \A k \in 1 .. Len(c) : all[Len(a) + Len(b) + k] = c[k]
         /\ \A k \in 1 .. Len(d) : all[Len(a) + Len(b) + Len(c) + k] = d[k]
<1>1. /\ a \o b \in Seq(S) /\ Len(a \o b) = Len(a) + Len(b)
      /\ \A k \in 1 .. Len(a) : (a \o b)[k] = a[k]
      /\ \A k \in 1 .. Len(b) : (a \o b)[Len(a) + k] = b[k]
  OBVIOUS
<1> DEFINE ab == a \o b
<1>2. /\ ab \o c \in Seq(S) /\ Len(ab \o c) = Len(ab) + Len(c)
      /\ \A k \in 1 .. Len(ab) : (ab \o c)[k] = ab[k]
      /\ \A k \in 1 .. Len(c)  : (ab \o c)[Len(ab) + k] = c[k]
  <2> HIDE DEF ab
  <2> QED  BY <1>1 DEF ab
<1> DEFINE abc == ab \o c
<1>3. /\ Len(abc \o d) = Len(abc) + Len(d)
      /\ \A k \in 1 .. Len(abc) : (abc \o d)[k] = abc[k]
      /\ \A k \in 1 .. Len(d)  : (abc \o d)[Len(abc) + k] = d[k]
  <2> HIDE DEF abc
  <2> QED  BY <1>2 DEF abc
<1> DEFINE abcd == abc \o d
<1>4. /\ Len(abcd) = Len(a) + Len(b) + Len(c) + Len(d)
      /\ \A k \in 1 .. Len(a) : abcd[k] = a[k]
      /\ \A k \in 1 .. Len(b) : abcd[Len(a) + k] = b[k]
      /\ \A k \in 1 .. Len(c) : abcd[Len(a) + Len(b) + k] = c[k]
      /\ \A k \in 1 .. Len(d) : abcd[Len(a) + Len(b) + Len(c) + k] = d[k]
  <2>1. Len(a) \in Nat /\ Len(b) \in Nat /\ Len(c) \in Nat /\ Len(d) \in Nat
    OBVIOUS
  <2>2. Len(ab) = Len(a) + Len(b) /\ Len(abc) = Len(a) + Len(b) + Len(c)
    BY <1>1, <1>2
  <2>3. /\ Len(abcd) = Len(abc) + Len(d)
        /\ \A k \in 1 .. Len(abc) : abcd[k] = abc[k]
        /\ \A k \in 1 .. Len(d)  : abcd[Len(abc) + k] = d[k]
    BY <1>3
  <2>4. /\ \A k \in 1 .. Len(ab) : abc[k] = ab[k]
        /\ \A k \in 1 .. Len(c)  : abc[Len(ab) + k] = c[k]
    BY <1>2
  <2>5. /\ \A k \in 1 .. Len(a) : ab[k] = a[k]
        /\ \A k \in 1 .. Len(b) : ab[Len(a) + k] = b[k]
    BY <1>1
  <2> HIDE DEF ab, abc, abcd
  <2>6. \A k \in 1 .. Len(a) : abcd[k] = a[k]
    BY <2>1, <2>2, <2>3, <2>4, <2>5
  <2>7. ASSUME NEW k \in 1 .. Len(b) PROVE abcd[Len(a) + k] = b[k]
    <3>1. Len(a) + k \in 1 .. Len(ab) /\ Len(a) + k \in 1 .. Len(abc)
      BY <2>1, <2>2
    <3> QED  BY <2>3, <2>4, <2>5, <3>1
  <2>8. \A k \in 1 .. Len(c) : abcd[Len(a) + Len(b) + k] = c[k]
    BY <2>1, <2>2, <2>3, <2>4
  <2> QED  BY <2>2, <2>3, <2>6, <2>7, <2>8
<1> QED  BY <1>4

LEMMA TestScript ==
  ASSUME program = "test"
  PROVE  /\ Len(Script) = 25
         /\ Script[1] = LexerSteps[1]
         /\ Script[2] = LexerSteps[2]
         /\ Script[3] = LexerSteps[3]
         /\ Script[4] = LexerSteps[4]
         /\ Script[5] = ParserSteps[1]
         /\ Script[6] = ParserSteps[2]
         /\ Script[7] = ParserSteps[3]
         /\ Script[8] = ParserSteps[4]
         /\ Script[9] = ParserSteps[5]
         /\ Script[10] = ParserSteps[6]
         /\ Script[11] = ParserSteps[7]
         /\ Script[12] = ParserSteps[8]
         /\ Script[13] = ParserSteps[9]
         /\ Script[14] = ParserSteps[10]
         /\ Script[15] = ParserSteps[11]
         /\ Script[16] = ParserSteps[12]
         /\ Script[17] = ParserSteps[13]
         /\ Script[18] = CompilerSteps[1]
         /\ Script[19] = CompilerSteps[2]
         /\ Script[20] = CompilerSteps[3]
         /\ Script[21] = ExecutionSteps[1]
         /\ Script[22] = ExecutionSteps[2]
         /\ Script[23] = ExecutionSteps[3]
         /\ Script[24] = ExecutionSteps[4]
         /\ Script[25] = ExecutionSteps[5]
<1> DEFINE a == LexerSteps
           b == ParserSteps
           c == CompilerSteps
           d == ExecutionSteps
           S == {a[k] : k \in DOMAIN a} \union {b[k] : k \in DOMAIN b}
                  \union {c[k] : k \in DOMAIN c} \union {d[k] : k \in DOMAIN d}
<1>1. Script = a \o b \o c \o d  BY DEF Script
<1>2. /\ Len(a) = 4 /\ DOMAIN a = 1 .. 4
      /\ a[1] = LexFile("main.ha", "tokens", Log, {"main.ha"})
      /\ a[2] = ListTokens("tokens", "lexer_result", {"lexer_result"})
      /\ a[3] = Compare("lexer_expected", "lexer_result",
                        {"lexer_expected", "lexer_result"})
      /\ a[4] = Say("lexer")
  BY DEF LexerSteps
<1>3. /\ Len(b) = 13 /\ DOMAIN b = 1 .. 13
      /\ b[1] = ParseTokens("tokens", "ast", Log)
      /\ b[2] = PrintAst("ast", "parser_result")
      /\ b[3] = LexFile("parser_result", "tokens_2", Log, {})
      /\ b[4] = ParseTokens("tokens_2", "ast_2", Log)
      /\ b[5] = PrintAst("ast_2", "parser_2_result")
      /\ b[6] = Delete("ast_2")
      /\ b[7] = Compare("parser_result", "parser_2_result", {})
      /\ b[8] = CreateFile("lexer_2_result")
      /\ b[9] = LexFile("parser_2_result", "tokens", Log, {})
      /\ b[10] = ListTokens("tokens", "lexer_2_result", {})
      /\ b[11] = Delete("tokens")
      /\ b[12] = Compare("lexer_2_result", "lexer_expected", {})
      /\ b[13] = Say("parser")
  BY DEF ParserSteps
<1>4. /\ Len(c) = 3 /\ DOMAIN c = 1 .. 3
      /\ c[1] = CompileAst("ast", Log)
      /\ c[2] = PrintProgram("code.uxntal")
      /\ c[3] = Say("compiler")
  BY DEF CompilerSteps
<1>5. /\ Len(d) = 5 /\ DOMAIN d = 1 .. 5
      /\ d[1] = Assemble("code.uxntal", "code.rom", "uxnasm_result")
      /\ d[2] = Execute("code.rom", "output_result")
      /\ d[3] = Compare("output_result", "output_expected",
                        {"output_result", "output_expected"})
      /\ d[4] = Say("execution")
      /\ d[5] = Delete("uxn_program")
  BY DEF ExecutionSteps
<1>6. a \in Seq(S) /\ b \in Seq(S) /\ c \in Seq(S) /\ d \in Seq(S)
  BY DEF LexerSteps, ParserSteps, CompilerSteps, ExecutionSteps
<1> HIDE DEF a, b, c, d, S
<1>7. /\ Len(Script) = 25
      /\ \A k \in 1 .. 4  : Script[k] = a[k]
      /\ \A k \in 1 .. 13 : Script[4 + k] = b[k]
      /\ \A k \in 1 .. 3  : Script[17 + k] = c[k]
      /\ \A k \in 1 .. 5  : Script[20 + k] = d[k]
  <2>1. /\ Len(Script) = Len(a) + Len(b) + Len(c) + Len(d)
        /\ \A k \in 1 .. Len(a) : Script[k] = a[k]
        /\ \A k \in 1 .. Len(b) : Script[Len(a) + k] = b[k]
        /\ \A k \in 1 .. Len(c) : Script[Len(a) + Len(b) + k] = c[k]
        /\ \A k \in 1 .. Len(d) : Script[Len(a) + Len(b) + Len(c) + k] = d[k]
    BY <1>1, <1>6, Concatenated
  <2>2. Len(a) = 4 /\ Len(b) = 13 /\ Len(c) = 3 /\ Len(d) = 5
    BY <1>2, <1>3, <1>4, <1>5
  <2> QED  BY <2>1, <2>2
<1>8. /\ Script[1] = a[1] /\ Script[2] = a[2] /\ Script[3] = a[3] /\ Script[4] = a[4]
      /\ Script[5] = b[1] /\ Script[6] = b[2] /\ Script[7] = b[3] /\ Script[8] = b[4]
      /\ Script[9] = b[5] /\ Script[10] = b[6] /\ Script[11] = b[7] /\ Script[12] = b[8]
      /\ Script[13] = b[9] /\ Script[14] = b[10] /\ Script[15] = b[11]
      /\ Script[16] = b[12] /\ Script[17] = b[13]
      /\ Script[18] = c[1] /\ Script[19] = c[2] /\ Script[20] = c[3]
      /\ Script[21] = d[1] /\ Script[22] = d[2] /\ Script[23] = d[3]
      /\ Script[24] = d[4] /\ Script[25] = d[5]
  BY <1>7
<1> QED  BY <1>7, <1>8 DEF a, b, c, d

LEMMA CompilerScript ==
  ASSUME program = "compiler"
  PROVE  /\ Len(Script) = 8
         /\ Script[1] = LexFile("main.ha", "tokens", {}, {"main.ha"})
         /\ Script[2] = ParseTokens("tokens", "ast", {})
         /\ Script[3] = CompileAst("ast", {})
         /\ Script[4] = PrintProgram("code.uxntal")
         /\ Script[5] = Say("compiler")
         /\ Script[6] = Assemble("code.uxntal", "code.uxntal.rom", "stdout")
         /\ Script[7] = Execute("main.ha.rom", "stdout")
         /\ Script[8] = Delete("uxn_program")
BY DEF Script, CompleteSteps

(* What is done in each step.                                              *)
Done(st, op, what, into) == st.op = op /\ st.what = what /\ st.into = into

LEMMA StepsAre ==
  /\ \A f, v, log, ch : Done(LexFile(f, v, log, ch), "lex", f, v)
  /\ \A f : Done(CreateFile(f), "create", "", f)
  /\ \A v, f, ch : Done(ListTokens(v, f, ch), "list", v, f)
  /\ \A v, a, log : Done(ParseTokens(v, a, log), "parse", v, a)
  /\ \A v, f : Done(PrintAst(v, f), "print", v, f)
  /\ \A v : Done(Delete(v), "delete", v, "")
  /\ \A v, log : Done(CompileAst(v, log), "compile", v, "uxn_program")
  /\ \A f : Done(PrintProgram(f), "program", "uxn_program", f)
  /\ \A f, g, ch : Done(Compare(f, g, ch), "compare", f, g)
  /\ \A w : Done(Say(w), "say", w, "")
  /\ \A f, g, o : Done(Assemble(f, g, o), "assemble", f, g)
  /\ \A f, o : Done(Execute(f, o), "execute", f, o)
BY DEF Done, LexFile, CreateFile, ListTokens, ParseTokens, PrintAst, Delete, CompileAst,
       PrintProgram, Compare, Say, Assemble, Execute, Step

LEMMA PartsDone ==
  /\ Done(LexerSteps[1], "lex", "main.ha", "tokens")
  /\ Done(LexerSteps[2], "list", "tokens", "lexer_result")
  /\ Done(LexerSteps[3], "compare", "lexer_expected", "lexer_result")
  /\ Done(LexerSteps[4], "say", "lexer", "")
  /\ Done(ParserSteps[1], "parse", "tokens", "ast")
  /\ Done(ParserSteps[2], "print", "ast", "parser_result")
  /\ Done(ParserSteps[3], "lex", "parser_result", "tokens_2")
  /\ Done(ParserSteps[4], "parse", "tokens_2", "ast_2")
  /\ Done(ParserSteps[5], "print", "ast_2", "parser_2_result")
  /\ Done(ParserSteps[6], "delete", "ast_2", "")
  /\ Done(ParserSteps[7], "compare", "parser_result", "parser_2_result")
  /\ Done(ParserSteps[8], "create", "", "lexer_2_result")
  /\ Done(ParserSteps[9], "lex", "parser_2_result", "tokens")
  /\ Done(ParserSteps[10], "list", "tokens", "lexer_2_result")
  /\ Done(ParserSteps[11], "delete", "tokens", "")
  /\ Done(ParserSteps[12], "compare", "lexer_2_result", "lexer_expected")
  /\ Done(ParserSteps[13], "say", "parser", "")
  /\ Done(CompilerSteps[1], "compile", "ast", "uxn_program")
  /\ Done(CompilerSteps[2], "program", "uxn_program", "code.uxntal")
  /\ Done(CompilerSteps[3], "say", "compiler", "")
  /\ Done(ExecutionSteps[1], "assemble", "code.uxntal", "code.rom")
  /\ Done(ExecutionSteps[2], "execute", "code.rom", "output_result")
  /\ Done(ExecutionSteps[3], "compare", "output_result", "output_expected")
  /\ Done(ExecutionSteps[4], "say", "execution", "")
  /\ Done(ExecutionSteps[5], "delete", "uxn_program", "")
<1>1. /\ Done(LexerSteps[1], "lex", "main.ha", "tokens")
      /\ Done(LexerSteps[2], "list", "tokens", "lexer_result")
      /\ Done(LexerSteps[3], "compare", "lexer_expected", "lexer_result")
      /\ Done(LexerSteps[4], "say", "lexer", "")
  BY StepsAre DEF LexerSteps
<1>2. /\ Done(ParserSteps[1], "parse", "tokens", "ast")
      /\ Done(ParserSteps[2], "print", "ast", "parser_result")
      /\ Done(ParserSteps[3], "lex", "parser_result", "tokens_2")
      /\ Done(ParserSteps[4], "parse", "tokens_2", "ast_2")
      /\ Done(ParserSteps[5], "print", "ast_2", "parser_2_result")
      /\ Done(ParserSteps[6], "delete", "ast_2", "")
      /\ Done(ParserSteps[7], "compare", "parser_result", "parser_2_result")
  BY StepsAre DEF ParserSteps
<1>3. /\ Done(ParserSteps[8], "create", "", "lexer_2_result")
      /\ Done(ParserSteps[9], "lex", "parser_2_result", "tokens")
      /\ Done(ParserSteps[10], "list", "tokens", "lexer_2_result")
      /\ Done(ParserSteps[11], "delete", "tokens", "")
      /\ Done(ParserSteps[12], "compare", "lexer_2_result", "lexer_expected")
      /\ Done(ParserSteps[13], "say", "parser", "")
  BY StepsAre DEF ParserSteps
<1>4. /\ Done(CompilerSteps[1], "compile", "ast", "uxn_program")
      /\ Done(CompilerSteps[2], "program", "uxn_program", "code.uxntal")
      /\ Done(CompilerSteps[3], "say", "compiler", "")
  BY StepsAre DEF CompilerSteps
<1>5. /\ Done(ExecutionSteps[1], "assemble", "code.uxntal", "code.rom")
      /\ Done(ExecutionSteps[2], "execute", "code.rom", "output_result")
      /\ Done(ExecutionSteps[3], "compare", "output_result", "output_expected")
      /\ Done(ExecutionSteps[4], "say", "execution", "")
      /\ Done(ExecutionSteps[5], "delete", "uxn_program", "")
  BY StepsAre DEF ExecutionSteps
<1> QED  BY <1>1, <1>2, <1>3, <1>4, <1>5

LEMMA TestDone ==
  ASSUME program = "test"
  PROVE  /\ Done(Script[1], "lex", "main.ha", "tokens")
         /\ Done(Script[2], "list", "tokens", "lexer_result")
         /\ Done(Script[3], "compare", "lexer_expected", "lexer_result")
         /\ Done(Script[4], "say", "lexer", "")
         /\ Done(Script[5], "parse", "tokens", "ast")
         /\ Done(Script[6], "print", "ast", "parser_result")
         /\ Done(Script[7], "lex", "parser_result", "tokens_2")
         /\ Done(Script[8], "parse", "tokens_2", "ast_2")
         /\ Done(Script[9], "print", "ast_2", "parser_2_result")
         /\ Done(Script[10], "delete", "ast_2", "")
         /\ Done(Script[11], "compare", "parser_result", "parser_2_result")
         /\ Done(Script[12], "create", "", "lexer_2_result")
         /\ Done(Script[13], "lex", "parser_2_result", "tokens")
         /\ Done(Script[14], "list", "tokens", "lexer_2_result")
         /\ Done(Script[15], "delete", "tokens", "")
         /\ Done(Script[16], "compare", "lexer_2_result", "lexer_expected")
         /\ Done(Script[17], "say", "parser", "")
         /\ Done(Script[18], "compile", "ast", "uxn_program")
         /\ Done(Script[19], "program", "uxn_program", "code.uxntal")
         /\ Done(Script[20], "say", "compiler", "")
         /\ Done(Script[21], "assemble", "code.uxntal", "code.rom")
         /\ Done(Script[22], "execute", "code.rom", "output_result")
         /\ Done(Script[23], "compare", "output_result", "output_expected")
         /\ Done(Script[24], "say", "execution", "")
         /\ Done(Script[25], "delete", "uxn_program", "")
BY TestScript, PartsDone

LEMMA CompilerDone ==
  ASSUME program = "compiler"
  PROVE  /\ Done(Script[1], "lex", "main.ha", "tokens")
         /\ Done(Script[2], "parse", "tokens", "ast")
         /\ Done(Script[3], "compile", "ast", "uxn_program")
         /\ Done(Script[4], "program", "uxn_program", "code.uxntal")
         /\ Done(Script[5], "say", "compiler", "")
         /\ Done(Script[6], "assemble", "code.uxntal", "code.uxntal.rom")
         /\ Done(Script[7], "execute", "main.ha.rom", "stdout")
         /\ Done(Script[8], "delete", "uxn_program", "")
BY CompilerScript, StepsAre

(* What is done at a step.                                                 *)
LEMMA TestNow ==
  ASSUME program = "test"
  PROVE  /\ pc \in 1 .. 6 =>
              \/ pc = 1 /\ Done(now, "lex", "main.ha", "tokens")
              \/ pc = 2 /\ Done(now, "list", "tokens", "lexer_result")
              \/ pc = 3 /\ Done(now, "compare", "lexer_expected", "lexer_result")
              \/ pc = 4 /\ Done(now, "say", "lexer", "")
              \/ pc = 5 /\ Done(now, "parse", "tokens", "ast")
              \/ pc = 6 /\ Done(now, "print", "ast", "parser_result")
         /\ pc \in 7 .. 12 =>
              \/ pc = 7 /\ Done(now, "lex", "parser_result", "tokens_2")
              \/ pc = 8 /\ Done(now, "parse", "tokens_2", "ast_2")
              \/ pc = 9 /\ Done(now, "print", "ast_2", "parser_2_result")
              \/ pc = 10 /\ Done(now, "delete", "ast_2", "")
              \/ pc = 11 /\ Done(now, "compare", "parser_result", "parser_2_result")
              \/ pc = 12 /\ Done(now, "create", "", "lexer_2_result")
         /\ pc \in 13 .. 18 =>
              \/ pc = 13 /\ Done(now, "lex", "parser_2_result", "tokens")
              \/ pc = 14 /\ Done(now, "list", "tokens", "lexer_2_result")
              \/ pc = 15 /\ Done(now, "delete", "tokens", "")
              \/ pc = 16 /\ Done(now, "compare", "lexer_2_result", "lexer_expected")
              \/ pc = 17 /\ Done(now, "say", "parser", "")
              \/ pc = 18 /\ Done(now, "compile", "ast", "uxn_program")
         /\ pc \in 19 .. 25 =>
              \/ pc = 19 /\ Done(now, "program", "uxn_program", "code.uxntal")
              \/ pc = 20 /\ Done(now, "say", "compiler", "")
              \/ pc = 21 /\ Done(now, "assemble", "code.uxntal", "code.rom")
              \/ pc = 22 /\ Done(now, "execute", "code.rom", "output_result")
              \/ pc = 23 /\ Done(now, "compare", "output_result", "output_expected")
              \/ pc = 24 /\ Done(now, "say", "execution", "")
              \/ pc = 25 /\ Done(now, "delete", "uxn_program", "")
<1>1. ASSUME pc \in 1 .. 6
      PROVE  \/ pc = 1 /\ Done(now, "lex", "main.ha", "tokens")
             \/ pc = 2 /\ Done(now, "list", "tokens", "lexer_result")
             \/ pc = 3 /\ Done(now, "compare", "lexer_expected", "lexer_result")
             \/ pc = 4 /\ Done(now, "say", "lexer", "")
             \/ pc = 5 /\ Done(now, "parse", "tokens", "ast")
             \/ pc = 6 /\ Done(now, "print", "ast", "parser_result")
  <2>1. pc = 1 \/ pc = 2 \/ pc = 3 \/ pc = 4 \/ pc = 5 \/ pc = 6  BY <1>1
  <2> QED  BY <2>1, TestDone DEF now
<1>2. ASSUME pc \in 7 .. 12
      PROVE  \/ pc = 7 /\ Done(now, "lex", "parser_result", "tokens_2")
             \/ pc = 8 /\ Done(now, "parse", "tokens_2", "ast_2")
             \/ pc = 9 /\ Done(now, "print", "ast_2", "parser_2_result")
             \/ pc = 10 /\ Done(now, "delete", "ast_2", "")
             \/ pc = 11 /\ Done(now, "compare", "parser_result", "parser_2_result")
             \/ pc = 12 /\ Done(now, "create", "", "lexer_2_result")
  <2>1. pc = 7 \/ pc = 8 \/ pc = 9 \/ pc = 10 \/ pc = 11 \/ pc = 12  BY <1>2
  <2> QED  BY <2>1, TestDone DEF now
<1>3. ASSUME pc \in 13 .. 18
      PROVE  \/ pc = 13 /\ Done(now, "lex", "parser_2_result", "tokens")
             \/ pc = 14 /\ Done(now, "list", "tokens", "lexer_2_result")
             \/ pc = 15 /\ Done(now, "delete", "tokens", "")
             \/ pc = 16 /\ Done(now, "compare", "lexer_2_result", "lexer_expected")
             \/ pc = 17 /\ Done(now, "say", "parser", "")
             \/ pc = 18 /\ Done(now, "compile", "ast", "uxn_program")
  <2>1. pc = 13 \/ pc = 14 \/ pc = 15 \/ pc = 16 \/ pc = 17 \/ pc = 18  BY <1>3
  <2> QED  BY <2>1, TestDone DEF now
<1>4. ASSUME pc \in 19 .. 25
      PROVE  \/ pc = 19 /\ Done(now, "program", "uxn_program", "code.uxntal")
             \/ pc = 20 /\ Done(now, "say", "compiler", "")
             \/ pc = 21 /\ Done(now, "assemble", "code.uxntal", "code.rom")
             \/ pc = 22 /\ Done(now, "execute", "code.rom", "output_result")
             \/ pc = 23 /\ Done(now, "compare", "output_result", "output_expected")
             \/ pc = 24 /\ Done(now, "say", "execution", "")
             \/ pc = 25 /\ Done(now, "delete", "uxn_program", "")
  <2>1. pc = 19 \/ pc = 20 \/ pc = 21 \/ pc = 22 \/ pc = 23 \/ pc = 24 \/ pc = 25  BY <1>4
  <2> QED  BY <2>1, TestDone DEF now
<1> QED  BY <1>1, <1>2, <1>3, <1>4

(* Where an operation is done.                                             *)
LEMMA TestPlaces ==
  ASSUME program = "test", pc \in 1 .. 25
  PROVE  /\ now.op = "lex" => pc \in {1, 7, 13}
         /\ now.op = "list" => pc \in {2, 14}
         /\ now.op = "compare" <=> pc \in {3, 11, 16, 23}
         /\ now.op = "say" => pc \in {4, 17, 20, 24}
         /\ now.op = "parse" => pc \in {5, 8}
         /\ now.op = "print" => pc \in {6, 9}
         /\ now.op = "delete" => pc \in {10, 15, 25}
         /\ now.op = "create" => pc = 12
         /\ now.op = "compile" => pc = 18
         /\ now.op = "program" => pc = 19
         /\ now.op = "assemble" => pc = 21
         /\ now.op = "execute" => pc = 22
<1>1. CASE pc \in 1 .. 6
  <2>1. \/ pc = 1 /\ now.op = "lex"
        \/ pc = 2 /\ now.op = "list"
        \/ pc = 3 /\ now.op = "compare"
        \/ pc = 4 /\ now.op = "say"
        \/ pc = 5 /\ now.op = "parse"
        \/ pc = 6 /\ now.op = "print"
    BY <1>1, TestNow DEF Done
  <2> QED  BY <2>1
<1>2. CASE pc \in 7 .. 12
  <2>1. \/ pc = 7 /\ now.op = "lex"
        \/ pc = 8 /\ now.op = "parse"
        \/ pc = 9 /\ now.op = "print"
        \/ pc = 10 /\ now.op = "delete"
        \/ pc = 11 /\ now.op = "compare"
        \/ pc = 12 /\ now.op = "create"
    BY <1>2, TestNow DEF Done
  <2> QED  BY <2>1
<1>3. CASE pc \in 13 .. 18
  <2>1. \/ pc = 13 /\ now.op = "lex"
        \/ pc = 14 /\ now.op = "list"
        \/ pc = 15 /\ now.op = "delete"
        \/ pc = 16 /\ now.op = "compare"
        \/ pc = 17 /\ now.op = "say"
        \/ pc = 18 /\ now.op = "compile"
    BY <1>3, TestNow DEF Done
  <2> QED  BY <2>1
<1>4. CASE pc \in 19 .. 25
  <2>1. \/ pc = 19 /\ now.op = "program"
        \/ pc = 20 /\ now.op = "say"
        \/ pc = 21 /\ now.op = "assemble"
        \/ pc = 22 /\ now.op = "execute"
        \/ pc = 23 /\ now.op = "compare"
        \/ pc = 24 /\ now.op = "say"
        \/ pc = 25 /\ now.op = "delete"
    BY <1>4, TestNow DEF Done
  <2> QED  BY <2>1
<1> QED  BY <1>1, <1>2, <1>3, <1>4

(* Where a variable is used, and where it is set.                          *)
LEMMA TestVariables ==
  ASSUME program = "test", pc \in 1 .. 25
  PROVE  /\ now.what = "tokens" => pc \in {2, 5, 14, 15}
         /\ now.what = "tokens_2" => pc = 8
         /\ now.what = "ast" => pc \in {6, 18}
         /\ now.what = "ast_2" => pc \in {9, 10}
         /\ now.what = "uxn_program" => pc \in {19, 25}
         /\ now.into = "tokens" => pc \in {1, 13}
         /\ now.into = "tokens_2" => pc = 7
         /\ now.into = "ast" => pc = 5
         /\ now.into = "ast_2" => pc = 8
         /\ now.into = "uxn_program" => pc = 18
<1>1. CASE pc \in 1 .. 6  BY <1>1, TestNow DEF Done
<1>2. CASE pc \in 7 .. 12  BY <1>2, TestNow DEF Done
<1>3. CASE pc \in 13 .. 18  BY <1>3, TestNow DEF Done
<1>4. CASE pc \in 19 .. 25  BY <1>4, TestNow DEF Done
<1> QED  BY <1>1, <1>2, <1>3, <1>4

LEMMA CompilerPlaces ==
  ASSUME program = "compiler", pc \in 1 .. 8
  PROVE  /\ now.op = "lex" => pc = 1
         /\ now.op = "parse" => pc = 2
         /\ now.op = "compile" => pc = 3
         /\ now.op = "program" => pc = 4
         /\ now.op = "say" => pc = 5
         /\ now.op = "assemble" => pc = 6
         /\ now.op = "execute" => pc = 7
         /\ now.op = "delete" => pc = 8
         /\ now.op \notin {"list", "print", "create", "compare"}
<1>1. /\ Script[1].op = "lex" /\ Script[2].op = "parse" /\ Script[3].op = "compile"
      /\ Script[4].op = "program" /\ Script[5].op = "say" /\ Script[6].op = "assemble"
      /\ Script[7].op = "execute" /\ Script[8].op = "delete"
  BY CompilerDone DEF Done
<1>2. \/ pc = 1 /\ now.op = "lex"
      \/ pc = 2 /\ now.op = "parse"
      \/ pc = 3 /\ now.op = "compile"
      \/ pc = 4 /\ now.op = "program"
      \/ pc = 5 /\ now.op = "say"
      \/ pc = 6 /\ now.op = "assemble"
      \/ pc = 7 /\ now.op = "execute"
      \/ pc = 8 /\ now.op = "delete"
  BY <1>1 DEF now
<1> QED  BY <1>2

(* The files that are read without a look at what fopen returns.           *)
LEMMA Unseen ==
  /\ \A f, v, log : LexFile(f, v, log, {f}).reads \subseteq LexFile(f, v, log, {f}).checked
  /\ \A f, v, log : LexFile(f, v, log, {}).reads = {f}
  /\ \A f : CreateFile(f).reads = {}
  /\ \A v, f, ch : ListTokens(v, f, ch).reads = {}
  /\ \A v, a, log : ParseTokens(v, a, log).reads = {}
  /\ \A v, f : PrintAst(v, f).reads = {}
  /\ \A v : Delete(v).reads = {}
  /\ \A v, log : CompileAst(v, log).reads = {}
  /\ \A f : PrintProgram(f).reads = {}
  /\ \A f, g : Compare(f, g, {f, g}).reads \subseteq Compare(f, g, {f, g}).checked
  /\ \A f, g : Compare(f, g, {}).reads = {f, g}
  /\ \A w : Say(w).reads = {}
  /\ \A f, g, o : Assemble(f, g, o).reads = {}
  /\ \A f, o : Execute(f, o).reads = {}
BY DEF LexFile, CreateFile, ListTokens, ParseTokens, PrintAst, Delete, CompileAst,
       PrintProgram, Compare, Say, Assemble, Execute, Step

LEMMA TestUnseen ==
  ASSUME program = "test", pc \in 1 .. 25, NEW f \in now.reads, f \notin now.checked
  PROVE  \/ pc = 7  /\ f = "parser_result"
         \/ pc = 11 /\ f \in {"parser_result", "parser_2_result"}
         \/ pc = 13 /\ f = "parser_2_result"
         \/ pc = 16 /\ f \in {"lexer_2_result", "lexer_expected"}
<1>1. /\ LexerSteps[1].reads \subseteq LexerSteps[1].checked
      /\ LexerSteps[2].reads = {}
      /\ LexerSteps[3].reads \subseteq LexerSteps[3].checked
      /\ LexerSteps[4].reads = {}
  BY Unseen DEF LexerSteps
<1>2. /\ ParserSteps[1].reads = {}
      /\ ParserSteps[2].reads = {}
      /\ ParserSteps[3].reads = {"parser_result"}
      /\ ParserSteps[4].reads = {}
      /\ ParserSteps[5].reads = {}
      /\ ParserSteps[6].reads = {}
      /\ ParserSteps[7].reads = {"parser_result", "parser_2_result"}
  BY Unseen DEF ParserSteps
<1>3. /\ ParserSteps[8].reads = {}
      /\ ParserSteps[9].reads = {"parser_2_result"}
      /\ ParserSteps[10].reads = {}
      /\ ParserSteps[11].reads = {}
      /\ ParserSteps[12].reads = {"lexer_2_result", "lexer_expected"}
      /\ ParserSteps[13].reads = {}
  BY Unseen DEF ParserSteps
<1>4. /\ CompilerSteps[1].reads = {}
      /\ CompilerSteps[2].reads = {}
      /\ CompilerSteps[3].reads = {}
  BY Unseen DEF CompilerSteps
<1>5. /\ ExecutionSteps[1].reads = {}
      /\ ExecutionSteps[2].reads = {}
      /\ ExecutionSteps[3].reads \subseteq ExecutionSteps[3].checked
      /\ ExecutionSteps[4].reads = {}
      /\ ExecutionSteps[5].reads = {}
  BY Unseen DEF ExecutionSteps
<1>6. \/ pc = 7  /\ now.reads = {"parser_result"}
      \/ pc = 11 /\ now.reads = {"parser_result", "parser_2_result"}
      \/ pc = 13 /\ now.reads = {"parser_2_result"}
      \/ pc = 16 /\ now.reads = {"lexer_2_result", "lexer_expected"}
      \/ now.reads = {}
      \/ now.reads \subseteq now.checked
  <2>1. CASE pc \in 1 .. 4  BY <2>1, <1>1, TestScript DEF now
  <2>2. CASE pc \in 5 .. 11  BY <2>2, <1>2, TestScript DEF now
  <2>3. CASE pc \in 12 .. 17  BY <2>3, <1>3, TestScript DEF now
  <2>4. CASE pc \in 18 .. 20  BY <2>4, <1>4, TestScript DEF now
  <2>5. CASE pc \in 21 .. 25  BY <2>5, <1>5, TestScript DEF now
  <2> QED  BY <2>1, <2>2, <2>3, <2>4, <2>5
<1> QED  BY <1>6

LEMMA TestReads ==
  ASSUME program = "test"
  PROVE  /\ Script[1].reads = {"main.ha"}
         /\ Script[3].reads = {"lexer_expected", "lexer_result"}
         /\ Script[23].reads = {"output_result", "output_expected"}
<1>1. /\ LexerSteps[1].reads = {"main.ha"}
      /\ LexerSteps[3].reads = {"lexer_expected", "lexer_result"}
  BY DEF LexerSteps, LexFile, Compare, Step
<1>2. ExecutionSteps[3].reads = {"output_result", "output_expected"}
  BY DEF ExecutionSteps, Compare, Step
<1> QED  BY <1>1, <1>2, TestScript

LEMMA CompilerUnseen ==
  ASSUME program = "compiler", pc \in 1 .. 8
  PROVE  now.reads \subseteq now.checked
BY CompilerScript, Unseen DEF now

-----------------------------------------------------------------------------
(* What the parts have returned by step q.                                 *)
LEMMA TestValues ==
  ASSUME NEW CONSTANT T, NEW CONSTANT A, NEW CONSTANT P, PartsAre(T, A, P),
         NEW q \in Nat, NEW m, TestWorked(q, m)
  PROVE  /\ q >= 2  => m \in Text /\ lexify(m) \in T /\ fprintf_tokens(lexify(m)) \in Text
         /\ q >= 6  => Ast1(m) \in A /\ Pretty1(m) \in Text
         /\ q >= 8  => Tokens2(m) \in T
         /\ q >= 9  => Ast2(m) \in A /\ Pretty2(m) \in Text
         /\ q >= 14 => Tokens3(m) \in T /\ fprintf_tokens(Tokens3(m)) \in Text
         /\ q >= 19 => Program(m) \in P /\ Code(m) \in Text
<1>1. q >= 2 => m \in Text /\ lexify(m) \in T /\ fprintf_tokens(lexify(m)) \in Text
  BY DEF TestWorked, PartsAre
<1>2. q >= 6 => Ast1(m) \in A /\ Pretty1(m) \in Text
  BY <1>1 DEF TestWorked, PartsAre, Ast1, Pretty1
<1>3. q >= 8 => Tokens2(m) \in T
  BY <1>2 DEF TestWorked, PartsAre, Tokens2
<1>4. q >= 9 => Ast2(m) \in A /\ Pretty2(m) \in Text
  BY <1>3 DEF TestWorked, PartsAre, Ast2, Pretty2
<1>5. q >= 14 => Tokens3(m) \in T /\ fprintf_tokens(Tokens3(m)) \in Text
  BY <1>4 DEF TestWorked, PartsAre, Tokens3
<1>6. q >= 19 => Program(m) \in P /\ Code(m) \in Text
  BY <1>2 DEF TestWorked, PartsAre, Program, Code
<1> QED  BY <1>1, <1>2, <1>3, <1>4, <1>5, <1>6

(* While a program runs.                                                   *)
LEMMA AtAStep ==
  ASSUME DInv, outcome = "running"
  PROVE  /\ program \in {"test", "compiler"}
         /\ Len(Script) \in Nat /\ pc \in 1 .. Len(Script) /\ pc \in Nat
         /\ program = "test" => Len(Script) = 25 /\ pc \in 1 .. 25
         /\ program = "compiler" => Len(Script) = 8 /\ pc \in 1 .. 8
         /\ now.op # "compare" => at = "idle"
<1>0. program \in {"test", "compiler"}  BY DEF DInv, DTypeOK
<1>1. pc \in 1 .. Len(Script)  BY DEF DInv
<1>2. program = "test" => Len(Script) = 25  BY TestScript
<1>3. program = "compiler" => Len(Script) = 8  BY CompilerScript
<1>4. ASSUME at # "idle" PROVE now.op = "compare"
  <2>1. program = "test" /\ pc \in {3, 11, 16, 23}
    BY <1>4 DEF DInv, Comparing
  <2> QED  BY <2>1, TestPlaces
<1>5. Len(Script) \in Nat  BY <1>0, <1>2, <1>3
<1>6. pc \in Nat  BY <1>1
<1>7. program = "test" => Len(Script) = 25 /\ pc \in 1 .. 25  BY <1>1, <1>2
<1>8. program = "compiler" => Len(Script) = 8 /\ pc \in 1 .. 8  BY <1>1, <1>3
<1> QED  BY <1>0, <1>1, <1>4, <1>5, <1>6, <1>7, <1>8

(* The program is left where it is.                                        *)
LEMMA LeftDInv ==
  ASSUME DInv, outcome = "running", NEW o \in {"refused", "crashed", "killed"}, Leave(o),
         UNCHANGED <<setup, held, said, did, disk>>, again' = again, IInv',
         at' = "idle" \/ UNCHANGED feVars,
         o = "crashed" => Unopened \subseteq readonly
  PROVE  DInv'
<1>0. /\ program' = program /\ readonly' = readonly /\ pc' = pc /\ outcome' = o
      /\ held' = held /\ said' = said /\ did' = did /\ disk' = disk
  BY DEF Leave, setup
<1>1. Script' = Script  BY <1>0 DEF Script
<1>2. DTypeOK'
  BY <1>0, <1>1 DEF DInv, DTypeOK, IInv
<1>3. Comparing(pc)'
  BY <1>0, <1>1 DEF DInv, Comparing, feVars
<1>4. CrashOnlyOnReadOnly'
  BY <1>0, <1>1 DEF CrashOnlyOnReadOnly, Unopened, now
<1>5. /\ program' = "test" => TestInv(pc, disk, held, said, did)'
      /\ program' = "compiler" => CompilerInv(pc, disk, held, said)'
  BY <1>0 DEF DInv
<1>6. (outcome = "running"
        <=> pc \in 1 .. Len(Script) /\ outcome \notin {"refused", "crashed", "killed"})'
  BY <1>0
<1> QED  BY <1>2, <1>3, <1>4, <1>5, <1>6 DEF DInv, IInv

(* The program goes on.                                                    *)
LEMMA AdvanceDInv ==
  ASSUME DInv, outcome = "running", Proceed, UNCHANGED setup, again' = again,
         IInv', at' = "idle",
         disk' \in [Paths -> Text \union {Absent}], DOMAIN held' = Variables,
         said' \subseteq {"lexer", "parser", "compiler", "execution"},
         did' \subseteq {"assembled", "executed"},
         program = "test" => TestInv(pc + 1, disk', held', said', did'),
         program = "compiler" => CompilerInv(pc + 1, disk', held', said')
  PROVE  DInv'
<1>0. /\ program' = program /\ readonly' = readonly /\ pc' = pc + 1
      /\ outcome' = IF pc = Len(Script) THEN "done" ELSE "running"
  BY DEF Proceed, setup
<1>1. Script' = Script  BY <1>0 DEF Script
<1>2. pc \in 1 .. Len(Script) /\ Len(Script) \in Nat /\ program \in {"test", "compiler"}
  BY AtAStep
<1>3. DTypeOK'
  BY <1>0, <1>1, <1>2 DEF DTypeOK, IInv
<1>4. CrashOnlyOnReadOnly'  BY <1>0 DEF CrashOnlyOnReadOnly
<1>5. /\ program' = "test" => TestInv(pc, disk, held, said, did)'
      /\ program' = "compiler" => CompilerInv(pc, disk, held, said)'
  BY <1>0
<1>6. (outcome = "running"
        <=> pc \in 1 .. Len(Script) /\ outcome \notin {"refused", "crashed", "killed"})'
  BY <1>0, <1>1, <1>2
<1>7. Comparing(pc)'  BY DEF Comparing
<1> QED  BY <1>3, <1>4, <1>5, <1>6, <1>7 DEF DInv, IInv

(* fopen fails, or the program is killed.                                  *)
LEMMA RefusedDInv == ASSUME DInv, OpenRefused \/ Kill PROVE DInv'
<1>1. IInv'  BY StutterIInv DEF DInv, DTypeOK, IInv, OpenRefused, Kill
<1> QED  BY <1>1, LeftDInv DEF OpenRefused, Kill, Rest

LEMMA CrashedDInv ==
  ASSUME NEW CONSTANT T, NEW CONSTANT A, NEW CONSTANT P, PartsAre(T, A, P),
         DInv, OpenCrashes
  PROVE  DInv'
<1>0. /\ outcome = "running" /\ Unopened \intersect now.checked = {}
      /\ UNCHANGED <<held, said, did, disk, feVars, setup, again>> /\ Leave("crashed")
  BY DEF OpenCrashes, Rest
<1>1. IInv'  BY <1>0, StutterIInv DEF DInv, DTypeOK, IInv
<1>2. ASSUME NEW f \in now.reads, disk[f] = Absent PROVE FALSE
  <2>0. f \notin now.checked  BY <1>0, <1>2 DEF Unopened
  <2>1. program = "test" /\ pc \in 1 .. 25 /\ pc \in Nat
    BY <1>0, <1>2, <2>0, AtAStep, CompilerUnseen
  <2> DEFINE m == disk["main.ha"]
  <2>2. TestWorked(pc, m) /\ TestWrote(pc, m, disk, did)
    BY <2>1 DEF DInv, TestInv
  <2> HIDE DEF m
  <2>3. \/ pc = 7  /\ f = "parser_result"
        \/ pc = 11 /\ f \in {"parser_result", "parser_2_result"}
        \/ pc = 13 /\ f = "parser_2_result"
        \/ pc = 16 /\ f \in {"lexer_2_result", "lexer_expected"}
    BY <1>2, <2>0, <2>1, TestUnseen
  <2>4. /\ pc >= 4  => disk["lexer_expected"] # Absent
        /\ pc >= 7  => disk["parser_result"] \in Text
        /\ pc >= 10 => disk["parser_2_result"] \in Text
        /\ pc >= 15 => disk["lexer_2_result"] \in Text
    BY <2>1, <2>2, TestValues DEF TestWrote
  <2>5. Absent \notin Text  BY DEF PartsAre
  <2> QED  BY <1>2, <2>3, <2>4, <2>5
<1>3. Unopened \subseteq readonly  BY <1>2 DEF Unopened
<1> QED  BY <1>0, <1>1, <1>3, LeftDInv

-----------------------------------------------------------------------------
(* What has been said stays earned.                                        *)
LEMMA SaidLater ==
  ASSUME NEW q \in Nat, NEW s, TestSaid(q, s)
  PROVE  TestSaid(q + 1, s)
BY DEF TestSaid

(* What is known at a step of test.c, and what there is to show of it.     *)
LEMMA TestState ==
  ASSUME DInv, program = "test", outcome = "running", NEW m, m = disk["main.ha"]
  PROVE  /\ pc \in 1 .. 25 /\ pc \in Nat
         /\ held = TestHolds(pc, m) /\ TestWorked(pc, m)
         /\ TestWrote(pc, m, disk, did) /\ TestCompared(pc, m, disk)
         /\ TestSaid(pc, said) /\ TestSaid(pc + 1, said)
         /\ disk \in [Paths -> Text \union {Absent}]
         /\ said \subseteq {"lexer", "parser", "compiler", "execution"}
         /\ did \subseteq {"assembled", "executed"}
         /\ now.op # "compare" => at = "idle"
         /\ IInv
<1>1. TestInv(pc, disk, held, said, did)  BY DEF DInv
<1>2. pc \in 1 .. 25 /\ pc \in Nat /\ (now.op # "compare" => at = "idle")  BY AtAStep
<1> QED  BY <1>1, <1>2, SaidLater DEF TestInv, DInv, DTypeOK, IInv

LEMMA TestAdvance ==
  ASSUME DInv, program = "test", outcome = "running", Proceed,
         UNCHANGED setup, again' = again, IInv', at' = "idle",
         disk' \in [Paths -> Text \union {Absent}],
         said' \subseteq {"lexer", "parser", "compiler", "execution"},
         did' \subseteq {"assembled", "executed"},
         NEW m, m = disk["main.ha"], disk'["main.ha"] = m,
         held' = TestHolds(pc + 1, m), TestWorked(pc + 1, m),
         TestWrote(pc + 1, m, disk', did'), TestCompared(pc + 1, m, disk'),
         TestSaid(pc + 1, said')
  PROVE  DInv'
<1>0. pc \in 1 .. 25  BY AtAStep
<1>1. pc + 1 \in 1 .. 26  BY <1>0
<1>2. TestInv(pc + 1, disk', held', said', did')  BY <1>1 DEF TestInv
<1>3. DOMAIN held' = Variables  BY DEF TestHolds
<1> QED  BY <1>2, <1>3, AdvanceDInv

(* The steps of test.c that change nothing but a variable.                 *)
LEMMA TestLexDInv ==
  ASSUME NEW CONSTANT T, NEW CONSTANT A, NEW CONSTANT P, PartsAre(T, A, P),
         DInv, program = "test", LexStep
  PROVE  DInv'
<1> DEFINE m == disk["main.ha"]
<1>0. /\ outcome = "running" /\ now.op = "lex" /\ Unopened = {}
      /\ Result(now.into, lexify(disk[now.what]), {})
      /\ UNCHANGED <<said, did, disk, feVars, setup, again>>
  BY DEF LexStep, Doing, Rest
<1>1. IInv'  BY <1>0, StutterIInv DEF DInv, DTypeOK, IInv
<1>2. pc \in {1, 7, 13} /\ at' = "idle"
  BY <1>0, AtAStep, TestPlaces DEF feVars
<1>3. CASE lexify(disk[now.what]) = Failed
  BY <1>0, <1>1, <1>3, LeftDInv DEF Result
<1>4. CASE lexify(disk[now.what]) # Failed
  <2>1. /\ Proceed
        /\ held' = [v \in Variables |-> IF v = now.into THEN lexify(disk[now.what])
                                        ELSE held[v]]
    BY <1>0, <1>4 DEF Result
  <2>2. m \in Text
    <3>1. CASE pc = 1
      <4>1. "main.ha" \in now.reads  BY <3>1, TestReads DEF now
      <4>2. disk["main.ha"] # Absent  BY <1>0, <4>1 DEF Unopened
      <4> QED  BY <1>0, <4>2, TestState DEF Paths
    <3>2. CASE pc # 1
      BY <1>0, <1>2, <3>2, TestState DEF TestWorked
    <3> QED  BY <3>1, <3>2
  <2> HIDE DEF m
  <2>3. /\ held = TestHolds(pc, m) /\ TestWorked(pc, m) /\ TestWrote(pc, m, disk, did)
        /\ TestCompared(pc, m, disk)
    BY <1>0, TestState DEF m
  <2>4. /\ pc = 1  => now.into = "tokens" /\ lexify(disk[now.what]) = lexify(m)
        /\ pc = 7  => now.into = "tokens_2" /\ lexify(disk[now.what]) = Tokens2(m)
        /\ pc = 13 => now.into = "tokens" /\ lexify(disk[now.what]) = Tokens3(m)
    <3>1. /\ Script[1].into = "tokens" /\ Script[1].what = "main.ha"
          /\ Script[7].into = "tokens_2" /\ Script[7].what = "parser_result"
          /\ Script[13].into = "tokens" /\ Script[13].what = "parser_2_result"
      <4>1. /\ Done(Script[1], "lex", "main.ha", "tokens")
            /\ Done(Script[7], "lex", "parser_result", "tokens_2")
            /\ Done(Script[13], "lex", "parser_2_result", "tokens")
        BY TestDone
      <4> QED  BY <4>1 DEF Done
    <3>2. /\ pc >= 7  => disk["parser_result"] = Pretty1(m)
          /\ pc >= 10 => disk["parser_2_result"] = Pretty2(m)
      BY <2>3 DEF TestWrote
    <3> QED  BY <3>1, <3>2 DEF now, m, Tokens2, Tokens3
  <2>5. held' = TestHolds(pc + 1, m)
    BY <1>2, <2>1, <2>3, <2>4 DEF TestHolds, Variables
  <2>6. TestWorked(pc + 1, m)
    BY <1>2, <1>4, <2>2, <2>3, <2>4 DEF TestWorked
  <2>7. TestWrote(pc + 1, m, disk, did)  BY <1>2, <2>3 DEF TestWrote
  <2>8. TestCompared(pc + 1, m, disk)  BY <1>2, <2>3 DEF TestCompared
  <2> QED  BY <1>0, <1>1, <1>2, <2>1, <2>5, <2>6, <2>7, <2>8, TestState, TestAdvance DEF m
<1> QED  BY <1>3, <1>4

LEMMA TestParseDInv ==
  ASSUME DInv, program = "test", ParseStep
  PROVE  DInv'
<1> DEFINE m == disk["main.ha"]
<1>0. /\ outcome = "running" /\ now.op = "parse"
      /\ Result(now.into, parse(held[now.what]), {now.what})
      /\ UNCHANGED <<said, did, disk, feVars, setup, again>>
  BY DEF ParseStep, Doing, Rest
<1>1. IInv'  BY <1>0, StutterIInv DEF DInv, DTypeOK, IInv
<1>2. pc \in {5, 8} /\ at' = "idle"
  BY <1>0, AtAStep, TestPlaces DEF feVars
<1>3. CASE parse(held[now.what]) = Failed
  BY <1>0, <1>1, <1>3, LeftDInv DEF Result
<1>4. CASE parse(held[now.what]) # Failed
  <2>1. /\ Proceed
        /\ held' = [v \in Variables |-> IF v = now.into THEN parse(held[now.what])
                                        ELSE IF v = now.what THEN Gone ELSE held[v]]
    BY <1>0, <1>4 DEF Result
  <2> HIDE DEF m
  <2>3. /\ held = TestHolds(pc, m) /\ TestWorked(pc, m) /\ TestWrote(pc, m, disk, did)
        /\ TestCompared(pc, m, disk)
    BY <1>0, TestState DEF m
  <2>4. /\ pc = 5 => /\ now.what = "tokens" /\ now.into = "ast"
                     /\ parse(held[now.what]) = Ast1(m)
        /\ pc = 8 => /\ now.what = "tokens_2" /\ now.into = "ast_2"
                     /\ parse(held[now.what]) = Ast2(m)
    <3>1. /\ Script[5].what = "tokens" /\ Script[5].into = "ast"
          /\ Script[8].what = "tokens_2" /\ Script[8].into = "ast_2"
      <4>1. /\ Done(Script[5], "parse", "tokens", "ast")
            /\ Done(Script[8], "parse", "tokens_2", "ast_2")
        BY TestDone
      <4> QED  BY <4>1 DEF Done
    <3>2. /\ pc = 5 => held["tokens"] = lexify(m)
          /\ pc = 8 => held["tokens_2"] = Tokens2(m)
      BY <2>3 DEF TestHolds, Variables
    <3> QED  BY <3>1, <3>2 DEF now, Ast1, Ast2
  <2>5. held' = TestHolds(pc + 1, m)
    BY <1>2, <2>1, <2>3, <2>4 DEF TestHolds, Variables
  <2>6. TestWorked(pc + 1, m)  BY <1>2, <1>4, <2>3, <2>4 DEF TestWorked
  <2>7. TestWrote(pc + 1, m, disk, did)  BY <1>2, <2>3 DEF TestWrote
  <2>8. TestCompared(pc + 1, m, disk)  BY <1>2, <2>3 DEF TestCompared
  <2> QED  BY <1>0, <1>1, <1>2, <2>1, <2>5, <2>6, <2>7, <2>8, TestState, TestAdvance DEF m
<1> QED  BY <1>3, <1>4

LEMMA TestCompileDInv ==
  ASSUME DInv, program = "test", CompileStep
  PROVE  DInv'
<1> DEFINE m == disk["main.ha"]
<1>0. /\ outcome = "running" /\ now.op = "compile"
      /\ Result(now.into, compile_to_uxn(held[now.what]), {now.what})
      /\ UNCHANGED <<said, did, disk, feVars, setup, again>>
  BY DEF CompileStep, Doing, Rest
<1>1. IInv'  BY <1>0, StutterIInv DEF DInv, DTypeOK, IInv
<1>2. pc = 18 /\ at' = "idle"
  BY <1>0, AtAStep, TestPlaces DEF feVars
<1>3. CASE compile_to_uxn(held[now.what]) = Failed
  BY <1>0, <1>1, <1>3, LeftDInv DEF Result
<1>4. CASE compile_to_uxn(held[now.what]) # Failed
  <2>1. /\ Proceed
        /\ held' = [v \in Variables |-> IF v = now.into THEN compile_to_uxn(held[now.what])
                                        ELSE IF v = now.what THEN Gone ELSE held[v]]
    BY <1>0, <1>4 DEF Result
  <2> HIDE DEF m
  <2>3. /\ held = TestHolds(pc, m) /\ TestWorked(pc, m) /\ TestWrote(pc, m, disk, did)
        /\ TestCompared(pc, m, disk)
    BY <1>0, TestState DEF m
  <2>4. /\ now.what = "ast" /\ now.into = "uxn_program"
        /\ compile_to_uxn(held[now.what]) = Program(m)
    <3>1. Script[18].what = "ast" /\ Script[18].into = "uxn_program"
      <4>1. Done(Script[18], "compile", "ast", "uxn_program")
        BY TestDone
      <4> QED  BY <4>1 DEF Done
    <3>2. held["ast"] = Ast1(m)  BY <1>2, <2>3 DEF TestHolds, Variables
    <3> QED  BY <1>2, <3>1, <3>2 DEF now, Program
  <2>5. held' = TestHolds(pc + 1, m)
    BY <1>2, <2>1, <2>3, <2>4 DEF TestHolds, Variables
  <2>6. TestWorked(pc + 1, m)  BY <1>2, <1>4, <2>3, <2>4 DEF TestWorked
  <2>7. TestWrote(pc + 1, m, disk, did)  BY <1>2, <2>3 DEF TestWrote
  <2>8. TestCompared(pc + 1, m, disk)  BY <1>2, <2>3 DEF TestCompared
  <2> QED  BY <1>0, <1>1, <1>2, <2>1, <2>5, <2>6, <2>7, <2>8, TestState, TestAdvance DEF m
<1> QED  BY <1>3, <1>4

LEMMA TestDeleteDInv ==
  ASSUME DInv, program = "test", DeleteStep
  PROVE  DInv'
<1> DEFINE m == disk["main.ha"]
<1>0. /\ outcome = "running" /\ now.op = "delete" /\ Proceed
      /\ held' = [held EXCEPT ![now.what] = Gone]
      /\ UNCHANGED <<said, did, disk, feVars, setup, again>>
  BY DEF DeleteStep, Doing, Rest
<1>1. IInv'  BY <1>0, StutterIInv DEF DInv, DTypeOK, IInv
<1>2. pc \in {10, 15, 25} /\ at' = "idle"
  BY <1>0, AtAStep, TestPlaces DEF feVars
<1> HIDE DEF m
<1>3. /\ held = TestHolds(pc, m) /\ TestWorked(pc, m) /\ TestWrote(pc, m, disk, did)
      /\ TestCompared(pc, m, disk)
  BY <1>0, TestState DEF m
<1>4. /\ pc = 10 => now.what = "ast_2"
      /\ pc = 15 => now.what = "tokens"
      /\ pc = 25 => now.what = "uxn_program"
  <2>1. /\ Script[10].what = "ast_2" /\ Script[15].what = "tokens"
        /\ Script[25].what = "uxn_program"
    <3>1. /\ Done(Script[10], "delete", "ast_2", "")
          /\ Done(Script[15], "delete", "tokens", "")
          /\ Done(Script[25], "delete", "uxn_program", "")
      BY TestDone
    <3> QED  BY <3>1 DEF Done
  <2> QED  BY <2>1 DEF now
<1>5. held' = TestHolds(pc + 1, m)
  <2>1. held' = [v \in Variables |-> IF v = now.what THEN Gone ELSE held[v]]
    BY <1>0, <1>3 DEF TestHolds
  <2> QED  BY <1>2, <1>3, <1>4, <2>1 DEF TestHolds, Variables
<1>6. TestWorked(pc + 1, m)  BY <1>2, <1>3 DEF TestWorked
<1>7. TestWrote(pc + 1, m, disk, did)  BY <1>2, <1>3 DEF TestWrote
<1>8. TestCompared(pc + 1, m, disk)  BY <1>2, <1>3 DEF TestCompared
<1> QED  BY <1>0, <1>1, <1>2, <1>5, <1>6, <1>7, <1>8, TestState, TestAdvance DEF m

(* The steps of test.c that write a file.                                  *)
LEMMA Written ==
  ASSUME NEW d \in [Paths -> Text \union {Absent}], NEW f \in Paths,
         NEW t \in Text \union {Absent}
  PROVE  /\ [d EXCEPT ![f] = t] \in [Paths -> Text \union {Absent}]
         /\ [d EXCEPT ![f] = t][f] = t
         /\ \A g \in Paths \ {f} : [d EXCEPT ![f] = t][g] = d[g]
OBVIOUS

LEMMA TestListDInv ==
  ASSUME NEW CONSTANT T, NEW CONSTANT A, NEW CONSTANT P, PartsAre(T, A, P),
         DInv, program = "test", ListStep
  PROVE  DInv'
<1> DEFINE m == disk["main.ha"]
           text == fprintf_tokens(held[now.what])
<1>0. /\ outcome = "running" /\ now.op = "list" /\ Proceed
      /\ disk' = [disk EXCEPT ![now.into] = text]
      /\ UNCHANGED <<held, said, did, feVars, setup, again>>
  BY DEF ListStep, Prints, Writes, Doing, Rest
<1>1. IInv'  BY <1>0, StutterIInv DEF DInv, DTypeOK, IInv
<1>2. pc \in {2, 14} /\ pc \in Nat /\ at' = "idle"
  BY <1>0, AtAStep, TestPlaces DEF feVars
<1> HIDE DEF m
<1>3. /\ held = TestHolds(pc, m) /\ TestWorked(pc, m) /\ TestWrote(pc, m, disk, did)
      /\ TestCompared(pc, m, disk) /\ disk \in [Paths -> Text \union {Absent}]
  BY <1>0, TestState DEF m
<1>4. /\ pc = 2  => now.into = "lexer_result" /\ text = fprintf_tokens(lexify(m))
      /\ pc = 14 => now.into = "lexer_2_result" /\ text = fprintf_tokens(Tokens3(m))
  <2>1. /\ Script[2].what = "tokens" /\ Script[2].into = "lexer_result"
        /\ Script[14].what = "tokens" /\ Script[14].into = "lexer_2_result"
    <3>1. /\ Done(Script[2], "list", "tokens", "lexer_result")
          /\ Done(Script[14], "list", "tokens", "lexer_2_result")
      BY TestDone
    <3> QED  BY <3>1 DEF Done
  <2>2. /\ pc = 2  => held["tokens"] = lexify(m)
        /\ pc = 14 => held["tokens"] = Tokens3(m)
    BY <1>3 DEF TestHolds, Variables
  <2> QED  BY <2>1, <2>2 DEF now
<1>5. text \in Text  BY <1>2, <1>3, <1>4, TestValues
<1> HIDE DEF text
<1>6. /\ disk' \in [Paths -> Text \union {Absent}] /\ disk'[now.into] = text
      /\ \A g \in Paths \ {now.into} : disk'[g] = disk[g]
  <2>1. now.into \in Paths  BY <1>2, <1>4 DEF Paths
  <2> QED  BY <1>0, <1>3, <1>5, <2>1, Written
<1>7. disk'["main.ha"] = m  BY <1>2, <1>4, <1>6 DEF Paths, m
<1>8. held' = TestHolds(pc + 1, m)
  BY <1>0, <1>2, <1>3 DEF TestHolds, Variables
<1>9. TestWorked(pc + 1, m)  BY <1>2, <1>3 DEF TestWorked
<1>10. TestWrote(pc + 1, m, disk', did)
  BY <1>2, <1>3, <1>4, <1>6 DEF TestWrote, Paths
<1>11. TestCompared(pc + 1, m, disk')
  BY <1>2, <1>3, <1>4, <1>6 DEF TestCompared, Paths
<1> QED  BY <1>0, <1>1, <1>2, <1>6, <1>7, <1>8, <1>9, <1>10, <1>11, TestState, TestAdvance DEF m

LEMMA TestPrintDInv ==
  ASSUME NEW CONSTANT T, NEW CONSTANT A, NEW CONSTANT P, PartsAre(T, A, P),
         DInv, program = "test", PrintStep
  PROVE  DInv'
<1> DEFINE m == disk["main.ha"]
           text == fprintf_ast(held[now.what])
<1>0. /\ outcome = "running" /\ now.op = "print" /\ Proceed
      /\ disk' = [disk EXCEPT ![now.into] = text]
      /\ UNCHANGED <<held, said, did, feVars, setup, again>>
  BY DEF PrintStep, Prints, Writes, Doing, Rest
<1>1. IInv'  BY <1>0, StutterIInv DEF DInv, DTypeOK, IInv
<1>2. pc \in {6, 9} /\ pc \in Nat /\ at' = "idle"
  BY <1>0, AtAStep, TestPlaces DEF feVars
<1> HIDE DEF m
<1>3. /\ held = TestHolds(pc, m) /\ TestWorked(pc, m) /\ TestWrote(pc, m, disk, did)
      /\ TestCompared(pc, m, disk) /\ disk \in [Paths -> Text \union {Absent}]
  BY <1>0, TestState DEF m
<1>4. /\ pc = 6 => now.into = "parser_result" /\ text = Pretty1(m)
      /\ pc = 9 => now.into = "parser_2_result" /\ text = Pretty2(m)
  <2>1. /\ Script[6].what = "ast" /\ Script[6].into = "parser_result"
        /\ Script[9].what = "ast_2" /\ Script[9].into = "parser_2_result"
    <3>1. /\ Done(Script[6], "print", "ast", "parser_result")
          /\ Done(Script[9], "print", "ast_2", "parser_2_result")
      BY TestDone
    <3> QED  BY <3>1 DEF Done
  <2>2. /\ pc = 6 => held["ast"] = Ast1(m)
        /\ pc = 9 => held["ast_2"] = Ast2(m)
    BY <1>3 DEF TestHolds, Variables
  <2> QED  BY <2>1, <2>2 DEF now, Pretty1, Pretty2
<1>5. text \in Text  BY <1>2, <1>3, <1>4, TestValues
<1> HIDE DEF text
<1>6. /\ disk' \in [Paths -> Text \union {Absent}] /\ disk'[now.into] = text
      /\ \A g \in Paths \ {now.into} : disk'[g] = disk[g]
  <2>1. now.into \in Paths  BY <1>2, <1>4 DEF Paths
  <2> QED  BY <1>0, <1>3, <1>5, <2>1, Written
<1>7. disk'["main.ha"] = m  BY <1>2, <1>4, <1>6 DEF Paths, m
<1>8. held' = TestHolds(pc + 1, m)
  BY <1>0, <1>2, <1>3 DEF TestHolds, Variables
<1>9. TestWorked(pc + 1, m)  BY <1>2, <1>3 DEF TestWorked
<1>10. TestWrote(pc + 1, m, disk', did)
  BY <1>2, <1>3, <1>4, <1>6 DEF TestWrote, Paths
<1>11. TestCompared(pc + 1, m, disk')
  BY <1>2, <1>3, <1>4, <1>6 DEF TestCompared, Paths
<1> QED  BY <1>0, <1>1, <1>2, <1>6, <1>7, <1>8, <1>9, <1>10, <1>11, TestState, TestAdvance DEF m

LEMMA TestProgramDInv ==
  ASSUME NEW CONSTANT T, NEW CONSTANT A, NEW CONSTANT P, PartsAre(T, A, P),
         DInv, program = "test", ProgramStep
  PROVE  DInv'
<1> DEFINE m == disk["main.ha"]
           text == fprintf_uxn_program(held[now.what])
<1>0. /\ outcome = "running" /\ now.op = "program" /\ Proceed
      /\ disk' = [disk EXCEPT ![now.into] = text]
      /\ UNCHANGED <<held, said, did, feVars, setup, again>>
  BY DEF ProgramStep, Prints, Writes, Doing, Rest
<1>1. IInv'  BY <1>0, StutterIInv DEF DInv, DTypeOK, IInv
<1>2. pc = 19 /\ at' = "idle"
  BY <1>0, AtAStep, TestPlaces DEF feVars
<1> HIDE DEF m
<1>3. /\ held = TestHolds(pc, m) /\ TestWorked(pc, m) /\ TestWrote(pc, m, disk, did)
      /\ TestCompared(pc, m, disk) /\ disk \in [Paths -> Text \union {Absent}]
  BY <1>0, TestState DEF m
<1>4. now.into = "code.uxntal" /\ text = Code(m)
  <2>1. Script[19].what = "uxn_program" /\ Script[19].into = "code.uxntal"
    <3>1. Done(Script[19], "program", "uxn_program", "code.uxntal")
      BY TestDone
    <3> QED  BY <3>1 DEF Done
  <2>2. held["uxn_program"] = Program(m)
    BY <1>2, <1>3 DEF TestHolds, Variables
  <2> QED  BY <1>2, <2>1, <2>2 DEF now, Code
<1>5. text \in Text  BY <1>2, <1>3, <1>4, TestValues
<1> HIDE DEF text
<1>6. /\ disk' \in [Paths -> Text \union {Absent}] /\ disk'[now.into] = text
      /\ \A g \in Paths \ {now.into} : disk'[g] = disk[g]
  <2>1. now.into \in Paths  BY <1>2, <1>4 DEF Paths
  <2> QED  BY <1>0, <1>3, <1>5, <2>1, Written
<1>7. disk'["main.ha"] = m  BY <1>2, <1>4, <1>6 DEF Paths, m
<1>8. held' = TestHolds(pc + 1, m)
  BY <1>0, <1>2, <1>3 DEF TestHolds, Variables
<1>9. TestWorked(pc + 1, m)  BY <1>2, <1>3 DEF TestWorked
<1>10. TestWrote(pc + 1, m, disk', did)
  BY <1>2, <1>3, <1>4, <1>6 DEF TestWrote, Paths
<1>11. TestCompared(pc + 1, m, disk')
  BY <1>2, <1>3, <1>4, <1>6 DEF TestCompared, Paths
<1> QED  BY <1>0, <1>1, <1>2, <1>6, <1>7, <1>8, <1>9, <1>10, <1>11, TestState, TestAdvance DEF m

LEMMA TestCreateDInv ==
  ASSUME DInv, program = "test", CreateStep
  PROVE  DInv'
<1> DEFINE m == disk["main.ha"]
<1>0. /\ outcome = "running" /\ now.op = "create" /\ Proceed
      /\ disk' = [disk EXCEPT ![now.into] = <<>>]
      /\ UNCHANGED <<held, said, did, feVars, setup, again>>
  BY DEF CreateStep, Writes, Doing, Rest
<1>1. IInv'  BY <1>0, StutterIInv DEF DInv, DTypeOK, IInv
<1>2. pc = 12 /\ at' = "idle"
  BY <1>0, AtAStep, TestPlaces DEF feVars
<1> HIDE DEF m
<1>3. /\ held = TestHolds(pc, m) /\ TestWorked(pc, m) /\ TestWrote(pc, m, disk, did)
      /\ TestCompared(pc, m, disk) /\ disk \in [Paths -> Text \union {Absent}]
  BY <1>0, TestState DEF m
<1>4. now.into = "lexer_2_result"
  <2>1. Done(Script[12], "create", "", "lexer_2_result")
    BY TestDone
  <2> QED  BY <1>2, <2>1 DEF Done, now
<1>5. <<>> \in Text  BY DEF Text
<1>6. /\ disk' \in [Paths -> Text \union {Absent}] /\ disk'[now.into] = <<>>
      /\ \A g \in Paths \ {now.into} : disk'[g] = disk[g]
  <2>1. now.into \in Paths  BY <1>4 DEF Paths
  <2> QED  BY <1>0, <1>3, <1>5, <2>1, Written
<1>7. disk'["main.ha"] = m  BY <1>4, <1>6 DEF Paths, m
<1>8. held' = TestHolds(pc + 1, m)
  BY <1>0, <1>2, <1>3 DEF TestHolds, Variables
<1>9. TestWorked(pc + 1, m)  BY <1>2, <1>3 DEF TestWorked
<1>10. TestWrote(pc + 1, m, disk', did)
  BY <1>2, <1>3, <1>4, <1>6 DEF TestWrote, Paths
<1>11. TestCompared(pc + 1, m, disk')
  BY <1>2, <1>3, <1>4, <1>6 DEF TestCompared, Paths
<1> QED  BY <1>0, <1>1, <1>2, <1>6, <1>7, <1>8, <1>9, <1>10, <1>11, TestState, TestAdvance DEF m

LEMMA TestSayDInv ==
  ASSUME DInv, program = "test", SayStep
  PROVE  DInv'
<1> DEFINE m == disk["main.ha"]
<1>0. /\ outcome = "running" /\ now.op = "say" /\ Proceed
      /\ said' = said \union {now.what}
      /\ UNCHANGED <<held, did, disk, feVars, setup, again>>
  BY DEF SayStep, Doing, Rest
<1>1. IInv'  BY <1>0, StutterIInv DEF DInv, DTypeOK, IInv
<1>2. pc \in {4, 17, 20, 24} /\ at' = "idle"
  BY <1>0, AtAStep, TestPlaces DEF feVars
<1> HIDE DEF m
<1>3. /\ held = TestHolds(pc, m) /\ TestWorked(pc, m) /\ TestWrote(pc, m, disk, did)
      /\ TestCompared(pc, m, disk) /\ TestSaid(pc, said)
      /\ said \subseteq {"lexer", "parser", "compiler", "execution"}
  BY <1>0, TestState DEF m
<1>4. /\ pc = 4 => now.what = "lexer"
      /\ pc = 17 => now.what = "parser"
      /\ pc = 20 => now.what = "compiler"
      /\ pc = 24 => now.what = "execution"
  <2>1. /\ Script[4].what = "lexer" /\ Script[17].what = "parser"
        /\ Script[20].what = "compiler" /\ Script[24].what = "execution"
    <3>1. /\ Done(Script[4], "say", "lexer", "")
          /\ Done(Script[17], "say", "parser", "")
          /\ Done(Script[20], "say", "compiler", "")
          /\ Done(Script[24], "say", "execution", "")
      BY TestDone
    <3> QED  BY <3>1 DEF Done
  <2> QED  BY <2>1 DEF now
<1>5. held' = TestHolds(pc + 1, m)
  BY <1>0, <1>2, <1>3 DEF TestHolds, Variables
<1>6. TestWorked(pc + 1, m)  BY <1>2, <1>3 DEF TestWorked
<1>7. TestWrote(pc + 1, m, disk, did)  BY <1>2, <1>3 DEF TestWrote
<1>8. TestCompared(pc + 1, m, disk)  BY <1>2, <1>3 DEF TestCompared
<1>9. TestSaid(pc + 1, said')  BY <1>0, <1>2, <1>3, <1>4 DEF TestSaid
<1>10. said' \subseteq {"lexer", "parser", "compiler", "execution"}
  BY <1>0, <1>2, <1>3, <1>4
<1> QED  BY <1>0, <1>1, <1>2, <1>5, <1>6, <1>7, <1>8, <1>9, <1>10, TestState, TestAdvance DEF m

(* The tools.                                                              *)
LEMMA TestAssembleDInv ==
  ASSUME NEW CONSTANT T, NEW CONSTANT A, NEW CONSTANT P, PartsAre(T, A, P),
         DInv, program = "test", AssembleStep
  PROVE  DInv'
<1> DEFINE m == disk["main.ha"]
<1>0. /\ outcome = "running" /\ now.op = "assemble" /\ Proceed
      /\ UNCHANGED <<held, said, feVars, setup, again>>
  BY DEF AssembleStep, Doing, Rest
<1>1. IInv'  BY <1>0, StutterIInv DEF DInv, DTypeOK, IInv
<1>2. pc = 21 /\ at' = "idle"
  BY <1>0, AtAStep, TestPlaces DEF feVars
<1> HIDE DEF m
<1>3. /\ held = TestHolds(pc, m) /\ TestWorked(pc, m) /\ TestWrote(pc, m, disk, did)
      /\ TestCompared(pc, m, disk) /\ disk \in [Paths -> Text \union {Absent}]
      /\ did \subseteq {"assembled", "executed"}
  BY <1>0, TestState DEF m
<1>4. now.what = "code.uxntal" /\ now.into = "code.rom"
  <2>1. Done(Script[21], "assemble", "code.uxntal", "code.rom")
    BY TestDone
  <2> QED  BY <1>2, <2>1 DEF Done, now
<1>5. disk["code.uxntal"] = Code(m) /\ did = {} /\ Code(m) \in Text
  BY <1>2, <1>3, TestValues DEF TestWrote
<1>6. \/ /\ disk' = [disk EXCEPT !["code.rom"] = Rom(m)] /\ Rom(m) \in Text
         /\ did' = {"assembled"}
      \/ disk' = disk /\ did' = {}
  <2>1. CASE Assembles
    <3>1. Rom(m) \in Text
      BY <2>1, <1>4, <1>5 DEF Assembles, PartsAre, Rom
    <3> QED  BY <2>1, <3>1, <1>4, <1>5 DEF AssembleStep, Writes, Rom
  <2>2. CASE ~Assembles  BY <2>2, <1>5 DEF AssembleStep
  <2> QED  BY <2>1, <2>2
<1>7. /\ disk' \in [Paths -> Text \union {Absent}]
      /\ "assembled" \in did' => disk'["code.rom"] = Rom(m)
      /\ \A g \in Paths \ {"code.rom"} : disk'[g] = disk[g]
  <2>1. "code.rom" \in Paths  BY DEF Paths
  <2> QED  BY <1>3, <1>6, <2>1, Written
<1>8. disk'["main.ha"] = m  BY <1>7 DEF Paths, m
<1>9. held' = TestHolds(pc + 1, m)
  BY <1>0, <1>2, <1>3 DEF TestHolds, Variables
<1>10. TestWorked(pc + 1, m)  BY <1>2, <1>3 DEF TestWorked
<1>11. did' \subseteq {"assembled"}  BY <1>6
<1>12. TestWrote(pc + 1, m, disk', did')
  BY <1>2, <1>3, <1>7, <1>11 DEF TestWrote, Paths
<1>13. TestCompared(pc + 1, m, disk')
  BY <1>2, <1>3, <1>7 DEF TestCompared, Paths
<1> QED
  BY <1>0, <1>1, <1>2, <1>7, <1>8, <1>9, <1>10, <1>11, <1>12, <1>13, TestState, TestAdvance DEF m

LEMMA TestExecuteDInv ==
  ASSUME NEW CONSTANT T, NEW CONSTANT A, NEW CONSTANT P, PartsAre(T, A, P),
         DInv, program = "test", ExecuteStep
  PROVE  DInv'
<1> DEFINE m == disk["main.ha"]
<1>0. /\ outcome = "running" /\ now.op = "execute" /\ Proceed
      /\ UNCHANGED <<held, said, feVars, setup, again>>
  BY DEF ExecuteStep, Doing, Rest
<1>1. IInv'  BY <1>0, StutterIInv DEF DInv, DTypeOK, IInv
<1>2. pc = 22 /\ at' = "idle"
  BY <1>0, AtAStep, TestPlaces DEF feVars
<1> HIDE DEF m
<1>3. /\ held = TestHolds(pc, m) /\ TestWorked(pc, m) /\ TestWrote(pc, m, disk, did)
      /\ TestCompared(pc, m, disk) /\ disk \in [Paths -> Text \union {Absent}]
      /\ did \subseteq {"assembled", "executed"}
  BY <1>0, TestState DEF m
<1>4. now.what = "code.rom" /\ now.into = "output_result"
  <2>1. Done(Script[22], "execute", "code.rom", "output_result")
    BY TestDone
  <2> QED  BY <1>2, <2>1 DEF Done, now
<1>5. "executed" \notin did /\ ("assembled" \in did => disk["code.rom"] = Rom(m))
  BY <1>2, <1>3 DEF TestWrote
<1>6. \E t \in Text \union {Absent} :
        /\ disk' = [disk EXCEPT !["output_result"] = t]
        /\ \/ t = uxncli(disk["code.rom"]) /\ did' = did \union {"executed"}
           \/ did' = did
  <2>0. "output_result" \in Paths /\ "code.rom" \in Paths /\ <<>> \in Text
    BY DEF Paths, Text
  <2>1. CASE Executes
    <3>1. disk["code.rom"] \in Text  BY <2>0, <2>1, <1>3, <1>4 DEF Executes
    <3>2. uxncli(disk["code.rom"]) \in Text  BY <3>1 DEF PartsAre
    <3> QED  BY <2>1, <3>2, <1>4 DEF ExecuteStep, Writes
  <2>2. CASE ~Executes
    <3>1. Emptied("output_result") \in Text \union {Absent}  BY <2>0, <1>3 DEF Emptied
    <3> QED  BY <2>2, <3>1, <1>4 DEF ExecuteStep, Writes
  <2> QED  BY <2>1, <2>2
<1>7. /\ disk' \in [Paths -> Text \union {Absent}]
      /\ "executed" \in did' => disk'["output_result"] = uxncli(disk["code.rom"])
      /\ \A g \in Paths \ {"output_result"} : disk'[g] = disk[g]
  <2>1. "output_result" \in Paths  BY DEF Paths
  <2> QED  BY <1>3, <1>5, <1>6, <2>1, Written
<1>8. disk'["main.ha"] = m  BY <1>7 DEF Paths, m
<1>9. held' = TestHolds(pc + 1, m)
  BY <1>0, <1>2, <1>3 DEF TestHolds, Variables
<1>10. TestWorked(pc + 1, m)  BY <1>2, <1>3 DEF TestWorked
<1>11. did' \subseteq {"assembled", "executed"} /\ ("assembled" \in did' => "assembled" \in did)
  BY <1>3, <1>6
<1>12. TestWrote(pc + 1, m, disk', did')
  <2>1. /\ "assembled" \in did' => disk'["code.rom"] = Rom(m)
        /\ did' = {"assembled", "executed"} => disk'["output_result"] = uxncli(Rom(m))
    BY <1>5, <1>7, <1>11 DEF Paths
  <2> QED  BY <1>2, <1>3, <1>7, <2>1 DEF TestWrote, Paths
<1>13. TestCompared(pc + 1, m, disk')
  BY <1>2, <1>3, <1>7 DEF TestCompared, Paths
<1> QED
  BY <1>0, <1>1, <1>2, <1>7, <1>8, <1>9, <1>10, <1>11, <1>12, <1>13, TestState, TestAdvance DEF m

-----------------------------------------------------------------------------
(* Comparing, which only test.c does.                                      *)
LEMMA ComparePlaces ==
  ASSUME DInv, Doing("compare")
  PROVE  /\ outcome = "running" /\ program = "test"
         /\ pc \in {3, 11, 16, 23} /\ pc \in Nat
         /\ pc = 3  => now.what = "lexer_expected" /\ now.into = "lexer_result"
         /\ pc = 11 => now.what = "parser_result" /\ now.into = "parser_2_result"
         /\ pc = 16 => now.what = "lexer_2_result" /\ now.into = "lexer_expected"
         /\ pc = 23 => now.what = "output_result" /\ now.into = "output_expected"
<1>1. outcome = "running" /\ now.op = "compare"  BY DEF Doing
<1>2. program = "test" /\ pc \in 1 .. 25  BY <1>1, AtAStep, CompilerPlaces
<1>3. pc \in {3, 11, 16, 23}  BY <1>1, <1>2, TestPlaces
<1>4. /\ Script[3].what = "lexer_expected" /\ Script[3].into = "lexer_result"
      /\ Script[11].what = "parser_result" /\ Script[11].into = "parser_2_result"
      /\ Script[16].what = "lexer_2_result" /\ Script[16].into = "lexer_expected"
      /\ Script[23].what = "output_result" /\ Script[23].into = "output_expected"
  <2>1. /\ Done(Script[3], "compare", "lexer_expected", "lexer_result")
        /\ Done(Script[11], "compare", "parser_result", "parser_2_result")
        /\ Done(Script[16], "compare", "lexer_2_result", "lexer_expected")
        /\ Done(Script[23], "compare", "output_result", "output_expected")
    BY <1>2, TestDone
  <2> QED  BY <2>1 DEF Done
<1> QED  BY <1>1, <1>2, <1>3, <1>4 DEF now

(* A comparison goes on.                                                   *)
LEMMA StayDInv ==
  ASSUME DInv, outcome = "running", UNCHANGED <<process, disk, setup, again>>, IInv',
         Comparing(pc)'
  PROVE  DInv'
<1>0. /\ program' = program /\ readonly' = readonly /\ pc' = pc /\ outcome' = outcome
      /\ held' = held /\ said' = said /\ did' = did /\ disk' = disk /\ again' = again
  BY DEF process, setup
<1>1. Script' = Script  BY <1>0 DEF Script
<1>2. DTypeOK'  BY <1>0, <1>1 DEF DInv, DTypeOK, IInv
<1>3. CrashOnlyOnReadOnly'  BY <1>0 DEF CrashOnlyOnReadOnly
<1>4. /\ program' = "test" => TestInv(pc, disk, held, said, did)'
      /\ program' = "compiler" => CompilerInv(pc, disk, held, said)'
  BY <1>0 DEF DInv
<1>5. (outcome = "running"
        <=> pc \in 1 .. Len(Script) /\ outcome \notin {"refused", "crashed", "killed"})'
  BY <1>0, <1>1 DEF DInv
<1>6. (again \in Nat)'  BY <1>0 DEF DInv
<1> QED  BY <1>2, <1>3, <1>4, <1>5, <1>6 DEF DInv, IInv

LEMMA CompareCallDInv ==
  ASSUME NEW CONSTANT T, NEW CONSTANT A, NEW CONSTANT P, PartsAre(T, A, P),
         DInv, CompareCall
  PROVE  DInv'
<1> DEFINE m == disk["main.ha"]
<1>0. /\ Doing("compare") /\ Call(disk[now.what], disk[now.into])
      /\ UNCHANGED <<process, disk, setup, again>> /\ Unopened = {}
  BY DEF CompareCall, Rest, Doing
<1>1. /\ outcome = "running" /\ program = "test"
      /\ pc \in {3, 11, 16, 23} /\ pc \in Nat
  BY <1>0, ComparePlaces
<1>2. /\ disk \in [Paths -> Text \union {Absent}] /\ Absent \notin Text /\ IInv
      /\ TestWorked(pc, m) /\ TestWrote(pc, m, disk, did)
  BY <1>1, TestState DEF PartsAre
<1> HIDE DEF m
<1>3. disk[now.what] # Absent /\ disk[now.into] # Absent
  <2>1. CASE pc \in {3, 23}
    <3>1. now.what \in now.reads /\ now.into \in now.reads
      BY <1>0, <1>1, <2>1, ComparePlaces, TestReads DEF now
    <3> QED  BY <1>0, <3>1 DEF Unopened
  <2>2. CASE pc \in {11, 16}
    <3>1. /\ disk["lexer_expected"] # Absent
          /\ disk["parser_result"] \in Text /\ disk["parser_2_result"] \in Text
      BY <1>1, <1>2, <2>2, TestValues DEF TestWrote
    <3>2. pc = 16 => disk["lexer_2_result"] \in Text
      BY <1>1, <1>2, <2>2, TestValues DEF TestWrote
    <3> QED  BY <1>0, <1>2, <2>2, <3>1, <3>2, ComparePlaces
  <2> QED  BY <1>1, <2>1, <2>2
<1>4. now.what \in Paths /\ now.into \in Paths
  BY <1>0, <1>1, ComparePlaces DEF Paths
<1>5. disk[now.what] \in Text /\ disk[now.into] \in Text
  BY <1>2, <1>3, <1>4
<1>6. IInv'  BY <1>0, <1>2, <1>5, CallIInv
<1>7. Comparing(pc)'
  BY <1>0, <1>1 DEF Comparing, Call, now, process, setup, Script
<1> QED  BY <1>0, <1>1, <1>6, <1>7, StayDInv

LEMMA CompareTurnDInv ==
  ASSUME DInv, CompareTurn
  PROVE  DInv'
<1>0. /\ Doing("compare") /\ feStep /\ UNCHANGED <<process, disk, setup, again>>
  BY DEF CompareTurn, Rest
<1>1. outcome = "running" /\ program = "test"  BY <1>0, ComparePlaces
<1>2. IInv  BY DEF DInv, DTypeOK, IInv
<1>3. IInv'  BY <1>0, <1>2, NextIInv DEF Next
<1>4. at # "idle" /\ file1' = file1 /\ file2' = file2
  BY <1>0 DEF feStep, ReadPieces, BothEnded, OneEnded, SameChar, PiecesOver,
              DifferentChar, Answer
<1>5. Comparing(pc)'
  BY <1>0, <1>1, <1>4 DEF DInv, Comparing, process, setup, Script
<1> QED  BY <1>0, <1>1, <1>3, <1>5, StayDInv

LEMMA CompareReturnDInv ==
  ASSUME NEW CONSTANT T, NEW CONSTANT A, NEW CONSTANT P, PartsAre(T, A, P),
         DInv, CompareReturn
  PROVE  DInv'
<1> DEFINE m == disk["main.ha"]
<1>0. /\ Doing("compare") /\ at \in {"yes", "no"} /\ at' = "idle"
      /\ IF at = "yes" THEN Proceed ELSE Leave("refused")
      /\ UNCHANGED <<file1, file2, from1, from2, read1, read2, i>>
      /\ UNCHANGED <<held, said, did, disk, setup, again>>
  BY DEF CompareReturn, Rest
<1>1. /\ outcome = "running" /\ program = "test"
      /\ pc \in {3, 11, 16, 23} /\ pc \in Nat
  BY <1>0, ComparePlaces
<1>2. IInv'
  <2>1. IInv  BY DEF DInv, DTypeOK, IInv
  <2>2. TypeOK'  BY <1>0, <2>1 DEF IInv, TypeOK
  <2>3. Compared' /\ InStep' /\ AnswerIsRight'
    BY <1>0, <2>1 DEF IInv, Compared, InStep, AnswerIsRight
  <2> QED  BY <2>2, <2>3 DEF IInv
<1>3. CASE at = "no"
  BY <1>0, <1>1, <1>2, <1>3, LeftDInv
<1>4. CASE at = "yes"
  <2>0. file1 = disk[now.what] /\ file2 = disk[now.into]
    BY <1>4 DEF DInv, Comparing, now
  <2>1. Same(disk[now.what], disk[now.into])
    <3>2. IsText(file1) /\ IsText(file2) => file1 = file2
      BY <1>4 DEF DInv, AnswerIsRight
    <3> QED  BY <2>0, <3>2 DEF Same
  <2> HIDE DEF m
  <2>2. /\ held = TestHolds(pc, m) /\ TestWorked(pc, m) /\ TestWrote(pc, m, disk, did)
        /\ TestCompared(pc, m, disk)
    BY <1>1, TestState DEF m
  <2>3. held' = TestHolds(pc + 1, m)
    BY <1>0, <1>1, <2>2 DEF TestHolds, Variables
  <2>4. TestWorked(pc + 1, m)  BY <1>1, <2>2 DEF TestWorked
  <2>5. pc = 3 => disk["lexer_expected"] # Absent
    <3>1. file1 \in Text  BY DEF DInv, DTypeOK, TypeOK
    <3> QED  BY <1>0, <2>0, <3>1, ComparePlaces DEF PartsAre
  <2>6. TestWrote(pc + 1, m, disk, did)  BY <1>1, <2>2, <2>5 DEF TestWrote
  <2>7. TestCompared(pc + 1, m, disk)
    BY <1>0, <1>1, <2>1, <2>2, ComparePlaces DEF TestCompared, TestWrote, Same
  <2> QED  BY <1>0, <1>1, <1>2, <1>4, <2>3, <2>4, <2>6, <2>7, TestState, TestAdvance DEF m
<1> QED  BY <1>0, <1>3, <1>4

-----------------------------------------------------------------------------
(* complete_compiler.c.                                                    *)
LEMMA CompilerState ==
  ASSUME DInv, program = "compiler", outcome = "running", NEW m, m = disk["main.ha"]
  PROVE  /\ pc \in 1 .. 8 /\ pc \in Nat
         /\ held = CompilerHolds(pc, m)
         /\ pc >= 2 => m \in Text /\ lexify(m) # Failed
         /\ pc >= 3 => Ast1(m) # Failed
         /\ pc >= 4 => Program(m) # Failed
         /\ pc >= 5 => disk["code.uxntal"] = Code(m)
         /\ said \subseteq {"compiler"} /\ ("compiler" \in said => pc >= 6)
         /\ disk \in [Paths -> Text \union {Absent}]
         /\ did \subseteq {"assembled", "executed"}
         /\ at = "idle"
         /\ IInv
<1>1. CompilerInv(pc, disk, held, said)  BY DEF DInv
<1>2. pc \in 1 .. 8 /\ pc \in Nat /\ at = "idle"  BY AtAStep, CompilerPlaces
<1> QED  BY <1>1, <1>2 DEF CompilerInv, DInv, DTypeOK, IInv

LEMMA CompilerAdvance ==
  ASSUME DInv, program = "compiler", outcome = "running", Proceed,
         UNCHANGED setup, again' = again, UNCHANGED feVars,
         disk' \in [Paths -> Text \union {Absent}],
         did' \subseteq {"assembled", "executed"},
         NEW m, m = disk["main.ha"], disk'["main.ha"] = m,
         held' = CompilerHolds(pc + 1, m),
         m \in Text, lexify(m) # Failed,
         pc >= 2 => Ast1(m) # Failed,
         pc >= 3 => Program(m) # Failed,
         pc >= 4 => disk'["code.uxntal"] = Code(m),
         said' \subseteq {"compiler"}, "compiler" \in said' => pc >= 5
  PROVE  DInv'
<1>0. pc \in 1 .. 8 /\ pc \in Nat  BY AtAStep
<1>1. IInv'  BY StutterIInv DEF DInv, DTypeOK, IInv
<1>2. at' = "idle"  BY CompilerState DEF feVars
<1>3. CompilerInv(pc + 1, disk', held', said')  BY <1>0 DEF CompilerInv
<1>4. DOMAIN held' = Variables  BY DEF CompilerHolds
<1>5. said' \subseteq {"lexer", "parser", "compiler", "execution"}  OBVIOUS
<1> QED  BY <1>1, <1>2, <1>3, <1>4, <1>5, AdvanceDInv

LEMMA CompilerCallDInv ==
  ASSUME DInv, program = "compiler", LexStep \/ ParseStep \/ CompileStep
  PROVE  DInv'
<1> DEFINE m == disk["main.ha"]
<1>0. /\ outcome = "running"
      /\ now.op = "lex" \/ now.op = "parse" \/ now.op = "compile"
      /\ UNCHANGED <<said, did, disk, feVars, setup, again>> /\ Unopened = {}
  BY DEF LexStep, ParseStep, CompileStep, Doing, Rest
<1>1. IInv'  BY <1>0, StutterIInv DEF DInv, DTypeOK, IInv
<1> HIDE DEF m
<1>2. /\ pc \in 1 .. 8 /\ pc \in Nat
      /\ held = CompilerHolds(pc, m)
      /\ pc >= 2 => m \in Text /\ lexify(m) # Failed
      /\ pc >= 3 => Ast1(m) # Failed
      /\ disk \in [Paths -> Text \union {Absent}]
  BY <1>0, CompilerState DEF m
<1>3. CASE now.op = "lex"
  <2>1. pc = 1  BY <1>2, <1>3, CompilerPlaces
  <2>2. Result("tokens", lexify(m), {})
    <3>1. now.what = "main.ha" /\ now.into = "tokens"
      BY <2>1, CompilerDone DEF Done, now
    <3> QED  BY <1>3, <3>1 DEF LexStep, ParseStep, CompileStep, Doing, m
  <2>3. m \in Text
    <3>1. now.reads = {"main.ha"}
      BY <2>1, CompilerScript DEF now, LexFile, Step
    <3> QED  BY <1>0, <1>2, <3>1 DEF Unopened, m, Paths
  <2>4. CASE lexify(m) = Failed
    BY <1>0, <1>1, <2>2, <2>4, LeftDInv DEF Result
  <2>5. CASE lexify(m) # Failed
    <3>1. /\ Proceed
          /\ held' = [v \in Variables |-> IF v = "tokens" THEN lexify(m) ELSE held[v]]
      BY <2>2, <2>5 DEF Result
    <3>2. held' = CompilerHolds(2, m)
      BY <1>2, <2>1, <3>1 DEF CompilerHolds, Variables
    <3> QED
      BY <1>0, <2>1, <2>3, <2>5, <3>1, <3>2, CompilerState, CompilerAdvance DEF m
  <2> QED  BY <2>4, <2>5
<1>4. CASE now.op = "parse"
  <2>1. pc = 2  BY <1>2, <1>4, CompilerPlaces
  <2>2. Result("ast", Ast1(m), {"tokens"})
    <3>1. now.what = "tokens" /\ now.into = "ast"
      BY <2>1, CompilerDone DEF Done, now
    <3>2. held["tokens"] = lexify(m)  BY <1>2, <2>1 DEF CompilerHolds, Variables
    <3> QED  BY <1>4, <3>1, <3>2 DEF LexStep, ParseStep, CompileStep, Doing, Ast1
  <2>4. CASE Ast1(m) = Failed
    BY <1>0, <1>1, <2>2, <2>4, LeftDInv DEF Result
  <2>5. CASE Ast1(m) # Failed
    <3>1. /\ Proceed
          /\ held' = [v \in Variables |-> IF v = "ast" THEN Ast1(m)
                                          ELSE IF v \in {"tokens"} THEN Gone ELSE held[v]]
      BY <2>2, <2>5 DEF Result
    <3>2. held' = CompilerHolds(3, m)
      BY <1>2, <2>1, <3>1 DEF CompilerHolds, Variables
    <3> QED
      BY <1>0, <1>2, <2>1, <2>5, <3>1, <3>2, CompilerState, CompilerAdvance DEF m
  <2> QED  BY <2>4, <2>5
<1>5. CASE now.op = "compile"
  <2>1. pc = 3  BY <1>2, <1>5, CompilerPlaces
  <2>2. Result("uxn_program", Program(m), {"ast"})
    <3>1. now.what = "ast" /\ now.into = "uxn_program"
      BY <2>1, CompilerDone DEF Done, now
    <3>2. held["ast"] = Ast1(m)  BY <1>2, <2>1 DEF CompilerHolds, Variables
    <3> QED  BY <1>5, <3>1, <3>2 DEF LexStep, ParseStep, CompileStep, Doing, Program
  <2>4. CASE Program(m) = Failed
    BY <1>0, <1>1, <2>2, <2>4, LeftDInv DEF Result
  <2>5. CASE Program(m) # Failed
    <3>1. /\ Proceed
          /\ held' = [v \in Variables |-> IF v = "uxn_program" THEN Program(m)
                                          ELSE IF v \in {"ast"} THEN Gone ELSE held[v]]
      BY <2>2, <2>5 DEF Result
    <3>2. held' = CompilerHolds(4, m)
      BY <1>2, <2>1, <3>1 DEF CompilerHolds, Variables
    <3> QED
      BY <1>0, <1>2, <2>1, <2>5, <3>1, <3>2, CompilerState, CompilerAdvance DEF m
  <2> QED  BY <2>4, <2>5
<1> QED  BY <1>0, <1>3, <1>4, <1>5

LEMMA CompilerDeleteDInv ==
  ASSUME DInv, program = "compiler", DeleteStep
  PROVE  DInv'
<1> DEFINE m == disk["main.ha"]
<1>0. /\ outcome = "running" /\ now.op = "delete" /\ Proceed
      /\ held' = [held EXCEPT ![now.what] = Gone]
      /\ UNCHANGED <<said, did, disk, feVars, setup, again>>
  BY DEF DeleteStep, Doing, Rest
<1>1. pc = 8  BY <1>0, AtAStep, CompilerPlaces
<1>2. now.what = "uxn_program"  BY <1>1, CompilerDone DEF Done, now
<1> HIDE DEF m
<1>3. held = CompilerHolds(8, m)  BY <1>0, <1>1, CompilerState DEF m
<1>4. held' = CompilerHolds(9, m)
  <2>1. held' = [v \in Variables |-> IF v = "uxn_program" THEN Gone ELSE held[v]]
    BY <1>0, <1>2, <1>3 DEF CompilerHolds
  <2> QED  BY <1>3, <2>1 DEF CompilerHolds, Variables
<1> QED  BY <1>0, <1>1, <1>4, CompilerState, CompilerAdvance DEF m

LEMMA CompilerSayDInv ==
  ASSUME DInv, program = "compiler", SayStep
  PROVE  DInv'
<1> DEFINE m == disk["main.ha"]
<1>0. /\ outcome = "running" /\ now.op = "say" /\ Proceed
      /\ said' = said \union {now.what}
      /\ UNCHANGED <<held, did, disk, feVars, setup, again>>
  BY DEF SayStep, Doing, Rest
<1>1. pc = 5  BY <1>0, AtAStep, CompilerPlaces
<1>2. now.what = "compiler"  BY <1>1, CompilerDone DEF Done, now
<1> HIDE DEF m
<1>3. held = CompilerHolds(5, m) /\ said \subseteq {"compiler"}
  BY <1>0, <1>1, CompilerState DEF m
<1>4. held' = CompilerHolds(6, m)
  BY <1>0, <1>3 DEF CompilerHolds, Variables
<1>5. said' \subseteq {"compiler"}  BY <1>0, <1>2, <1>3
<1> QED  BY <1>0, <1>1, <1>4, <1>5, CompilerState, CompilerAdvance DEF m

LEMMA CompilerProgramDInv ==
  ASSUME NEW CONSTANT T, NEW CONSTANT A, NEW CONSTANT P, PartsAre(T, A, P),
         DInv, program = "compiler", ProgramStep
  PROVE  DInv'
<1> DEFINE m == disk["main.ha"]
           text == fprintf_uxn_program(held[now.what])
<1>0. /\ outcome = "running" /\ now.op = "program" /\ Proceed
      /\ disk' = [disk EXCEPT ![now.into] = text]
      /\ UNCHANGED <<held, said, did, feVars, setup, again>>
  BY DEF ProgramStep, Prints, Writes, Doing, Rest
<1>1. pc = 4  BY <1>0, AtAStep, CompilerPlaces
<1>2. now.what = "uxn_program" /\ now.into = "code.uxntal"
  BY <1>1, CompilerDone DEF Done, now
<1> HIDE DEF m
<1>3. /\ held = CompilerHolds(4, m) /\ disk \in [Paths -> Text \union {Absent}]
      /\ m \in Text /\ lexify(m) # Failed /\ Ast1(m) # Failed /\ Program(m) # Failed
  BY <1>0, <1>1, CompilerState DEF m
<1>4. text = Code(m)
  BY <1>2, <1>3 DEF CompilerHolds, Variables, Code
<1>5. text \in Text
  BY <1>3, <1>4 DEF PartsAre, Code, Program, Ast1
<1> HIDE DEF text
<1>6. /\ disk' \in [Paths -> Text \union {Absent}] /\ disk'["code.uxntal"] = text
      /\ \A g \in Paths \ {"code.uxntal"} : disk'[g] = disk[g]
  <2>1. "code.uxntal" \in Paths  BY DEF Paths
  <2> QED  BY <1>0, <1>2, <1>3, <1>5, <2>1, Written
<1>7. disk'["main.ha"] = m  BY <1>6 DEF Paths, m
<1>8. held' = CompilerHolds(5, m)
  BY <1>0, <1>3 DEF CompilerHolds, Variables
<1> QED
  BY <1>0, <1>1, <1>3, <1>4, <1>6, <1>7, <1>8, CompilerState, CompilerAdvance DEF m

LEMMA CompilerToolDInv ==
  ASSUME NEW CONSTANT T, NEW CONSTANT A, NEW CONSTANT P, PartsAre(T, A, P),
         DInv, program = "compiler", AssembleStep \/ ExecuteStep
  PROVE  DInv'
<1> DEFINE m == disk["main.ha"]
<1>0. /\ outcome = "running" /\ Proceed
      /\ now.op = "assemble" \/ now.op = "execute"
      /\ UNCHANGED <<held, said, feVars, setup, again>>
  BY DEF AssembleStep, ExecuteStep, Doing, Rest
<1>1. pc \in {6, 7} /\ pc \in Nat  BY <1>0, AtAStep, CompilerPlaces
<1>2. now.into \in {"code.uxntal.rom", "stdout"} /\ now.what \in {"code.uxntal", "main.ha.rom"}
  <2>1. /\ Script[6].into = "code.uxntal.rom" /\ Script[7].into = "stdout"
        /\ Script[6].what = "code.uxntal" /\ Script[7].what = "main.ha.rom"
    BY CompilerDone DEF Done
  <2> QED  BY <1>1, <2>1 DEF now
<1> HIDE DEF m
<1>3. /\ held = CompilerHolds(pc, m) /\ disk \in [Paths -> Text \union {Absent}]
      /\ m \in Text /\ lexify(m) # Failed /\ Ast1(m) # Failed /\ Program(m) # Failed
      /\ disk["code.uxntal"] = Code(m) /\ did \subseteq {"assembled", "executed"}
      /\ said \subseteq {"compiler"}
  BY <1>0, <1>1, CompilerState DEF m
<1>4. /\ disk' = disk \/ \E t \in Text \union {Absent} : disk' = [disk EXCEPT ![now.into] = t]
      /\ did' \subseteq {"assembled", "executed"}
  <2>0. now.into \in Paths /\ now.what \in Paths  BY <1>2 DEF Paths
  <2>1. CASE AssembleStep
    <3>1. Assembles => uxnasm(disk[now.what]) \in Text
      BY <2>0, <1>3 DEF Assembles, PartsAre
    <3> QED  BY <2>1, <3>1, <1>3 DEF AssembleStep, Writes
  <2>2. CASE ExecuteStep
    <3>1. Executes => uxncli(disk[now.what]) \in Text
      BY <2>0, <1>3 DEF Executes, PartsAre
    <3>2. Emptied(now.into) \in Text \union {Absent}
      BY <2>0, <1>3 DEF Emptied, Text
    <3> QED  BY <2>2, <3>1, <3>2, <1>3 DEF ExecuteStep, Writes
  <2> QED  BY <2>1, <2>2
<1>5. /\ disk' \in [Paths -> Text \union {Absent}]
      /\ \A g \in Paths \ {now.into} : disk'[g] = disk[g]
  <2>1. now.into \in Paths  BY <1>2 DEF Paths
  <2> QED  BY <1>3, <1>4, <2>1, Written
<1>6. disk'["main.ha"] = m /\ disk'["code.uxntal"] = Code(m)
  BY <1>2, <1>3, <1>5 DEF Paths, m
<1>7. held' = CompilerHolds(pc + 1, m)
  BY <1>0, <1>1, <1>3 DEF CompilerHolds, Variables
<1> QED
  BY <1>0, <1>1, <1>3, <1>4, <1>5, <1>6, <1>7, CompilerState, CompilerAdvance DEF m

-----------------------------------------------------------------------------
(* A new run knows nothing of what the last one has done.                  *)
LEMMA Start ==
  ASSUME NEW d
  PROVE  /\ TestInv(1, d, [v \in Variables |-> Gone], {}, {})
         /\ CompilerInv(1, d, [v \in Variables |-> Gone], {})
<1> DEFINE m == d["main.ha"]
<1>1. [v \in Variables |-> Gone] = TestHolds(1, m)  BY DEF TestHolds
<1>2. [v \in Variables |-> Gone] = CompilerHolds(1, m)  BY DEF CompilerHolds
<1> HIDE DEF m
<1>3. /\ TestWorked(1, m) /\ TestWrote(1, m, d, {})
      /\ TestCompared(1, m, d) /\ TestSaid(1, {})
  BY DEF TestWorked, TestWrote, TestCompared, TestSaid
<1> QED  BY <1>1, <1>2, <1>3 DEF TestInv, CompilerInv, m

LEMMA ScriptBegins ==
  ASSUME program \in {"test", "compiler"}
  PROVE  Len(Script) \in Nat /\ 1 \in 1 .. Len(Script) /\ 1 \in 1 .. Len(Script) + 1
<1>1. CASE program = "test"
  <2>1. Len(Script) = 25  BY <1>1, TestScript
  <2> QED  BY <2>1
<1>2. CASE program = "compiler"
  <2>1. Len(Script) = 8  BY <1>2, CompilerScript
  <2> QED  BY <2>1
<1> QED  BY <1>1, <1>2

LEMMA RunAgainDInv == ASSUME DInv, RunAgain PROVE DInv'
<1>0. /\ again > 0 /\ again' = again - 1 /\ again \in Nat
      /\ pc' = 1 /\ outcome' = "running" /\ held' = [v \in Variables |-> Gone]
      /\ said' = {} /\ did' = {} /\ at' = "idle"
      /\ UNCHANGED <<file1, file2, from1, from2, read1, read2, i>>
      /\ program' = program
      /\ TypeOK /\ InStep /\ program \in {"test", "compiler"}
  BY DEF RunAgain, setup, DInv, DTypeOK
<1>1. TypeOK' /\ Compared' /\ InStep' /\ AnswerIsRight'
  <2>1. TypeOK'  BY <1>0 DEF TypeOK
  <2> QED  BY <1>0, <2>1 DEF Compared, InStep, AnswerIsRight
<1>2. disk' \in [Paths -> Text \union {Absent}]
  <2>1. disk \in [Paths -> Text \union {Absent}]  BY DEF DInv, DTypeOK
  <2>2. PICK source \in Sources, cleaned \in {{}, Results} :
          disk' = [f \in Paths |-> IF f = "main.ha" THEN source
                                   ELSE IF f \in cleaned THEN Absent ELSE disk[f]]
    BY DEF RunAgain
  <2> QED  BY <2>1, <2>2, SourcesAssumption
<1>3. Script' = Script /\ 1 \in 1 .. Len(Script) /\ 1 \in 1 .. Len(Script) + 1
  BY <1>0, ScriptBegins DEF Script
<1>4. DTypeOK'
  BY <1>0, <1>1, <1>2, <1>3 DEF DTypeOK
<1>5. again' \in Nat  BY <1>0
<1>6. /\ TestInv(pc, disk, held, said, did)'
      /\ CompilerInv(pc, disk, held, said)'
  BY <1>0, Start
<1> QED
  BY <1>0, <1>1, <1>3, <1>4, <1>5, <1>6 DEF DInv, Comparing, CrashOnlyOnReadOnly

LEMMA InitDInv == DInit => DInv
<1> SUFFICES ASSUME DInit PROVE DInv
  OBVIOUS
<1>1. IInv /\ at = "idle"  BY InitIInv DEF DInit, Init
<1>2. /\ program \in {"test", "compiler"} /\ disk \in [Paths -> Text \union {Absent}]
      /\ again \in Nat
  BY SetupsAssumption DEF DInit
<1>3. /\ pc = 1 /\ outcome = "running" /\ held = [v \in Variables |-> Gone]
      /\ said = {} /\ did = {}
  BY DEF DInit
<1>4. 1 \in 1 .. Len(Script) /\ 1 \in 1 .. Len(Script) + 1  BY <1>2, ScriptBegins
<1>5. DTypeOK  BY <1>1, <1>2, <1>3, <1>4 DEF DTypeOK, IInv
<1>6. TestInv(pc, disk, held, said, did) /\ CompilerInv(pc, disk, held, said)
  BY <1>3, Start
<1> QED
  BY <1>1, <1>2, <1>3, <1>4, <1>5, <1>6
  DEF DInv, IInv, Comparing, CrashOnlyOnReadOnly

LEMMA StutterDInv == ASSUME DInv, UNCHANGED dVars PROVE DInv'
<1>0. /\ UNCHANGED feVars /\ UNCHANGED <<process, disk, setup, again>>
  BY DEF dVars, process, setup
<1>1. IInv'  BY <1>0, StutterIInv DEF DInv, DTypeOK, IInv
<1>2. /\ program' = program /\ readonly' = readonly /\ pc' = pc /\ outcome' = outcome
      /\ held' = held /\ said' = said /\ did' = did /\ disk' = disk /\ again' = again
  BY <1>0 DEF process, setup
<1>3. Script' = Script  BY <1>2 DEF Script
<1>4. DTypeOK'  BY <1>1, <1>2, <1>3 DEF DInv, DTypeOK, IInv
<1>5. Comparing(pc)'  BY <1>0, <1>2, <1>3 DEF DInv, Comparing, feVars
<1>6. CrashOnlyOnReadOnly'
  BY <1>2, <1>3 DEF DInv, CrashOnlyOnReadOnly, Unopened, now
<1>7. /\ program' = "test" => TestInv(pc, disk, held, said, did)'
      /\ program' = "compiler" => CompilerInv(pc, disk, held, said)'
  BY <1>2 DEF DInv
<1>8. (outcome = "running"
        <=> pc \in 1 .. Len(Script) /\ outcome \notin {"refused", "crashed", "killed"})'
  BY <1>2, <1>3 DEF DInv
<1>9. (again \in Nat)'  BY <1>2 DEF DInv
<1> QED  BY <1>1, <1>4, <1>5, <1>6, <1>7, <1>8, <1>9 DEF DInv, IInv

LEMMA NextDInv ==
  ASSUME NEW CONSTANT T, NEW CONSTANT A, NEW CONSTANT P, PartsAre(T, A, P)
  PROVE  DInv /\ [DNext]_dVars => DInv'
<1> SUFFICES ASSUME DInv, [DNext]_dVars PROVE DInv'
  OBVIOUS
<1>0. program = "test" \/ program = "compiler"  BY DEF DInv, DTypeOK
<1>1. CASE OpenRefused \/ Kill  BY <1>1, RefusedDInv
<1>2. CASE OpenCrashes  BY <1>2, CrashedDInv
<1>3. CASE LexStep  BY <1>0, <1>3, TestLexDInv, CompilerCallDInv
<1>4. CASE ParseStep  BY <1>0, <1>4, TestParseDInv, CompilerCallDInv
<1>5. CASE CompileStep  BY <1>0, <1>5, TestCompileDInv, CompilerCallDInv
<1>6. CASE CreateStep
  BY <1>0, <1>6, TestCreateDInv, AtAStep, CompilerPlaces DEF CreateStep, Doing
<1>7. CASE ListStep
  BY <1>0, <1>7, TestListDInv, AtAStep, CompilerPlaces DEF ListStep, Doing
<1>8. CASE PrintStep
  BY <1>0, <1>8, TestPrintDInv, AtAStep, CompilerPlaces DEF PrintStep, Doing
<1>9. CASE ProgramStep  BY <1>0, <1>9, TestProgramDInv, CompilerProgramDInv
<1>10. CASE DeleteStep  BY <1>0, <1>10, TestDeleteDInv, CompilerDeleteDInv
<1>11. CASE SayStep  BY <1>0, <1>11, TestSayDInv, CompilerSayDInv
<1>12. CASE CompareCall  BY <1>12, CompareCallDInv
<1>13. CASE CompareTurn  BY <1>13, CompareTurnDInv
<1>14. CASE CompareReturn  BY <1>14, CompareReturnDInv
<1>15. CASE AssembleStep  BY <1>0, <1>15, TestAssembleDInv, CompilerToolDInv
<1>16. CASE ExecuteStep  BY <1>0, <1>16, TestExecuteDInv, CompilerToolDInv
<1>17. CASE RunAgain  BY <1>17, RunAgainDInv
<1>18. CASE UNCHANGED dVars  BY <1>18, StutterDInv
<1> QED
  BY <1>1, <1>2, <1>3, <1>4, <1>5, <1>6, <1>7, <1>8, <1>9, <1>10, <1>11, <1>12, <1>13,
     <1>14, <1>15, <1>16, <1>17, <1>18 DEF DNext, DStep

-----------------------------------------------------------------------------
(* What the invariant says of a state.                                     *)
LEMMA EarnedByDInv == ASSUME DInv PROVE OkIsEarned
<1> DEFINE m == disk["main.ha"]
<1>0. /\ program = "test" \/ program = "compiler"
      /\ pc \in Nat /\ did \subseteq {"assembled", "executed"}
  <2>1. pc \in 1 .. Len(Script) + 1  BY DEF DInv, DTypeOK
  <2>2. program = "test" \/ program = "compiler"  BY DEF DInv, DTypeOK
  <2>3. Len(Script) \in Nat  BY <2>2, TestScript, CompilerScript
  <2> QED  BY <2>1, <2>2, <2>3 DEF DInv, DTypeOK
<1>1. CASE program = "test"
  <2>1. /\ TestWrote(pc, m, disk, did) /\ TestCompared(pc, m, disk) /\ TestSaid(pc, said)
    BY <1>1 DEF DInv, TestInv
  <2> HIDE DEF m
  <2>2. "lexer" \in said => Same(fprintf_tokens(lexify(m)), disk["lexer_expected"])
    BY <1>0, <2>1 DEF TestSaid, TestCompared
  <2>3. "parser" \in said => /\ Same(Pretty2(m), Pretty1(m))
                             /\ Same(fprintf_tokens(Tokens3(m)), disk["lexer_expected"])
    BY <1>0, <2>1 DEF TestSaid, TestCompared
  <2>4. "compiler" \in said => disk["code.uxntal"] = Code(m)
    BY <1>0, <2>1 DEF TestSaid, TestWrote
  <2>5. "execution" \in said /\ did = {"assembled", "executed"} =>
          Same(uxncli(Rom(m)), disk["output_expected"])
    <3> SUFFICES ASSUME "execution" \in said, did = {"assembled", "executed"}
                 PROVE  Same(uxncli(Rom(m)), disk["output_expected"])
      OBVIOUS
    <3>1. pc >= 25  BY <2>1 DEF TestSaid
    <3>2. Same(disk["output_result"], disk["output_expected"])
      BY <1>0, <2>1, <3>1 DEF TestCompared
    <3>3. disk["output_result"] = uxncli(Rom(m))  BY <2>1 DEF TestWrote
    <3> QED  BY <3>2, <3>3
  <2> QED
    BY <2>2, <2>3, <2>4, <2>5
    DEF OkIsEarned, TokensOfMain, AstOfMain, Pretty, PrettyAgain, CodeOfMain, OutputOfMain,
        Ast1, Pretty1, Tokens2, Ast2, Pretty2, Tokens3, Program, Code, Rom, m
<1>2. CASE program = "compiler"
  <2>1. /\ said \subseteq {"compiler"}
        /\ "compiler" \in said => disk["code.uxntal"] = Code(m)
    BY <1>0, <1>2 DEF DInv, CompilerInv
  <2>2. "lexer" \notin said /\ "parser" \notin said /\ "execution" \notin said
    BY <2>1
  <2> QED
    BY <2>1, <2>2
    DEF OkIsEarned, CodeOfMain, AstOfMain, TokensOfMain, Code, Program, Ast1
<1> QED  BY <1>0, <1>1, <1>2

LEMMA HandedByDInv ==
  ASSUME NEW CONSTANT T, NEW CONSTANT A, NEW CONSTANT P, PartsAre(T, A, P), DInv
  PROVE  HandedOver
<1> DEFINE m == disk["main.ha"]
<1>0. program = "test" \/ program = "compiler"  BY DEF DInv, DTypeOK
<1>a. Gone \notin T /\ Gone \notin A /\ Gone \notin P  BY DEF PartsAre
<1>1. ASSUME outcome = "running", program = "test"
      PROVE  /\ now.what \in Variables => held[now.what] # Gone
             /\ now.into \in Variables => held[now.into] = Gone
  <2>1. pc \in 1 .. 25 /\ pc \in Nat /\ held = TestHolds(pc, m) /\ TestWorked(pc, m)
    BY <1>1, TestState
  <2> HIDE DEF m
  <2>2. /\ pc >= 2  => lexify(m) # Gone
        /\ pc >= 6  => Ast1(m) # Gone
        /\ pc >= 8  => Tokens2(m) # Gone
        /\ pc >= 9  => Ast2(m) # Gone
        /\ pc >= 14 => Tokens3(m) # Gone
        /\ pc >= 19 => Program(m) # Gone
    BY <2>1, <1>a, TestValues
  <2>3. /\ held["tokens"] = IF pc \in 2 .. 5 THEN lexify(m)
                            ELSE IF pc \in 14 .. 15 THEN Tokens3(m) ELSE Gone
        /\ held["tokens_2"] = IF pc = 8 THEN Tokens2(m) ELSE Gone
        /\ held["ast"] = IF pc \in 6 .. 18 THEN Ast1(m) ELSE Gone
        /\ held["ast_2"] = IF pc \in 9 .. 10 THEN Ast2(m) ELSE Gone
        /\ held["uxn_program"] = IF pc \in 19 .. 25 THEN Program(m) ELSE Gone
    BY <2>1 DEF TestHolds, Variables
  <2>4. /\ now.what = "tokens" => pc \in {2, 5, 14, 15}
        /\ now.what = "tokens_2" => pc = 8
        /\ now.what = "ast" => pc \in {6, 18}
        /\ now.what = "ast_2" => pc \in {9, 10}
        /\ now.what = "uxn_program" => pc \in {19, 25}
        /\ now.into = "tokens" => pc \in {1, 13}
        /\ now.into = "tokens_2" => pc = 7
        /\ now.into = "ast" => pc = 5
        /\ now.into = "ast_2" => pc = 8
        /\ now.into = "uxn_program" => pc = 18
    BY <1>1, <2>1, TestVariables
  <2> QED  BY <2>1, <2>2, <2>3, <2>4 DEF Variables
<1>2. ASSUME outcome = "running", program = "compiler"
      PROVE  /\ now.what \in Variables => held[now.what] # Gone
             /\ now.into \in Variables => held[now.into] = Gone
  <2>1. /\ pc \in 1 .. 8 /\ pc \in Nat /\ held = CompilerHolds(pc, m)
        /\ pc >= 2 => m \in Text /\ lexify(m) # Failed
        /\ pc >= 3 => Ast1(m) # Failed
        /\ pc >= 4 => Program(m) # Failed
    BY <1>2, CompilerState
  <2> HIDE DEF m
  <2>2. /\ pc >= 2 => lexify(m) # Gone
        /\ pc >= 3 => Ast1(m) # Gone
        /\ pc >= 4 => Program(m) # Gone
    BY <2>1, <1>a DEF PartsAre, Ast1, Program
  <2>3. /\ held["tokens"] = IF pc = 2 THEN lexify(m) ELSE Gone
        /\ held["ast"] = IF pc = 3 THEN Ast1(m) ELSE Gone
        /\ held["uxn_program"] = IF pc \in 4 .. 8 THEN Program(m) ELSE Gone
    BY <2>1 DEF CompilerHolds, Variables
  <2>4. \/ pc = 1 /\ now.what = "main.ha" /\ now.into = "tokens"
        \/ pc = 2 /\ now.what = "tokens" /\ now.into = "ast"
        \/ pc = 3 /\ now.what = "ast" /\ now.into = "uxn_program"
        \/ pc \in {4, 8} /\ now.what = "uxn_program" /\ now.into \notin Variables
        \/ now.what \notin Variables /\ now.into \notin Variables
    <3>1. \/ pc = 1 /\ Done(now, "lex", "main.ha", "tokens")
          \/ pc = 2 /\ Done(now, "parse", "tokens", "ast")
          \/ pc = 3 /\ Done(now, "compile", "ast", "uxn_program")
          \/ pc = 4 /\ Done(now, "program", "uxn_program", "code.uxntal")
          \/ pc = 5 /\ Done(now, "say", "compiler", "")
          \/ pc = 6 /\ Done(now, "assemble", "code.uxntal", "code.uxntal.rom")
          \/ pc = 7 /\ Done(now, "execute", "main.ha.rom", "stdout")
          \/ pc = 8 /\ Done(now, "delete", "uxn_program", "")
      <4>1. \/ pc = 1 \/ pc = 2 \/ pc = 3 \/ pc = 4
            \/ pc = 5 \/ pc = 6 \/ pc = 7 \/ pc = 8
        BY <2>1
      <4> QED  BY <1>2, <4>1, CompilerDone DEF now
    <3> QED  BY <3>1 DEF Done, Variables
  <2>5. \/ pc \in {2, 3, 4, 8} /\ held[now.what] # Gone
        \/ now.what \notin Variables
    BY <2>1, <2>2, <2>3, <2>4 DEF Variables
  <2>6. \/ pc \in {1, 2, 3} /\ held[now.into] = Gone
        \/ now.into \notin Variables
    BY <2>1, <2>3, <2>4 DEF Variables
  <2> QED  BY <2>5, <2>6
<1>3. ASSUME outcome = "done" PROVE \A v \in Variables : held[v] = Gone
  <2>1. pc \in 1 .. Len(Script) + 1 /\ ~(pc \in 1 .. Len(Script))
    BY <1>3 DEF DInv, DTypeOK
  <2>2. CASE program = "test"
    <3>0. Len(Script) = 25  BY <2>2, TestScript
    <3>1. pc = 26  BY <2>1, <3>0
    <3>2. held = TestHolds(26, m)  BY <2>2, <3>1 DEF DInv, TestInv
    <3> QED  BY <3>2 DEF TestHolds
  <2>3. CASE program = "compiler"
    <3>0. Len(Script) = 8  BY <2>3, CompilerScript
    <3>1. pc = 9  BY <2>1, <3>0
    <3>2. held = CompilerHolds(9, m)  BY <2>3, <3>1 DEF DInv, CompilerInv
    <3> QED  BY <3>2 DEF CompilerHolds
  <2> QED  BY <1>0, <2>2, <2>3
<1> QED  BY <1>0, <1>1, <1>2, <1>3 DEF HandedOver

-----------------------------------------------------------------------------
(* Both programs, started, killed and run again on any disk, keep to their *)
(* scripts, and their files and comparisons keep their shape.              *)
THEOREM DriverTypeCorrect ==
  ASSUME NEW CONSTANT T, NEW CONSTANT A, NEW CONSTANT P, PartsAre(T, A, P)
  PROVE  DSpec => []DTypeOK
<1>1. DInv => DTypeOK  BY DEF DInv
<1> QED  BY <1>1, InitDInv, NextDInv, PTL DEF DSpec

(* No [OK ...] of test.c or complete_compiler.c is owed to a file that an  *)
(* earlier or a killed run has left.                                       *)
THEOREM DriverOkIsEarned ==
  ASSUME NEW CONSTANT T, NEW CONSTANT A, NEW CONSTANT P, PartsAre(T, A, P)
  PROVE  DSpec => []OkIsEarned
<1> QED  BY EarnedByDInv, InitDInv, NextDInv, PTL DEF DSpec

(* Whatever the main programs hand to a part is there and was not freed,   *)
(* and a run to the end has freed everything.                              *)
THEOREM DriverHandedOver ==
  ASSUME NEW CONSTANT T, NEW CONSTANT A, NEW CONSTANT P, PartsAre(T, A, P)
  PROVE  DSpec => []HandedOver
<1>1. DInv => HandedOver  BY HandedByDInv
<1> QED  BY <1>1, InitDInv, NextDInv, PTL DEF DSpec

(* The fopen calls of the main programs whose result nobody looks at fail  *)
(* only for a file that cannot be written.                                 *)
THEOREM DriverCrashOnlyOnReadOnly ==
  ASSUME NEW CONSTANT T, NEW CONSTANT A, NEW CONSTANT P, PartsAre(T, A, P)
  PROVE  DSpec => []CrashOnlyOnReadOnly
<1>1. DInv => CrashOnlyOnReadOnly  BY DEF DInv
<1> QED  BY <1>1, InitDInv, NextDInv, PTL DEF DSpec
=============================================================================
