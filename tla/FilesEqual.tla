----------------------------- MODULE FilesEqual -----------------------------
(***************************************************************************)
(* files_equal (utils/files.c): two files are read side by side into two   *)
(* buffers, a piece of a line at a time, and the pieces are compared as    *)
(* C strings.  A piece ends behind a newline, at the end of the file, or   *)
(* when the buffer holds BuffSize - 1 characters.                          *)
(*                                                                         *)
(* One step is the two calls of fgets, or one turn of the comparing loop.  *)
(* The test program calls it several times, on files of its own choosing.  *)
(*                                                                         *)
(* A definition named after another one and a mistake (BothEnded_Either)   *)
(* is that definition with the mistake made, for the properties to find    *)
(* out.  No specification uses it.                                         *)
(***************************************************************************)
EXTENDS Integers, Sequences

CONSTANTS
  Char,       (* the characters of files                                   *)
  Nul,        (* the character that ends a C string                        *)
  Newline,    (* the character that ends a line                            *)
  BuffSize    (* room of a buffer, with the NUL that ends it (100)         *)

ASSUME CharAssumption     == Nul \in Char /\ Newline \in Char /\ Nul # Newline
ASSUME BuffSizeAssumption == BuffSize \in Nat /\ BuffSize > 1

Text == Seq(Char)

VARIABLES
  file1, file2,  (* what is in the two files                               *)
  from1, from2,  (* where the piece in the buffer begins                   *)
  read1, read2,  (* how many characters have been read                     *)
  i,             (* the place in the buffers the comparison is at          *)
  at             (* "idle", "read", "compare"; the answer "yes" or "no"    *)

feVars == <<file1, file2, from1, from2, read1, read2, i, at>>

-----------------------------------------------------------------------------
(* fgets: the last character of the piece that begins behind from.         *)
Stops_NoRoom(file, from, e) ==
  file[e] = Newline \/ e - from = BuffSize \/ e = Len(file)

Stops(file, from, e) ==
  file[e] = Newline \/ e - from = BuffSize - 1 \/ e = Len(file)

PieceEnd(file, from) ==
  CHOOSE e \in from + 1 .. Len(file) :
    Stops(file, from, e) /\ \A d \in from + 1 .. e - 1 : ~Stops(file, from, d)

(* The characters of the buffers; behind the piece is the NUL of fgets.    *)
Buffered(file, from, read) ==
  IF from + i < read THEN file[from + i + 1] ELSE Nul

buff1 == Buffered(file1, from1, read1)
buff2 == Buffered(file2, from2, read2)

Running == at \in {"read", "compare"}

-----------------------------------------------------------------------------
Init ==
  /\ file1 = <<>> /\ file2 = <<>>
  /\ from1 = 0 /\ from2 = 0
  /\ read1 = 0 /\ read2 = 0
  /\ i = 0
  /\ at = "idle"

(* files_equal(f1, f2) on two files that were just opened.                 *)
Call(f1, f2) ==
  /\ ~Running
  /\ file1' = f1 /\ file2' = f2
  /\ from1' = 0 /\ from2' = 0
  /\ read1' = 0 /\ read2' = 0
  /\ i' = 0
  /\ at' = "read"

(* Both calls of fgets return a piece.                                     *)
ReadPieces ==
  /\ at = "read"
  /\ read1 < Len(file1) /\ read2 < Len(file2)
  /\ from1' = read1 /\ from2' = read2
  /\ read1' = PieceEnd(file1, read1) /\ read2' = PieceEnd(file2, read2)
  /\ i' = 0
  /\ at' = "compare"
  /\ UNCHANGED <<file1, file2>>

Answer(a) ==
  /\ at' = a
  /\ UNCHANGED <<file1, file2, from1, from2, read1, read2, i>>

(* Both return NULL.                                                       *)
BothEnded_Either ==
  /\ at = "read"
  /\ read1 = Len(file1) \/ read2 = Len(file2)
  /\ Answer("yes")

BothEnded ==
  /\ at = "read"
  /\ read1 = Len(file1) /\ read2 = Len(file2)
  /\ Answer("yes")

(* One of them does.                                                       *)
OneEnded ==
  /\ at = "read"
  /\ (read1 = Len(file1)) # (read2 = Len(file2))
  /\ Answer("no")

(* A turn of the loop on two characters that are the same.                 *)
SameChar_Stays ==
  /\ at = "compare"
  /\ i < BuffSize
  /\ buff1 = buff2 /\ buff1 # Nul
  /\ i' = i
  /\ UNCHANGED <<file1, file2, from1, from2, read1, read2, at>>

SameChar ==
  /\ at = "compare"
  /\ i < BuffSize
  /\ buff1 = buff2 /\ buff1 # Nul
  /\ i' = i + 1
  /\ UNCHANGED <<file1, file2, from1, from2, read1, read2, at>>

(* Both strings end, or the buffers do: the next pieces.                   *)
PiecesOver ==
  /\ at = "compare"
  /\ i < BuffSize => buff1 = Nul /\ buff2 = Nul
  /\ Answer("read")

DifferentChar ==
  /\ at = "compare"
  /\ i < BuffSize
  /\ buff1 # buff2
  /\ Answer("no")

feStep ==
  \/ ReadPieces
  \/ BothEnded
  \/ OneEnded
  \/ SameChar
  \/ PiecesOver
  \/ DifferentChar

Next == feStep \/ \E f1, f2 \in Text : Call(f1, f2)

Spec == Init /\ [][Next]_feVars

-----------------------------------------------------------------------------
(* The shape of the state: a piece and its NUL fit the buffer, and neither *)
(* the buffers nor the files are read past their end.                      *)
TypeOK ==
  /\ file1 \in Text /\ file2 \in Text
  /\ read1 \in 0 .. Len(file1) /\ read2 \in 0 .. Len(file2)
  /\ from1 \in 0 .. read1 /\ from2 \in 0 .. read2
  /\ read1 - from1 < BuffSize /\ read2 - from2 < BuffSize
  /\ i \in 0 .. BuffSize - 1
  /\ at \in {"idle", "read", "compare", "yes", "no"}

IsText(file) == \A k \in 1 .. Len(file) : file[k] # Nul

(* Two files that are called different are different, and two files that   *)
(* are called equal are equal, wherever the pieces end, when there is no   *)
(* NUL in them: what follows a NUL up to the end of the piece is not       *)
(* compared.                                                               *)
AnswerIsRight ==
  /\ at = "no" => file1 # file2
  /\ at = "yes" /\ IsText(file1) /\ IsText(file2) => file1 = file2
=============================================================================
