------------------------------ MODULE GrowArray ------------------------------
(***************************************************************************)
(* The growable arrays of the compiler.  Four C structures keep a length   *)
(* and a capacity in unsigned integers of the same width and grow by       *)
(* doubling: Tokens (uint32_t), Ast (uint8_t), VariableLayout (uint8_t)    *)
(* and PartProgram (uint16_t).  What the elements are does not matter      *)
(* here: an operation is described by the two counters it leaves and by    *)
(* how far into the allocated block it wrote.                              *)
(*                                                                         *)
(* A definition named after another one and a mistake (AppendOne_NoResize) *)
(* is that definition with the mistake made, for the properties to find    *)
(* out.  No specification uses it.                                         *)
(***************************************************************************)
EXTENDS Integers

CONSTANTS
  Mod,        (* the counters are unsigned and wrap at Mod                 *)
  Arrays,     (* the kinds of array: eager, grow when len >= cap (Tokens)  *)
              (* and not when cap < len; wide, literals of 0x1000 and more *)
              (* are stored in it (PartProgram)                            *)
  JoinSizes,  (* lengths of the array a concatenation adds; {} if none     *)
  MaxLen      (* bound of the model: no array gets longer than this        *)

ASSUME ModAssumption    == Mod \in Nat /\ Mod > 1
ASSUME ArraysAssumption == Arrays \subseteq [eager : BOOLEAN, wide : BOOLEAN]
ASSUME JoinAssumption   == JoinSizes \subseteq Nat
ASSUME MaxLenAssumption == MaxLen \in Nat /\ MaxLen < Mod

VARIABLES
  array,    (* the kind of this array; it never changes                    *)
  len,      (* number of elements in use                                   *)
  cap,      (* number of elements the allocated block has room for         *)
  touched   (* history: elements 0 .. touched-1 were written by the last op *)

growVars == <<array, len, cap, touched>>

-----------------------------------------------------------------------------
(* The test that decides to grow, and the capacity after it has run once.  *)

MustGrow(n) == IF array.eager THEN n >= cap ELSE cap < n

NextCap_NoWrap(n) ==
  IF MustGrow(n) THEN IF cap = 0 THEN 1 ELSE 2 * cap ELSE cap

NextCap(n) ==
  IF MustGrow(n) THEN IF cap = 0 THEN 1 ELSE (2 * cap) % Mod ELSE cap

-----------------------------------------------------------------------------
GrowInit ==
  /\ array \in Arrays
  /\ len = 0
  /\ cap = 0
  /\ touched = 0

(* append: the length is raised, the block is grown at most once, and the  *)
(* new element is stored in the last place.                                *)
AppendOne_NoResize ==
  /\ len + 1 <= MaxLen
  /\ len' = (len + 1) % Mod
  /\ cap' = cap
  /\ touched' = len'
  /\ UNCHANGED array

AppendOne ==
  /\ len + 1 <= MaxLen
  /\ len' = (len + 1) % Mod
  /\ cap' = NextCap(len')
  /\ touched' = len'
  /\ UNCHANGED array

(* append_number of a value of 0x1000 or more stores two cells after one   *)
(* resize.  It is called right after the literal's opcode was appended to  *)
(* an empty program.                                                       *)
AppendWide_NoResize ==
  /\ array.wide
  /\ len = 1
  /\ len + 2 <= MaxLen
  /\ len' = (len + 2) % Mod
  /\ cap' = cap
  /\ touched' = len'
  /\ UNCHANGED array

AppendWide ==
  /\ array.wide
  /\ len = 1
  /\ len + 2 <= MaxLen
  /\ len' = (len + 2) % Mod
  /\ cap' = NextCap(len')
  /\ touched' = len'
  /\ UNCHANGED array

(* concat_program: the result is a fresh block of exactly the two lengths, *)
(* written completely.                                                     *)
Join_KeepsCap(m) ==
  /\ len + m <= MaxLen
  /\ len' = (len + m) % Mod
  /\ cap' = cap
  /\ touched' = len + m
  /\ UNCHANGED array

Join(m) ==
  /\ len + m <= MaxLen
  /\ len' = (len + m) % Mod
  /\ cap' = len'
  /\ touched' = len + m
  /\ UNCHANGED array

GrowNext ==
  \/ AppendOne
  \/ AppendWide
  \/ \E m \in JoinSizes : Join(m)

GrowSpec == GrowInit /\ [][GrowNext]_growVars

-----------------------------------------------------------------------------
(* Both counters are values of their C type.                               *)
GrowTypeOK ==
  /\ array \in Arrays
  /\ len \in 0 .. Mod - 1
  /\ cap \in 0 .. Mod - 1
  /\ touched \in Nat

(* The longest array the doubling still serves: the block of the next size *)
(* up is the first whose capacity does not fit the counter.                *)
Limit == IF array.eager THEN (Mod - 1) \div 2 ELSE Mod \div 2

(* No append or concatenation stores an element outside the block, up to   *)
(* half the range of the counters (128 functions, 128 variables): one      *)
(* element more and the doubled capacity wraps to 0.  Wide literals are    *)
(* the exception, see OverrunByOne.                                        *)
InBounds == ~array.wide /\ len <= Limit => touched <= cap

(* The block is never more than twice what is used.                        *)
BlockIsProportional == len <= Limit => cap <= 2 * len

(* With wide literals too, a store is at most one cell outside the block:  *)
(* LIT2 leaves a block of one cell, and doubling it once does not make     *)
(* room for three.                                                         *)
OverrunByOne == len <= Limit => touched <= cap + 1

(* The store after an overrun is in bounds again, since the resize compares *)
(* the capacity with the length and not with what was last asked for.       *)
RepairedByNextStore == [][AppendOne /\ len' <= Limit => touched' <= cap']_growVars
=============================================================================
