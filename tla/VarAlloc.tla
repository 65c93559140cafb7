------------------------------ MODULE VarAlloc ------------------------------
(***************************************************************************)
(* What the variable layout of the compiler promises to the code           *)
(* generator: every variable of a function gets a slot of its own in the   *)
(* zero page when it is first declared, and every later question about it  *)
(* is answered with that slot.  VarLayout is the code's way of keeping the *)
(* promise: it stores no address and sums sizes again at every question.   *)
(* A variable of type void has no size, and nothing is promised about the  *)
(* variables first declared behind one.                                    *)
(***************************************************************************)
EXTENDS Integers

CONSTANTS
  Names,     (* the variable names of the function                         *)
  Types,     (* the types a variable may have: "u8", "u16", "void"         *)
  AddrMod    (* addresses are uint8_t: they wrap at AddrMod (256)          *)

VARIABLES
  slot,      (* the first byte of every declared name                      *)
  top,       (* bytes handed out so far                                    *)
  void,      (* a void variable has been declared                          *)
  behind,    (* the names first declared after one                         *)
  told,      (* the answers given so far: pairs <<name, address>>          *)
  refused    (* the names answered "not defined" so far                    *)

vars == <<slot, top, void, behind, told, refused>>

(* Bytes a variable of type t takes.                                       *)
Size(t) == CASE t = "u8" -> 1 [] t = "u16" -> 2 [] OTHER -> 0

Init ==
  /\ slot = [n \in {} |-> 0]
  /\ top = 0
  /\ void = FALSE
  /\ behind = {}
  /\ told = {}
  /\ refused = {}

(* A redeclared name keeps its first slot; the bytes of the second         *)
(* declaration are handed out and lost.                                    *)
Declare(n, t) ==
  /\ slot' = [m \in DOMAIN slot \union {n} |->
                IF m \in DOMAIN slot THEN slot[m] ELSE top]
  /\ top' = top + Size(t)
  /\ void' = (void \/ t = "void")
  /\ behind' = IF void /\ n \notin DOMAIN slot THEN behind \union {n} ELSE behind
  /\ UNCHANGED <<told, refused>>

Answer(n) ==
  /\ n \in DOMAIN slot
  /\ \E a \in IF n \in behind THEN 0 .. AddrMod - 1 ELSE {slot[n] % AddrMod} :
       told' = told \union {<<n, a>>}
  /\ UNCHANGED <<slot, top, void, behind, refused>>

Refuse(n) ==
  /\ n \notin DOMAIN slot
  /\ refused' = refused \union {n}
  /\ UNCHANGED <<slot, top, void, behind, told>>

Next ==
  \E n \in Names :
    \/ \E t \in Types : Declare(n, t)
    \/ Answer(n)
    \/ Refuse(n)

Spec == Init /\ [][Next]_vars
=============================================================================
