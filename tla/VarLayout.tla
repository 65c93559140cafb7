------------------------------ MODULE VarLayout ------------------------------
(***************************************************************************)
(* The variable layout of one function (VariableLayout, compiler.c): two   *)
(* parallel arrays of names and types, appended to by a let, and a linear  *)
(* search that recomputes the address of a variable by adding the sizes of *)
(* the declarations before it in a uint8_t.                                *)
(*                                                                         *)
(* The three expressions that use the layout are its clients:              *)
(*   let x: t = e    append, then look x up and store at its address;      *)
(*   x = e           look x up and store there, found or not;              *)
(*   x               look x up, and give up on the function if not found.  *)
(*                                                                         *)
(* A definition named after another one and a mistake (Skip_NoSum)         *)
(* is that definition with the mistake made, for the properties to find    *)
(* out.  No specification uses it.                                         *)
(***************************************************************************)
EXTENDS Integers, Sequences

CONSTANTS
  Names,     (* the variable names of the function                         *)
  Types,     (* the types a variable may have: "u8", "u16", "void"         *)
  AddrMod,   (* addresses are uint8_t: they wrap at AddrMod (256)          *)
  Garbage,   (* what an uninitialised size may hold                        *)
  MaxVars    (* bound of the model: declarations in one function           *)

ASSUME TypesAssumption   == Types \subseteq {"u8", "u16", "void"}
ASSUME AddrModAssumption == AddrMod \in Nat /\ AddrMod > 0
ASSUME GarbageAssumption == Garbage \subseteq Nat
ASSUME MaxVarsAssumption == MaxVars \in Nat

VARIABLES
  names,     (* names of the declarations, oldest first                    *)
  types,     (* their types                                                *)
  pc,        (* "idle", "scan" (a search is running) or "failed"           *)
  why,       (* who searches: "let", "assign" or "use"                     *)
  wanted,    (* the name searched for                                      *)
  i,         (* the declaration the search looks at                        *)
  addr,      (* the sum of the sizes so far                                *)
  start,     (* history: bytes declared before the k-th declaration        *)
  told,      (* history: the answers given, pairs <<name, address>>        *)
  refused    (* history: the names answered "not defined"                  *)

vars == <<names, types, pc, why, wanted, i, addr, start, told, refused>>

Size(t) == CASE t = "u8" -> 1 [] t = "u16" -> 2 [] OTHER -> 0

(* The values of var_info.size after its two assignments: a void variable  *)
(* takes neither branch and leaves the field uninitialised.                *)
SizeRead_AllOnes(t) == IF t = "void" THEN Garbage ELSE {1}

SizeRead(t) == IF t = "void" THEN Garbage ELSE {Size(t)}

-----------------------------------------------------------------------------
Init ==
  /\ names = <<>>
  /\ types = <<>>
  /\ pc = "idle"
  /\ why = "use"
  /\ wanted \in Names
  /\ i = 1
  /\ addr = 0
  /\ start = <<0>>
  /\ told = {}
  /\ refused = {}

(* The entry of var_layout_get_addr.                                       *)
StartScan(client, n) ==
  /\ pc' = "scan"
  /\ why' = client
  /\ wanted' = n
  /\ i' = 1
  /\ addr' = 0

(* LET_E: var_layout_append and the call of the search.                    *)
Let_Prepend(n, t) ==
  /\ pc = "idle"
  /\ Len(names) < MaxVars
  /\ names' = <<n>> \o names
  /\ types' = <<t>> \o types
  /\ start' = Append(start, start[Len(start)] + Size(t))
  /\ StartScan("let", n)
  /\ UNCHANGED <<told, refused>>

Let(n, t) ==
  /\ pc = "idle"
  /\ Len(names) < MaxVars
  /\ names' = Append(names, n)
  /\ types' = Append(types, t)
  /\ start' = Append(start, start[Len(start)] + Size(t))
  /\ StartScan("let", n)
  /\ UNCHANGED <<told, refused>>

(* ASSIGN_E and VARIABLE_E.                                                *)
Search(client, n) ==
  /\ pc = "idle"
  /\ StartScan(client, n)
  /\ UNCHANGED <<names, types, start, told, refused>>

(* One turn of the loop on a declaration of another name.                  *)
Skip_NoSum ==
  /\ pc = "scan"
  /\ i <= Len(names)
  /\ names[i] # wanted
  /\ addr' = addr
  /\ i' = i + 1
  /\ UNCHANGED <<names, types, pc, why, wanted, start, told, refused>>

Skip_NoWrap ==
  /\ pc = "scan"
  /\ i <= Len(names)
  /\ names[i] # wanted
  /\ \E size \in SizeRead(types[i]) : addr' = addr + size
  /\ i' = i + 1
  /\ UNCHANGED <<names, types, pc, why, wanted, start, told, refused>>

Skip ==
  /\ pc = "scan"
  /\ i <= Len(names)
  /\ names[i] # wanted
  /\ \E size \in SizeRead(types[i]) : addr' = (addr + size) % AddrMod
  /\ i' = i + 1
  /\ UNCHANGED <<names, types, pc, why, wanted, start, told, refused>>

(* The name is found: the sum is the answer.                               *)
Found ==
  /\ pc = "scan"
  /\ i <= Len(names)
  /\ names[i] = wanted
  /\ told' = told \union {<<wanted, addr>>}
  /\ pc' = "idle"
  /\ UNCHANGED <<names, types, why, wanted, i, addr, start, refused>>

(* The end of the arrays: "not defined".  Only VARIABLE_E looks at that    *)
(* field; ASSIGN_E goes on with an address nobody set.                     *)
Missing ==
  /\ pc = "scan"
  /\ i > Len(names)
  /\ refused' = refused \union {wanted}
  /\ pc' = IF why = "use" THEN "failed" ELSE "idle"
  /\ UNCHANGED <<names, types, why, wanted, i, addr, start, told>>

Next ==
  \/ \E n \in Names, t \in Types : Let(n, t)
  \/ \E n \in Names, client \in {"assign", "use"} : Search(client, n)
  \/ Skip
  \/ Found
  \/ Missing

Spec == Init /\ [][Next]_vars

-----------------------------------------------------------------------------
(* The shape of the state: the arrays are parallel and the sum is a byte.  *)
TypeOK ==
  /\ names \in Seq(Names)
  /\ types \in Seq(Types)
  /\ Len(types) = Len(names)
  /\ pc \in {"idle", "scan", "failed"}
  /\ why \in {"let", "assign", "use"}
  /\ wanted \in Names
  /\ i \in 1 .. Len(names) + 1
  /\ addr \in 0 .. AddrMod - 1
  /\ start \in Seq(Nat)
  /\ Len(start) = Len(names) + 1
  /\ told \subseteq Names \X (0 .. AddrMod - 1)
  /\ refused \subseteq Names

Declared(n) == \E k \in 1 .. Len(names) : names[k] = n

(* The declaration every answer about n is about: its first.               *)
First(n) == CHOOSE k \in 1 .. Len(names) :
              names[k] = n /\ \A j \in 1 .. k - 1 : names[j] # n

(* No void variable is declared before the k-th declaration.               *)
Clean(k) == \A j \in 1 .. k - 1 : types[j] # "void"

Top == start[Len(names) + 1]

(* All the answers about one variable are the same address, however many   *)
(* variables are declared in between: the code compiled for a let and the  *)
(* code compiled for a later use meet at the same byte.  A void variable   *)
(* declared before it would void this.                                     *)
StableAnswers ==
  \A p, q \in told :
    p[1] = q[1] /\ Clean(First(p[1])) => p[2] = q[2]

(* Two variables never share a byte, as long as the bytes declared fit the *)
(* zero page: the answer for one is outside the slot of the other.         *)
NoOverlap ==
  Top <= AddrMod =>
    \A p, q \in told :
      /\ p[1] # q[1]
      /\ Clean(First(p[1]))
      /\ Clean(First(q[1]))
      => \/ p[2] + Size(types[First(p[1])]) <= q[2]
         \/ q[2] + Size(types[First(q[1])]) <= p[2]

(* The search that a let makes for the variable it has just appended finds *)
(* it: a let never stores at an address nobody set.                        *)
LetIsDefined == pc = "scan" /\ why = "let" => Declared(wanted)

-----------------------------------------------------------------------------
(* The layout implements the promise of VarAlloc.                          *)
Slots == [n \in {names[k] : k \in 1 .. Len(names)} |-> start[First(n)]]

VoidSeen == ~Clean(Len(names) + 1)

Behind == {n \in DOMAIN Slots : ~Clean(First(n))}

Alloc == INSTANCE VarAlloc
           WITH slot <- Slots, top <- Top, void <- VoidSeen, behind <- Behind

Implements == Alloc!Spec
=============================================================================
