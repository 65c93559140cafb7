-------------------------------- MODULE MCLink --------------------------------
(* Lists of functions for the model checker.                               *)
EXTENDS Link

Fns(lens) == [name : {"main", "other"}, len : lens, vars : BOOLEAN]

UpTo(S, n) == UNION {[1 .. k -> S] : k \in 0 .. n}

SmallAsts == UpTo(Fns(0 .. 2), 3)

(* Functions before one main, long enough to overlap and to wrap.          *)
ManyBeforeMain ==
  {[k \in 1 .. Len(s) + 1 |->
      IF k <= Len(s) THEN [name |-> "other", len |-> s[k], vars |-> FALSE]
                     ELSE [name |-> "main", len |-> m, vars |-> TRUE]] :
     s \in UpTo(1 .. 4, 3), m \in 1 .. 3}

AllAsts == SmallAsts \union ManyBeforeMain

SomeAddresses == {0, 5, 15}
=============================================================================
