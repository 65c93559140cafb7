----------------------------- MODULE Lexer_proofs -----------------------------
(***************************************************************************)
(* Proofs about the reader of lexer.c, the positions of tokens, the texts  *)
(* that are allocated and what the tokens mean, for every file, every size *)
(* of the buffer and every width of lengths and positions.                 *)
(***************************************************************************)
EXTENDS Lexer, CommonLemmas, FiniteSetTheorems, SequenceTheorems, TLAPS

-----------------------------------------------------------------------------
LEMMA Sizes ==
  /\ BuffSize \in Nat /\ BuffSize > 1
  /\ LenMod \in Nat /\ LenMod > 1
  /\ PosMod \in Nat /\ PosMod > 1
BY SizesAssumption DEF SizesAssumption

(* The characters of the file, and the terminator.                         *)
Alphabet == {text[k] : k \in DOMAIN text} \union {Nul}

(* A fill takes at least one character, and fits in the buffer.            *)
LEMMA LineEndIs ==
  ASSUME NEW rest \in Seq(Alphabet), Len(rest) > 0
  PROVE  /\ LineEnd(rest) \in 1 .. Len(rest)
         /\ LineEnd(rest) <= BuffSize - 1
<1> DEFINE T == {n \in 1 .. Len(rest) :
                   n = Len(rest) \/ n = BuffSize - 1 \/ rest[n] = Newline}
           Is(n) == /\ n = Len(rest) \/ n = BuffSize - 1 \/ rest[n] = Newline
                    /\ \A k \in 1 .. n - 1 : k # BuffSize - 1 /\ rest[k] # Newline
<1>1. Len(rest) \in Nat  BY LenProperties
<1>2. Len(rest) \in T /\ T \subseteq Nat  BY <1>1
<1>3. PICK n \in T : \A y \in T : n <= y  BY <1>2, Least
<1>4. \A k \in 1 .. n - 1 : k \in 1 .. Len(rest) /\ k \notin T  BY <1>1, <1>3
<1>5. n \in 1 .. Len(rest) /\ Is(n)  BY <1>3, <1>4
<1>6. LineEnd(rest) = CHOOSE m \in 1 .. Len(rest) : Is(m)  BY DEF LineEnd
<1>7. LineEnd(rest) \in 1 .. Len(rest) /\ Is(LineEnd(rest))  BY <1>5, <1>6
<1>8. LineEnd(rest) <= BuffSize - 1
  <2> DEFINE m == LineEnd(rest)
  <2>1. m \in Nat /\ m >= 1 /\ \A k \in 1 .. m - 1 : k # BuffSize - 1
    BY <1>1, <1>7
  <2> HIDE DEF m
  <2>2. ~(BuffSize - 1 \in 1 .. m - 1)  BY <2>1
  <2>3. m <= BuffSize - 1  BY <2>1, <2>2, Sizes
  <2> QED  BY <2>3 DEF m
<1> QED  BY <1>7, <1>8

-----------------------------------------------------------------------------
(* The reader, whatever the file holds.                                    *)
Reader == [rest : Seq(Alphabet), buff : Seq(Alphabet), pos : Nat, line : Nat,
           column : Nat, c : Alphabet, read : Nat]

Sound(r) ==
  /\ r \in Reader
  /\ Len(r.buff) \in 1 .. BuffSize
  /\ r.buff[Len(r.buff)] = Nul
  /\ r.pos < Len(r.buff)
  /\ r.line < PosMod /\ r.column < PosMod

(* The reader on a file without a zero: where its buffer was cut from the  *)
(* file, and how far it is.                                                *)
Before(r) == Len(text) - Len(r.rest) - (Len(r.buff) - 1)

Cut(r) ==
  /\ Before(r) \in Nat
  /\ \A k \in 1 .. Len(r.buff) - 1 : r.buff[k] = text[Before(r) + k]
  /\ \A k \in 1 .. Len(r.rest) : r.rest[k] = text[Len(text) - Len(r.rest) + k]
  /\ r.read = Before(r) + r.pos
  /\ <<r.line, r.column>> = Place(r.read)

Synchronous(r) ==
  \/ r.read > 0 /\ r.c = text[r.read]
  \/ r.read = Len(text) /\ r.c = Nul

(* A fill.                                                                 *)
LEMMA RefilledIs ==
  ASSUME NEW r \in Reader, Len(r.rest) > 0
  PROVE  LET n == LineEnd(r.rest)
             s == Refilled(r)
         IN  /\ s \in Reader /\ s.pos = 1 /\ Len(s.buff) = n + 1
             /\ s.buff[n + 1] = Nul
             /\ \A k \in 1 .. n : s.buff[k] = r.rest[k]
             /\ Len(s.rest) = Len(r.rest) - n
             /\ \A k \in 1 .. Len(s.rest) : s.rest[k] = r.rest[n + k]
             /\ s.line = r.line /\ s.column = r.column /\ s.c = r.c /\ s.read = r.read
<1> DEFINE n == LineEnd(r.rest)
           s == Refilled(r)
           q == r.rest
           a == SubSeq(q, 1, n)
           b == SubSeq(q, n + 1, Len(q))
<1>1. q \in Seq(Alphabet) /\ Len(q) \in Nat /\ \A k \in 1 .. Len(q) : q[k] \in Alphabet
  BY LenProperties DEF Reader
<1>2. n \in 1 .. Len(q)  BY <1>1, LineEndIs
<1> HIDE DEF n, q
<1>3. /\ a \in Seq(Alphabet) /\ Len(a) = n
      /\ \A k \in 1 .. n : a[k] = q[k]
  BY <1>1, <1>2
<1>4. /\ b \in Seq(Alphabet) /\ Len(b) = Len(q) - n
      /\ \A k \in 1 .. Len(q) - n : b[k] = q[n + k]
  BY <1>1, <1>2
<1> HIDE DEF a, b
<1>5. /\ a \o <<Nul>> \in Seq(Alphabet) /\ Len(a \o <<Nul>>) = n + 1
      /\ \A k \in 1 .. n : (a \o <<Nul>>)[k] = q[k]
      /\ (a \o <<Nul>>)[n + 1] = Nul
  <2> DEFINE z == <<Nul>>
  <2>1. z \in Seq(Alphabet) /\ Len(z) = 1 /\ z[1] = Nul
    <3>1. Nul \in Alphabet  BY DEF Alphabet
    <3> QED  BY <3>1
  <2> HIDE DEF z
  <2>2. /\ a \o z \in Seq(Alphabet) /\ Len(a \o z) = Len(a) + Len(z)
        /\ \A k \in 1 .. Len(a) + Len(z) :
             (a \o z)[k] = IF k <= Len(a) THEN a[k] ELSE z[k - Len(a)]
    BY <1>3, <2>1, ConcatProperties
  <2>3. n \in Nat /\ n + 1 - n = 1 /\ n + 1 \in 1 .. n + 1  BY <1>1, <1>2
  <2>4. /\ Len(a \o z) = n + 1
        /\ \A k \in 1 .. n : (a \o z)[k] = q[k]
        /\ (a \o z)[n + 1] = Nul
    BY <1>3, <2>1, <2>2, <2>3
  <2> QED  BY <2>2, <2>4 DEF z
<1>6. /\ s.buff = a \o <<Nul>> /\ s.rest = b /\ s.pos = 1
      /\ s.line = r.line /\ s.column = r.column /\ s.c = r.c /\ s.read = r.read
      /\ s \in Reader
  <2> DEFINE z == a \o <<Nul>>
             s1 == [r EXCEPT !.buff = z]
             s2 == [s1 EXCEPT !.rest = b]
             s3 == [s2 EXCEPT !.pos = 1]
  <2>1. s = s3  BY DEF Refilled, a, b, n, q
  <2>2. z \in Seq(Alphabet)  BY <1>5
  <2> HIDE DEF z
  <2>3. /\ s1 \in Reader /\ s1.buff = z /\ s1.rest = r.rest /\ s1.pos = r.pos
        /\ s1.line = r.line /\ s1.column = r.column /\ s1.c = r.c /\ s1.read = r.read
    BY <2>2 DEF Reader
  <2> HIDE DEF s1
  <2>4. /\ s2 \in Reader /\ s2.buff = z /\ s2.rest = b /\ s2.pos = r.pos
        /\ s2.line = r.line /\ s2.column = r.column /\ s2.c = r.c /\ s2.read = r.read
    BY <1>4, <2>3 DEF Reader
  <2> HIDE DEF s2
  <2>5. /\ s3 \in Reader /\ s3.buff = z /\ s3.rest = b /\ s3.pos = 1
        /\ s3.line = r.line /\ s3.column = r.column /\ s3.c = r.c /\ s3.read = r.read
    BY <2>4 DEF Reader
  <2> HIDE DEF s3, s
  <2> QED  BY <2>1, <2>5 DEF z
<1> HIDE DEF s
<1>7. /\ Len(s.buff) = n + 1 /\ s.buff[n + 1] = Nul
      /\ \A k \in 1 .. n : s.buff[k] = q[k]
      /\ Len(s.rest) = Len(q) - n
      /\ \A k \in 1 .. Len(s.rest) : s.rest[k] = q[n + k]
  BY <1>4, <1>5, <1>6
<1> QED  BY <1>6, <1>7 DEF s, n, q

(* A character is given.                                                   *)
LEMMA GivenIs ==
  ASSUME NEW r \in Reader, r.buff[r.pos] \in Alphabet
  PROVE  LET g == Given(r) IN
         /\ g \in Reader
         /\ g.rest = r.rest /\ g.buff = r.buff /\ g.pos = r.pos
         /\ g.c = r.buff[r.pos] /\ g.read = r.read + 1
         /\ g.line = (IF g.c = Newline THEN (r.line + 1) % PosMod ELSE r.line)
         /\ g.column = (IF g.c = Newline THEN 0 ELSE (r.column + 1) % PosMod)
<1> DEFINE c == r.buff[r.pos]
           l == IF c = Newline THEN (r.line + 1) % PosMod ELSE r.line
           m == IF c = Newline THEN 0 ELSE (r.column + 1) % PosMod
           s1 == [r EXCEPT !.c = c]
           s2 == [s1 EXCEPT !.line = IF c = Newline THEN (@ + 1) % PosMod ELSE @]
           s3 == [s2 EXCEPT !.column = IF c = Newline THEN 0 ELSE (@ + 1) % PosMod]
           s4 == [s3 EXCEPT !.read = @ + 1]
           g == Given(r)
<1>1. g = s4  BY DEF Given
<1>2. c \in Alphabet /\ l \in Nat /\ m \in Nat
  BY Sizes DEF Reader
<1> HIDE DEF c, g
<1>3. /\ s1 \in Reader /\ s1.c = c /\ s1.buff = r.buff /\ s1.rest = r.rest
      /\ s1.pos = r.pos /\ s1.line = r.line /\ s1.column = r.column /\ s1.read = r.read
  BY <1>2 DEF Reader
<1> HIDE DEF s1
<1>4. s2 = [s1 EXCEPT !.line = l]  BY <1>3
<1> HIDE DEF s2, l
<1>5. /\ s2 \in Reader /\ s2.c = c /\ s2.buff = r.buff /\ s2.rest = r.rest
      /\ s2.pos = r.pos /\ s2.line = l /\ s2.column = r.column /\ s2.read = r.read
  BY <1>2, <1>3, <1>4 DEF Reader
<1>6. s3 = [s2 EXCEPT !.column = m]  BY <1>5
<1> HIDE DEF s3, m
<1>7. /\ s3 \in Reader /\ s3.c = c /\ s3.buff = r.buff /\ s3.rest = r.rest
      /\ s3.pos = r.pos /\ s3.line = l /\ s3.column = m /\ s3.read = r.read
  BY <1>2, <1>5, <1>6 DEF Reader
<1>8. s4 = [s3 EXCEPT !.read = r.read + 1] /\ r.read + 1 \in Nat
  BY <1>7 DEF Reader
<1> HIDE DEF s3, s4
<1>9. /\ s4 \in Reader /\ s4.c = c /\ s4.buff = r.buff /\ s4.rest = r.rest
      /\ s4.pos = r.pos /\ s4.line = l /\ s4.column = m /\ s4.read = r.read + 1
  BY <1>7, <1>8 DEF Reader
<1> QED  BY <1>1, <1>9 DEF g, l, m, c

(* The three cases of next_char: one place further in the buffer, the      *)
(* first of the next fill, or the end of the file.                         *)
Further(r) == [r EXCEPT !.pos = @ + 1]

LEMMA FurtherIs ==
  ASSUME NEW r \in Reader
  PROVE  LET s == Further(r) IN
         /\ s \in Reader /\ s.pos = r.pos + 1
         /\ s.rest = r.rest /\ s.buff = r.buff /\ s.line = r.line
         /\ s.column = r.column /\ s.c = r.c /\ s.read = r.read
BY DEF Reader, Further

LEMMA ReaderHas ==
  ASSUME NEW r \in Reader
  PROVE  /\ Len(r.buff) \in Nat /\ \A k \in 1 .. Len(r.buff) : r.buff[k] \in Alphabet
         /\ Len(r.rest) \in Nat /\ \A k \in 1 .. Len(r.rest) : r.rest[k] \in Alphabet
BY LenProperties DEF Reader

Moves(r, s) ==
  /\ s \in Reader
  /\ s.read = r.read + 1 /\ s.c = s.buff[s.pos]
  /\ s.line = (IF s.c = Newline THEN (r.line + 1) % PosMod ELSE r.line)
  /\ s.column = (IF s.c = Newline THEN 0 ELSE (r.column + 1) % PosMod)
  /\ \/ /\ s.buff = r.buff /\ s.rest = r.rest /\ s.pos = r.pos + 1
        /\ s.c # Nul
     \/ LET n == LineEnd(r.rest) IN
        /\ r.buff[r.pos + 1] = Nul /\ Len(r.rest) > 0
        /\ s.pos = 1 /\ Len(s.buff) = n + 1 /\ s.buff[n + 1] = Nul
        /\ n \in 1 .. Len(r.rest) /\ n <= BuffSize - 1
        /\ \A k \in 1 .. n : s.buff[k] = r.rest[k]
        /\ Len(s.rest) = Len(r.rest) - n
        /\ \A k \in 1 .. Len(s.rest) : s.rest[k] = r.rest[n + k]

AtEnd(r, s) ==
  /\ r.buff[r.pos + 1] = Nul /\ r.rest = <<>>
  /\ s = [r EXCEPT !.c = Nul]

LEMMA NextCharIs ==
  ASSUME NEW r \in Reader, r.pos < Len(r.buff)
  PROVE  Moves(r, NextChar(r)) \/ AtEnd(r, NextChar(r))
<1>0. r.pos + 1 \in 1 .. Len(r.buff)  BY ReaderHas DEF Reader
<1>1. CASE r.buff[r.pos + 1] # Nul
  <2> DEFINE f == Further(r)
             s == Given(f)
  <2>1. NextChar(r) = s  BY <1>1 DEF NextChar, Further
  <2>2. /\ f \in Reader /\ f.pos = r.pos + 1 /\ f.rest = r.rest /\ f.buff = r.buff
        /\ f.line = r.line /\ f.column = r.column /\ f.read = r.read
    BY FurtherIs
  <2>3. f.buff[f.pos] \in Alphabet  BY <1>0, <2>2, ReaderHas
  <2> HIDE DEF f
  <2>4. /\ s \in Reader
        /\ s.rest = f.rest /\ s.buff = f.buff /\ s.pos = f.pos
        /\ s.c = f.buff[f.pos] /\ s.read = f.read + 1
        /\ s.line = (IF s.c = Newline THEN (f.line + 1) % PosMod ELSE f.line)
        /\ s.column = (IF s.c = Newline THEN 0 ELSE (f.column + 1) % PosMod)
    BY <2>2, <2>3, GivenIs
  <2> HIDE DEF s
  <2>5. Moves(r, s)  BY <1>1, <2>2, <2>4 DEF Moves
  <2> QED  BY <2>1, <2>5
<1>2. CASE r.buff[r.pos + 1] = Nul /\ r.rest # <<>>
  <2> DEFINE n == LineEnd(r.rest)
             f == Refilled(r)
             s == Given(f)
  <2>1. NextChar(r) = s  BY <1>2 DEF NextChar
  <2>2. r.rest \in Seq(Alphabet) /\ Len(r.rest) > 0
    BY <1>2, EmptySeq DEF Reader
  <2>3. n \in 1 .. Len(r.rest) /\ n <= BuffSize - 1  BY <2>2, LineEndIs
  <2>4. /\ f \in Reader /\ f.pos = 1 /\ Len(f.buff) = n + 1
        /\ f.buff[n + 1] = Nul
        /\ \A k \in 1 .. n : f.buff[k] = r.rest[k]
        /\ Len(f.rest) = Len(r.rest) - n
        /\ \A k \in 1 .. Len(f.rest) : f.rest[k] = r.rest[n + k]
        /\ f.line = r.line /\ f.column = r.column /\ f.c = r.c /\ f.read = r.read
    BY <2>2, RefilledIs
  <2> HIDE DEF f, n
  <2>5. f.buff[f.pos] \in Alphabet
    <3>1. 1 \in 1 .. Len(f.buff)  BY <2>3, <2>4, ReaderHas
    <3> QED  BY <2>4, <3>1, ReaderHas
  <2>6. /\ s \in Reader
        /\ s.rest = f.rest /\ s.buff = f.buff /\ s.pos = f.pos
        /\ s.c = f.buff[f.pos] /\ s.read = f.read + 1
        /\ s.line = (IF s.c = Newline THEN (f.line + 1) % PosMod ELSE f.line)
        /\ s.column = (IF s.c = Newline THEN 0 ELSE (f.column + 1) % PosMod)
    BY <2>4, <2>5, GivenIs
  <2> HIDE DEF s
  <2>7. Moves(r, s)  BY <1>2, <2>2, <2>3, <2>4, <2>6 DEF Moves, n
  <2> QED  BY <2>1, <2>7
<1>3. CASE r.buff[r.pos + 1] = Nul /\ r.rest = <<>>
  BY <1>3 DEF NextChar, AtEnd
<1> QED  BY <1>1, <1>2, <1>3

(* The place in the buffer stays inside it.                                *)
LEMMA NextCharSound ==
  ASSUME NEW r, Sound(r)
  PROVE  Sound(NextChar(r))
<1> DEFINE s == NextChar(r)
<1>1. r \in Reader /\ r.pos < Len(r.buff)  BY DEF Sound
<1>2. Moves(r, s) \/ AtEnd(r, s)  BY <1>1, NextCharIs
<1> SUFFICES Sound(s)
  OBVIOUS
<1> HIDE DEF s
<1>3. CASE AtEnd(r, s)
  <2>1. /\ s \in Reader /\ s.buff = r.buff /\ s.pos = r.pos
        /\ s.line = r.line /\ s.column = r.column
    <3>1. Nul \in Alphabet  BY DEF Alphabet
    <3> QED  BY <1>1, <1>3, <3>1 DEF AtEnd, Reader
  <2> QED  BY <2>1 DEF Sound
<1>4. CASE Moves(r, s)
  <2>1. s.line < PosMod /\ s.column < PosMod
    <3>1. r.line \in Nat /\ r.column \in Nat /\ r.line < PosMod
      BY DEF Sound, Reader
    <3>2. (r.line + 1) % PosMod < PosMod /\ (r.column + 1) % PosMod < PosMod
      BY <3>1, Sizes, DivMod
    <3> QED  BY <1>4, <3>1, <3>2, Sizes DEF Moves
  <2>2. /\ Len(s.buff) \in 1 .. BuffSize
        /\ s.buff[Len(s.buff)] = Nul
        /\ s.pos < Len(s.buff)
    <3>1. CASE s.buff = r.buff /\ s.rest = r.rest /\ s.pos = r.pos + 1 /\ s.c # Nul
      <4>1. s.c = r.buff[r.pos + 1] /\ r.buff[Len(r.buff)] = Nul
        BY <1>4, <3>1 DEF Moves, Sound
      <4>2. r.pos + 1 # Len(r.buff)  BY <3>1, <4>1
      <4>3. r.pos \in Nat /\ Len(r.buff) \in 1 .. BuffSize /\ r.pos < Len(r.buff)
        BY DEF Sound, Reader
      <4> QED  BY <3>1, <4>1, <4>2, <4>3
    <3>2. CASE ~(s.buff = r.buff /\ s.rest = r.rest /\ s.pos = r.pos + 1 /\ s.c # Nul)
      <4> DEFINE n == LineEnd(r.rest)
      <4>1. /\ s.pos = 1 /\ Len(s.buff) = n + 1 /\ s.buff[n + 1] = Nul
            /\ n \in 1 .. Len(r.rest) /\ n <= BuffSize - 1
        BY <1>4, <3>2 DEF Moves
      <4> HIDE DEF n
      <4>2. Len(r.rest) \in Nat  BY <1>1, ReaderHas
      <4> QED  BY <4>1, <4>2, Sizes
    <3> QED  BY <3>1, <3>2
  <2>3. s \in Reader  BY <1>4 DEF Moves
  <2> QED  BY <2>1, <2>2, <2>3 DEF Sound
<1> QED  BY <1>2, <1>3, <1>4

-----------------------------------------------------------------------------
(* One character further, the line and the column are those of the place   *)
(* one further.                                                            *)
LEMMA WrapNext ==
  ASSUME NEW d \in Nat
  PROVE  ((d % PosMod) + 1) % PosMod = (d + 1) % PosMod
<1>1. PosMod \in Nat /\ PosMod > 0 /\ 1 \in Nat  BY Sizes
<1> QED  BY <1>1, WrapOnce, Zenon

LEMMA PlaceMoves ==
  ASSUME NEW n \in Nat, n + 1 <= Len(text), Len(text) \in Nat, NEW l, NEW m,
         <<l, m>> = Place(n)
  PROVE  <<IF text[n + 1] = Newline THEN (l + 1) % PosMod ELSE l,
           IF text[n + 1] = Newline THEN 0 ELSE (m + 1) % PosMod>> = Place(n + 1)
<1> DEFINE N(j) == {k \in 1 .. j : text[k] = Newline}
           Last(j) == CHOOSE k \in N(j) \union {0} : \A i \in N(j) : i <= k
           p == n + 1
<1> SUFFICES <<IF text[p] = Newline THEN (l + 1) % PosMod ELSE l,
               IF text[p] = Newline THEN 0 ELSE (m + 1) % PosMod>> = Place(p)
  OBVIOUS
<1>0. p = n + 1 /\ p \in Nat  OBVIOUS
<1> HIDE DEF p
<1>1. /\ Place(n) = <<(1 + Cardinality(N(n))) % PosMod, (n - Last(n)) % PosMod>>
      /\ Place(p) = <<(1 + Cardinality(N(p))) % PosMod, (p - Last(p)) % PosMod>>
  BY DEF Place
<1>2. IsFiniteSet(N(n)) /\ Cardinality(N(n)) \in Nat
  <2>1. IsFiniteSet(1 .. n)  BY FS_Interval
  <2>2. N(n) \subseteq 1 .. n  OBVIOUS
  <2> QED  BY <2>1, <2>2, FS_Subset, FS_CardinalityType
<1>3. l = (1 + Cardinality(N(n))) % PosMod /\ m = (n - Last(n)) % PosMod
  BY <1>1
<1>4. CASE text[p] = Newline
  <2>1. N(p) = N(n) \union {p}  BY <1>0, <1>4
  <2>2. Cardinality(N(p)) = Cardinality(N(n)) + 1
    <3>1. p \notin N(n)  BY <1>0
    <3> HIDE DEF N
    <3> QED  BY <1>2, <2>1, <3>1, FS_AddElement
  <2>3. Last(p) = p
    <3>1. p \in N(p)  BY <2>1
    <3>2. \A i \in N(p) : i <= p  BY <1>0
    <3>3. N(p) \subseteq Nat  OBVIOUS
    <3> HIDE DEF N
    <3>4. /\ Last(p) \in N(p) \union {0}
          /\ \A i \in N(p) : i <= Last(p)
      BY <3>1, <3>2
    <3> HIDE DEF Last
    <3>5. Last(p) \in Nat /\ p <= Last(p) /\ Last(p) <= p
      BY <1>0, <3>1, <3>2, <3>3, <3>4
    <3> QED  BY <1>0, <3>5
  <2> HIDE DEF N, Last
  <2>4. (l + 1) % PosMod = (1 + Cardinality(N(p))) % PosMod
    <3> DEFINE c == Cardinality(N(n))
    <3>1. c + 1 \in Nat /\ c \in Nat /\ l = (c + 1) % PosMod  BY <1>2, <1>3
    <3> HIDE DEF c
    <3>2. (((c + 1) % PosMod) + 1) % PosMod = (c + 1 + 1) % PosMod
      BY <3>1, WrapNext
    <3>3. Cardinality(N(p)) = c + 1  BY <2>2 DEF c
    <3>4. 1 + (c + 1) = c + 1 + 1  BY <3>1
    <3> QED  BY <1>0, <3>1, <3>2, <3>3, <3>4
  <2>5. (p - Last(p)) % PosMod = 0
    <3>1. p - Last(p) = 0  BY <1>0, <2>3
    <3>2. 0 % PosMod = 0  BY Sizes
    <3> QED  BY <3>1, <3>2
  <2> QED  BY <1>1, <1>4, <2>4, <2>5
<1>5. CASE text[p] # Newline
  <2>1. N(p) = N(n)  BY <1>0, <1>5
  <2>2. Last(p) = Last(n)  BY <2>1
  <2>3. Last(n) \in 0 .. n
    <3> DEFINE T == {n - k : k \in N(n) \union {0}}
    <3>1. T \subseteq Nat /\ T # {}  OBVIOUS
    <3>2. PICK x \in T : \A y \in T : x <= y  BY <3>1, Least
    <3>3. PICK k \in N(n) \union {0} : x = n - k  BY <3>2
    <3>4. \A i \in N(n) : i <= k
      <4> SUFFICES ASSUME NEW i \in N(n) PROVE i <= k
        OBVIOUS
      <4>1. n - i \in T  OBVIOUS
      <4>2. n - k <= n - i  BY <3>2, <3>3, <4>1
      <4>3. i \in Nat /\ k \in Nat  BY <3>3
      <4> QED  BY <4>2, <4>3
    <3>5. N(n) \union {0} \subseteq 0 .. n  OBVIOUS
    <3> HIDE DEF N
    <3>6. Last(n) \in N(n) \union {0}  BY <3>3, <3>4
    <3> QED  BY <3>5, <3>6
  <2> HIDE DEF N, Last
  <2>4. (m + 1) % PosMod = (p - Last(p)) % PosMod
    <3> DEFINE d == n - Last(n)
    <3>1. d \in Nat /\ p - Last(n) = d + 1 /\ m = d % PosMod
      BY <1>0, <1>3, <2>3
    <3> HIDE DEF d
    <3>2. ((d % PosMod) + 1) % PosMod = (d + 1) % PosMod
      BY <3>1, WrapNext
    <3> QED  BY <2>2, <3>1, <3>2
  <2>5. l = (1 + Cardinality(N(p))) % PosMod  BY <1>3, <2>1
  <2> QED  BY <1>1, <1>5, <2>4, <2>5
<1> QED  BY <1>4, <1>5

(* A file without a zero is given character by character.                  *)
LEMMA NextCharCut ==
  ASSUME NEW r, Sound(r), Cut(r), NulFree, Len(text) \in Nat, DOMAIN text = 1 .. Len(text)
  PROVE  Cut(NextChar(r)) /\ Synchronous(NextChar(r))
<1> DEFINE s == NextChar(r)
           L == Len(text)
           M == Len(r.rest)
           B == Len(r.buff)
<1>1. r \in Reader /\ r.pos < B /\ r.buff[B] = Nul /\ B >= 1  BY DEF Sound
<1>2. Moves(r, s) \/ AtEnd(r, s)  BY <1>1, NextCharIs
<1>3. M \in Nat /\ B \in Nat /\ r.pos \in Nat /\ r.read \in Nat
  BY <1>1, ReaderHas DEF Reader
<1>4. /\ Before(r) = L - M - (B - 1) /\ Before(r) \in Nat
      /\ \A k \in 1 .. B - 1 : r.buff[k] = text[Before(r) + k]
      /\ \A k \in 1 .. M : r.rest[k] = text[L - M + k]
      /\ r.read = Before(r) + r.pos
      /\ <<r.line, r.column>> = Place(r.read)
  BY DEF Cut, Before
<1> SUFFICES Cut(s) /\ Synchronous(s)
  OBVIOUS
<1>5. L \in Nat  OBVIOUS
<1>6. \A k \in 1 .. L : text[k] # Nul  BY DEF NulFree
<1> HIDE DEF s, L, M, B
<1>7. \A k \in 1 .. B - 1 : r.buff[k] # Nul
  <2> SUFFICES ASSUME NEW k \in 1 .. B - 1 PROVE r.buff[k] # Nul
    OBVIOUS
  <2>1. Before(r) + k \in 1 .. L  BY <1>3, <1>4, <1>5, SMTT(30)
  <2> QED  BY <1>4, <1>6, <2>1
<1>8. r.buff[r.pos + 1] = Nul => r.pos + 1 = B /\ r.read = L - M
  <2> SUFFICES ASSUME r.buff[r.pos + 1] = Nul PROVE r.pos + 1 = B /\ r.read = L - M
    OBVIOUS
  <2> DEFINE p == r.pos + 1
  <2>1. p \in 1 .. B /\ r.buff[p] = Nul  BY <1>1, <1>3
  <2> HIDE DEF p
  <2>2. p \notin 1 .. B - 1  BY <1>7, <2>1
  <2>3. p = B  BY <1>3, <2>1, <2>2
  <2>4. r.pos = B - 1  BY <1>3, <2>3 DEF p
  <2> QED  BY <1>3, <1>4, <1>5, <2>3, <2>4 DEF p
<1>9. CASE AtEnd(r, s)
  <2>1. /\ s.rest = r.rest /\ s.buff = r.buff /\ s.pos = r.pos /\ s.c = Nul
        /\ s.line = r.line /\ s.column = r.column /\ s.read = r.read
    <3>1. Nul \in Alphabet  BY DEF Alphabet
    <3> QED  BY <1>1, <1>9, <3>1 DEF AtEnd, Reader
  <2>2. M = 0 /\ r.buff[r.pos + 1] = Nul  BY <1>9 DEF AtEnd, M
  <2>3. s.read = L  BY <1>3, <1>5, <1>8, <2>1, <2>2
  <2>4. Before(s) = Before(r)  BY <2>1 DEF Before
  <2>5. Cut(s)  BY <2>1, <2>4 DEF Cut
  <2>6. Synchronous(s)  BY <2>1, <2>3 DEF Synchronous, L
  <2> QED  BY <2>5, <2>6
<1>10. CASE Moves(r, s)
  <2>1. /\ s.read = r.read + 1 /\ s.c = s.buff[s.pos]
        /\ s.line = (IF s.c = Newline THEN (r.line + 1) % PosMod ELSE r.line)
        /\ s.column = (IF s.c = Newline THEN 0 ELSE (r.column + 1) % PosMod)
    BY <1>10 DEF Moves
  <2>2. SUFFICES /\ Before(s) \in Nat /\ s.read <= L
                 /\ \A k \in 1 .. Len(s.buff) - 1 : s.buff[k] = text[Before(s) + k]
                 /\ \A k \in 1 .. Len(s.rest) : s.rest[k] = text[L - Len(s.rest) + k]
                 /\ s.read = Before(s) + s.pos
                 /\ s.c = text[s.read]
    <3>1. <<s.line, s.column>> = Place(s.read)
      <4> DEFINE n == r.read
      <4>1. n \in Nat /\ n + 1 <= L /\ <<r.line, r.column>> = Place(n) /\ s.c = text[n + 1]
        BY <1>3, <1>4, <2>1, <2>2
      <4> HIDE DEF n
      <4>2. <<IF text[n + 1] = Newline THEN (r.line + 1) % PosMod ELSE r.line,
              IF text[n + 1] = Newline THEN 0 ELSE (r.column + 1) % PosMod>> = Place(n + 1)
        BY <4>1, PlaceMoves DEF L
      <4>3. <<s.line, s.column>> = Place(n + 1)  BY <2>1, <4>1, <4>2
      <4> QED  BY <2>1, <4>3 DEF n
    <3>2. Cut(s)  BY <2>2, <3>1 DEF Cut, L
    <3>3. s.read > 0  BY <1>3, <2>1
    <3> QED  BY <2>2, <3>2, <3>3 DEF Synchronous
  <2>3. CASE s.buff = r.buff /\ s.rest = r.rest /\ s.pos = r.pos + 1 /\ s.c # Nul
    <3>1. r.pos + 1 \in 1 .. B - 1
      <4>1. r.pos + 1 # B  BY <1>1, <2>1, <2>3
      <4> QED  BY <1>1, <1>3, <4>1
    <3>2. Before(s) = Before(r)  BY <2>3 DEF Before
    <3>3. s.read = Before(r) + (r.pos + 1) /\ s.read <= L
      BY <1>3, <1>4, <1>5, <2>1, <3>1
    <3>4. s.c = text[Before(r) + (r.pos + 1)]  BY <1>4, <2>1, <2>3, <3>1
    <3> QED  BY <1>4, <2>3, <3>2, <3>3, <3>4 DEF L, M, B
  <2>4. CASE ~(s.buff = r.buff /\ s.rest = r.rest /\ s.pos = r.pos + 1 /\ s.c # Nul)
    <3> DEFINE n == LineEnd(r.rest)
    <3>1. /\ r.buff[r.pos + 1] = Nul
          /\ s.pos = 1 /\ Len(s.buff) = n + 1
          /\ n \in 1 .. M
          /\ \A k \in 1 .. n : s.buff[k] = r.rest[k]
          /\ Len(s.rest) = M - n
          /\ \A k \in 1 .. Len(s.rest) : s.rest[k] = r.rest[n + k]
      BY <1>10, <2>4 DEF Moves, M
    <3> HIDE DEF n
    <3>2. r.read = L - M /\ L - M \in Nat  BY <1>3, <1>8, <3>1
    <3>3. n \in Nat /\ Before(s) = L - M
      BY <1>3, <1>5, <3>1 DEF Before, L
    <3>4. s.read = L - M + 1 /\ s.read <= L  BY <1>3, <1>5, <2>1, <3>1, <3>2
    <3>5. \A k \in 1 .. n : k \in 1 .. M /\ s.buff[k] = text[L - M + k]
      BY <1>3, <1>4, <3>1
    <3>6. \A k \in 1 .. M - n : s.rest[k] = text[L - (M - n) + k]
      <4> SUFFICES ASSUME NEW k \in 1 .. M - n PROVE s.rest[k] = text[L - (M - n) + k]
        OBVIOUS
      <4>0. n \in 1 .. M /\ M \in Nat /\ L \in Nat  BY <1>3, <1>5, <3>1
      <4>1. n + k \in 1 .. M /\ L - M + (n + k) = L - (M - n) + k
        <5>1. k \in Nat /\ k >= 1 /\ k <= M - n  BY <4>0
        <5>2. n \in Nat /\ n >= 1 /\ n <= M  BY <4>0
        <5> QED  BY ONLY <4>0, <5>1, <5>2
      <4> QED  BY <1>4, <3>1, <4>1
    <3>7. s.c = text[L - M + 1]
      <4>1. 1 \in 1 .. n  BY <3>1
      <4> QED  BY <2>1, <3>1, <3>5, <4>1
    <3>8. Len(s.buff) - 1 = n  BY <3>1, <3>3
    <3> QED  BY <3>1, <3>2, <3>3, <3>4, <3>5, <3>6, <3>7, <3>8
  <2> QED  BY <2>3, <2>4
<1> QED  BY <1>2, <1>9, <1>10

-----------------------------------------------------------------------------
(* The reader is good at the beginning, and stays so however often it is   *)
(* asked for a character.                                                  *)
Good(r) == Sound(r) /\ (NulFree => Cut(r) /\ Synchronous(r))

LEMMA TextIs ==
  ASSUME text \in Texts
  PROVE  Len(text) \in Nat /\ DOMAIN text = 1 .. Len(text) /\ text \in Seq(Alphabet)
<1>1. text \in Seq(STRING)  BY TextsAssumption DEF TextsAssumption
<1>2. Len(text) \in Nat /\ DOMAIN text = 1 .. Len(text)  BY <1>1, LenProperties
<1>3. \A k \in 1 .. Len(text) : text[k] \in Alphabet  BY <1>2 DEF Alphabet
<1> QED  BY <1>1, <1>2, <1>3

LEMMA NextCharGood ==
  ASSUME text \in Texts, NEW r, Good(r)
  PROVE  Good(NextChar(r))
BY NextCharSound, NextCharCut, TextIs DEF Good

LEMMA PlaceOfNone == Place(0) = <<1 % PosMod, 0>>
<1> DEFINE N == {k \in 1 .. 0 : text[k] = Newline}
           Last == CHOOSE k \in N \union {0} : \A j \in N : j <= k
<1>1. Place(0) = <<(1 + Cardinality(N)) % PosMod, (0 - Last) % PosMod>>  BY DEF Place
<1>2. N = {}  OBVIOUS
<1>3. Cardinality(N) = 0  BY <1>2, FS_EmptySet
<1>4. Last = 0  BY <1>2
<1> HIDE DEF N, Last
<1>5. 0 % PosMod = 0  BY Sizes
<1>6. 0 - Last = 0 /\ 1 + Cardinality(N) = 1  BY <1>3, <1>4
<1> QED  BY <1>1, <1>5, <1>6

LEMMA ReaderStarts ==
  ASSUME Init
  PROVE  text \in Texts /\ Good(in)
<1> DEFINE r == [rest |-> text, buff |-> <<Nul>>, pos |-> 0, line |-> 1 % PosMod,
                 column |-> 0, c |-> Nul, read |-> 0]
<1>1. text \in Texts /\ in = NextChar(r)  BY DEF Init
<1>2. Nul \in Alphabet  BY DEF Alphabet
<1>3. 1 % PosMod \in Nat /\ 1 % PosMod < PosMod  BY Sizes
<1>4. <<Nul>> \in Seq(Alphabet) /\ Len(<<Nul>>) = 1 /\ <<Nul>>[1] = Nul  BY <1>2
<1>5. /\ r.rest = text /\ r.buff = <<Nul>> /\ r.pos = 0 /\ r.line = 1 % PosMod
      /\ r.column = 0 /\ r.c = Nul /\ r.read = 0
      /\ r \in Reader
  BY <1>1, <1>2, <1>3, <1>4, TextIs DEF Reader
<1> HIDE DEF r
<1>6. Sound(r)  BY <1>3, <1>4, <1>5, Sizes DEF Sound
<1>7. Cut(r)
  <2>1. Len(text) \in Nat  BY <1>1, TextIs
  <2>2. Before(r) = 0
    <3> DEFINE n == Len(text)
    <3>1. Before(r) = n - n - (1 - 1)  BY <1>4, <1>5 DEF Before
    <3>2. n \in Nat  BY <2>1
    <3> HIDE DEF n
    <3> QED  BY <3>1, <3>2
  <2>3. <<r.line, r.column>> = Place(r.read)  BY <1>5, PlaceOfNone
  <2>4. \A k \in 1 .. Len(r.rest) : r.rest[k] = text[Len(text) - Len(r.rest) + k]
    BY <1>5, <2>1
  <2>5. \A k \in 1 .. Len(r.buff) - 1 : r.buff[k] = text[Before(r) + k]
    BY <1>4, <1>5
  <2> QED  BY <1>5, <2>2, <2>3, <2>4, <2>5 DEF Cut
<1> QED  BY <1>1, <1>6, <1>7, NextCharSound, NextCharCut, TextIs DEF Good

LEMMA ReaderSteps ==
  ASSUME text \in Texts, Good(in), Next
  PROVE  text' = text /\ Good(in')
<1>1. /\ Good(NextChar(in)) /\ Good(NextChar(NextChar(in)))
      /\ Good(NextChar(NextChar(NextChar(in))))
      /\ Good(NextChar(NextChar(NextChar(NextChar(in)))))
  BY NextCharGood
<1>2. CASE EndOfFile  BY <1>2 DEF EndOfFile
<1>3. CASE Blank \/ StartNumber \/ MoreNumber \/ EndNumber
  BY <1>1, <1>3 DEF Blank, StartNumber, MoreNumber, EndNumber, Emit, Begin
<1>4. CASE StartIdent \/ MoreIdent \/ EndIdent \/ Keyword
  BY <1>1, <1>4 DEF StartIdent, MoreIdent, EndIdent, Keyword, Emit, Begin
<1>5. CASE Slash \/ CommentTurn \/ Symbol \/ Unknown
  BY <1>1, <1>5 DEF Slash, CommentTurn, Symbol, Unknown, Emit, Begin
<1>6. CASE SymbolOrEqual \/ Bang
  BY <1>1, <1>6 DEF SymbolOrEqual, Bang, Emit
<1>7. CASE CharLiteral
  BY <1>1, <1>7 DEF CharLiteral, Emit, Fails
<1>8. CASE StartString \/ MoreString \/ EndString \/ OpenString
  BY <1>1, <1>8 DEF StartString, MoreString, EndString, OpenString, Emit, Begin, Fails
<1> QED  BY <1>2, <1>3, <1>4, <1>5, <1>6, <1>7, <1>8 DEF Next

ReaderInv == text \in Texts /\ Good(in)

LEMMA ReaderKept == ReaderInv /\ [Next]_vars => ReaderInv'
<1>1. ASSUME ReaderInv, Next PROVE ReaderInv'
  <2>1. text \in Texts /\ text' = text /\ Good(in')
    BY <1>1, ReaderSteps DEF ReaderInv
  <2>2. Good(in)' = Good(in')
    BY <2>1 DEF Good, Sound, Cut, Synchronous, NulFree, Place, Before, Reader, Alphabet
  <2> QED  BY <2>1, <2>2 DEF ReaderInv
<1>2. ASSUME ReaderInv, UNCHANGED vars PROVE ReaderInv'
  BY <1>2 DEF vars, ReaderInv, Good, Sound, Cut, Synchronous, NulFree, Place, Before,
              Reader, Alphabet
<1> QED  BY <1>1, <1>2

(* The buffer neither loses nor repeats a character, and line and column   *)
(* go with the reader: for every file without a zero and every size of the *)
(* buffer.                                                                 *)
THEOREM LexInStep == Spec => []InStep
<1>1. Init => ReaderInv  BY ReaderStarts DEF ReaderInv
<1>2. ReaderInv => InStep  BY DEF ReaderInv, Good, InStep, Cut, Synchronous
<1> QED  BY <1>1, <1>2, ReaderKept, PTL DEF Spec

-----------------------------------------------------------------------------
(* The tokens.  A character that no token of the language contains.        *)
Strange ==
  \E k \in DOMAIN text :
    /\ text[k] \notin Digits \union Letters \union Spaces \union {Quote, Tick, "!"}
    /\ \A w \in Symbols : text[k] \notin {w[j] : j \in DOMAIN w}

Pointed(t) ==
  /\ NulFree
  /\ \/ t.kind \in {"NUMBER", "IDENTIFIER"}
     \/ t.kind = "ONLY_TYPE" /\ t.text[1] \in Single /\ text[t.begin] # "!"
  => <<t.line, t.column>> = Place(t.begin)

Fits(t) == Pointed(t) /\ (t.kind = "UNKNOWN" => Strange)

(* The token a loop makes.                                                 *)
LoopToken == [kind : {"NUMBER", "IDENTIFIER", "STRING_LITERAL"}, text : Seq(Alphabet),
              line : Nat, column : Nat, begin : Nat]

Growing(t) == t \in LoopToken /\ Len(t.text) <= LenMod /\ Fits(t)

(* A text belongs to the loop that runs.                                   *)
Busy(p) == IF p \in Loops \ {"comment"} THEN 1 ELSE 0

AllFit == \A k \in DOMAIN tokens : Fits(tokens[k])

Shape ==
  /\ pc \in Loops \union {"token", "done", "failed", "crashed"}
  /\ pc = "number" => tok.kind = "NUMBER"
  /\ pc = "ident"  => tok.kind = "IDENTIFIER"
  /\ pc = "string" => tok.kind = "STRING_LITERAL"
  /\ IsSeq(tokens)
  /\ IF pc \in {"failed", "crashed"}
     THEN tokens = <<>> /\ heap \in {0, 1}
     ELSE heap = Cardinality(WithText(tokens)) + Busy(pc)

TokenInv ==
  /\ Shape
  /\ tok = NoToken \/ Growing(tok)
  /\ AllFit
  /\ pc = "crashed" => Strange

(* One more token in the list.                                             *)
LEMMA TextsCounted ==
  ASSUME NEW q, IsSeq(q)
  PROVE  /\ Cardinality(WithText(q)) \in Nat
         /\ \A t : Cardinality(WithText(Append(q, t)))
                     = Cardinality(WithText(q)) + (IF HasText(t) THEN 1 ELSE 0)
<1>1. Len(q) \in Nat /\ DOMAIN q = 1 .. Len(q)  BY DEF IsSeq
<1>2. IsFiniteSet(WithText(q))
  <2>1. IsFiniteSet(1 .. Len(q))  BY <1>1, FS_Interval
  <2>2. WithText(q) \subseteq 1 .. Len(q)  BY <1>1 DEF WithText
  <2> QED  BY <2>1, <2>2, FS_Subset
<1>3. Cardinality(WithText(q)) \in Nat  BY <1>2, FS_CardinalityType
<1>4. ASSUME NEW t
      PROVE  Cardinality(WithText(Append(q, t)))
               = Cardinality(WithText(q)) + (IF HasText(t) THEN 1 ELSE 0)
  <2> DEFINE r == Append(q, t)
  <2>1. /\ Len(r) = Len(q) + 1 /\ IsSeq(r)
        /\ \A k \in 1 .. Len(q) : r[k] = q[k]
        /\ r[Len(q) + 1] = t
    BY Appended
  <2>2. DOMAIN r = 1 .. Len(r)  BY <2>1 DEF IsSeq
  <2> HIDE DEF r
  <2>3. DOMAIN r = DOMAIN q \union {Len(q) + 1} /\ Len(q) + 1 \notin DOMAIN q
    BY <1>1, <2>1, <2>2
  <2>4. CASE HasText(t)
    <3>1. WithText(r) = WithText(q) \union {Len(q) + 1}
      BY <1>1, <2>1, <2>3, <2>4 DEF WithText
    <3>2. Len(q) + 1 \notin WithText(q)  BY <2>3 DEF WithText
    <3>3. Cardinality(WithText(r)) = Cardinality(WithText(q)) + 1
      BY <1>2, <3>1, <3>2, FS_AddElement
    <3> QED  BY <2>4, <3>3 DEF r
  <2>5. CASE ~HasText(t)
    <3>1. WithText(r) = WithText(q)
      BY <1>1, <2>1, <2>3, <2>5 DEF WithText
    <3> QED  BY <1>3, <2>5, <3>1 DEF r
  <2> QED  BY <2>4, <2>5
<1> QED  BY <1>3, <1>4

LEMMA NoTexts == IsSeq(<<>>) /\ Cardinality(WithText(<<>>)) = 0
<1>1. WithText(<<>>) = {}  BY DEF WithText
<1> QED  BY <1>1, FS_EmptySet DEF IsSeq

(* What is said of a token is said of the file, which does not change.     *)
LEMMA SameFile ==
  ASSUME text' = text
  PROVE  /\ AllFit' <=> \A k \in DOMAIN tokens' : Fits(tokens'[k])
         /\ Growing(tok)' <=> Growing(tok')
         /\ Strange' <=> Strange
BY DEF AllFit, Growing, LoopToken, Fits, Pointed, Strange, NulFree, Place, Alphabet

(* The three things an action does to the list.                            *)
LEMMA Emitted ==
  ASSUME TokenInv, NEW t, NEW r, Emit(t, r), Fits(t), pc \in Loops \union {"token"},
         heap' = heap + (IF HasText(t) THEN 1 ELSE 0) - Busy(pc)
  PROVE  TokenInv'
<1>1. /\ pc' = "token" /\ tok' = tok /\ text' = text
      /\ tokens' = Append(tokens, t)
  BY DEF Emit
<1>2. IsSeq(tokens) /\ heap = Cardinality(WithText(tokens)) + Busy(pc)
  BY DEF TokenInv, Shape, Loops
<1>3. /\ IsSeq(tokens') /\ Len(tokens') = Len(tokens) + 1 /\ Len(tokens) \in Nat
      /\ \A k \in 1 .. Len(tokens) : tokens'[k] = tokens[k]
      /\ tokens'[Len(tokens) + 1] = t
  BY <1>1, <1>2, Appended
<1>4. /\ Cardinality(WithText(tokens)) \in Nat
      /\ Cardinality(WithText(tokens'))
           = Cardinality(WithText(tokens)) + (IF HasText(t) THEN 1 ELSE 0)
  BY <1>1, <1>2, TextsCounted
<1>5. heap' = Cardinality(WithText(tokens')) + Busy(pc')
  <2> DEFINE a == Cardinality(WithText(tokens))
             b == Cardinality(WithText(tokens'))
             d == IF HasText(t) THEN 1 ELSE 0
  <2>1. heap = a + Busy(pc) /\ b = a + d /\ heap' = heap + d - Busy(pc)
    BY <1>2, <1>4
  <2>2. a \in Nat /\ d \in Nat /\ Busy(pc) \in Nat /\ Busy(pc') = 0
    BY <1>1, <1>4 DEF Busy, Loops
  <2> HIDE DEF a, b, d
  <2>3. heap' = b + Busy(pc')  BY <2>1, <2>2
  <2> QED  BY <2>3 DEF b
<1>6. Shape'
  BY <1>1, <1>3, <1>5 DEF Shape, IsSeq, Busy, Loops, WithText, HasText
<1>7. AllFit'
  <2>1. DOMAIN tokens = 1 .. Len(tokens) /\ DOMAIN tokens' = 1 .. Len(tokens) + 1
    BY <1>2, <1>3 DEF IsSeq
  <2>2. \A k \in DOMAIN tokens' : Fits(tokens'[k])
    BY <1>3, <2>1 DEF TokenInv, AllFit
  <2> QED  BY <1>1, <2>2, SameFile
<1>8. (tok = NoToken \/ Growing(tok))'
  <2>1. tok' = NoToken \/ Growing(tok')  BY <1>1 DEF TokenInv
  <2> QED  BY <1>1, <2>1, SameFile DEF NoToken
<1> QED  BY <1>1, <1>6, <1>7, <1>8 DEF TokenInv

LEMMA Begun ==
  ASSUME TokenInv, NEW loop \in Loops \union {"token"}, NEW t, NEW r,
         Begin(loop, t, r), t = NoToken \/ Growing(t), pc \in Loops \union {"token"},
         loop = "number" => t.kind = "NUMBER",
         loop = "ident" => t.kind = "IDENTIFIER",
         loop = "string" => t.kind = "STRING_LITERAL",
         heap' = heap + Busy(loop) - Busy(pc)
  PROVE  TokenInv'
<1>1. pc' = loop /\ tok' = t /\ text' = text /\ tokens' = tokens
  BY DEF Begin
<1>2. IsSeq(tokens) /\ heap = Cardinality(WithText(tokens)) + Busy(pc)
  BY DEF TokenInv, Shape, Loops
<1>3. heap' = Cardinality(WithText(tokens)) + Busy(loop)
  <2> DEFINE a == Cardinality(WithText(tokens))
  <2>1. heap = a + Busy(pc) /\ heap' = heap + Busy(loop) - Busy(pc)
    BY <1>2
  <2>2. a \in Nat /\ Busy(loop) \in Nat /\ Busy(pc) \in Nat
    BY <1>2, TextsCounted DEF Busy
  <2> HIDE DEF a
  <2>3. heap' = a + Busy(loop)  BY <2>1, <2>2
  <2> QED  BY <2>3 DEF a
<1>4. Shape'
  BY <1>1, <1>2, <1>3 DEF Shape, IsSeq, Busy, Loops, WithText, HasText
<1>5. AllFit'  BY <1>1, SameFile DEF TokenInv, AllFit
<1>6. (tok = NoToken \/ Growing(tok))'
  <2>1. tok' = NoToken \/ Growing(tok')  BY <1>1
  <2> QED  BY <1>1, <2>1, SameFile DEF NoToken
<1>7. pc' # "crashed"  BY <1>1 DEF Loops
<1> QED  BY <1>4, <1>5, <1>6, <1>7 DEF TokenInv

LEMMA Failed ==
  ASSUME TokenInv, NEW r, Fails(r), pc \in {"token", "string"}
  PROVE  TokenInv'
<1>1. /\ pc' \in {"failed", "crashed"} /\ tokens' = <<>> /\ tok' = tok /\ text' = text
      /\ heap' = heap - Cardinality(WithText(tokens))
      /\ pc' = "crashed" => \E k \in DOMAIN tokens : tokens[k].kind = "UNKNOWN"
  BY DEF Fails
<1>2. heap = Cardinality(WithText(tokens)) + Busy(pc)
  BY DEF TokenInv, Shape, Loops
<1>3. heap' \in {0, 1}
  <2> DEFINE a == Cardinality(WithText(tokens))
  <2>1. heap = a + Busy(pc) /\ heap' = heap - a  BY <1>1, <1>2
  <2>2. a \in Nat /\ Busy(pc) \in {0, 1}  BY TextsCounted DEF Busy, TokenInv, Shape
  <2> HIDE DEF a
  <2> QED  BY <2>1, <2>2
<1>4. Shape'
  BY <1>1, <1>3, NoTexts DEF Shape, IsSeq
<1>5. AllFit'  BY <1>1, SameFile
<1>6. (tok = NoToken \/ Growing(tok))'
  <2>1. tok' = NoToken \/ Growing(tok')  BY <1>1 DEF TokenInv
  <2> QED  BY <1>1, <2>1, SameFile DEF NoToken
<1>7. pc' = "crashed" => Strange'
  <2>1. pc' = "crashed" => Strange  BY <1>1 DEF TokenInv, AllFit, Fits
  <2> QED  BY <1>1, <2>1, SameFile
<1> QED  BY <1>4, <1>5, <1>6, <1>7 DEF TokenInv

-----------------------------------------------------------------------------
(* What a token is made from.                                              *)
LEMMA GoodHas ==
  ASSUME NEW r, Good(r)
  PROVE  r.c \in Alphabet /\ r.line \in Nat /\ r.column \in Nat /\ r.read \in Nat
BY DEF Good, Sound, Reader

LEMMA HereIs ==
  ASSUME Good(in)
  PROVE  NulFree => <<in.line, in.column>> = Place(in.read)
BY DEF Good, Cut

LEMMA OneCharHas ==
  ASSUME NEW c \in Alphabet
  PROVE  LET w == IF c = Nul THEN <<>> ELSE <<c>>
         IN  w \in Seq(Alphabet) /\ Len(w) <= LenMod
<1> DEFINE w == IF c = Nul THEN <<>> ELSE <<c>>
<1>1. w \in Seq(Alphabet) /\ Len(w) <= 1  OBVIOUS
<1> HIDE DEF w
<1>2. Len(w) \in Nat /\ Len(w) <= LenMod  BY <1>1, Sizes, LenProperties
<1> QED  BY <1>1, <1>2 DEF w

LEMMA LoopStarts ==
  ASSUME NEW kind \in {"NUMBER", "IDENTIFIER", "STRING_LITERAL"}, NEW r, Good(r), Good(in),
         kind = "STRING_LITERAL" \/ r = in
  PROVE  Growing(OneChar(kind, r.c, r)) /\ OneChar(kind, r.c, r).kind = kind
<1> DEFINE w == IF r.c = Nul THEN <<>> ELSE <<r.c>>
           t == OneChar(kind, r.c, r)
<1>1. /\ r.c \in Alphabet /\ r.line \in Nat /\ r.column \in Nat
      /\ in.read \in Nat
  BY GoodHas
<1>2. w \in Seq(Alphabet) /\ Len(w) <= LenMod  BY <1>1, OneCharHas
<1>3. t = [kind |-> kind, text |-> w, line |-> r.line, column |-> r.column,
           begin |-> in.read]
  BY DEF OneChar, Token
<1> HIDE DEF w, t
<1>4. t \in LoopToken /\ t.kind = kind /\ t.text = w /\ t.line = r.line
      /\ t.column = r.column /\ t.begin = in.read
  BY <1>1, <1>2, <1>3 DEF LoopToken
<1>5. Fits(t)
  <2>1. CASE kind = "STRING_LITERAL"  BY <1>4, <2>1 DEF Fits, Pointed
  <2>2. CASE r = in  BY <1>4, <2>2, HereIs DEF Fits, Pointed
  <2> QED  BY <2>1, <2>2
<1> QED  BY <1>2, <1>4, <1>5 DEF Growing, t

(* A character more: the length that is counted wraps, the text is never   *)
(* longer than what can be counted.                                        *)
LEMMA LoopGoesOn ==
  ASSUME NEW t, Growing(t), NEW c \in Alphabet
  PROVE  Growing(TokenAppend(t, c)) /\ TokenAppend(t, c).kind = t.kind
<1> DEFINE q == t.text
           n == Len(q) % LenMod
           a == SubSeq(q, 1, n)
           z == <<c>>
           u == TokenAppend(t, c)
<1>1. t \in LoopToken /\ q \in Seq(Alphabet) /\ Len(q) \in Nat
  BY LenProperties DEF Growing, LoopToken
<1>2. n \in 0 .. LenMod - 1 /\ n <= Len(q)
  <2> DEFINE m == Len(q)
  <2>1. m \in Nat  BY <1>1
  <2> HIDE DEF m
  <2>2. m % LenMod \in 0 .. LenMod - 1 /\ m % LenMod <= m
    BY <2>1, Sizes, DivMod
  <2> QED  BY <2>2 DEF m
<1>3. z \in Seq(Alphabet) /\ Len(z) = 1  OBVIOUS
<1> HIDE DEF q, n, z
<1>4. a \in Seq(Alphabet) /\ Len(a) = n  BY <1>1, <1>2, SubSeqProperties
<1> HIDE DEF a
<1>5. a \o z \in Seq(Alphabet) /\ Len(a \o z) = n + 1
  BY <1>3, <1>4, ConcatProperties
<1>6. Len(a \o z) <= LenMod  BY <1>2, <1>5, Sizes
<1>7. u = [t EXCEPT !.text = a \o z]  BY DEF TokenAppend, a, n, q, z
<1> DEFINE w == a \o z
<1> HIDE DEF w, u
<1>8. /\ u \in LoopToken /\ u.text = w /\ u.kind = t.kind /\ u.line = t.line
      /\ u.column = t.column /\ u.begin = t.begin
  BY <1>1, <1>5, <1>7 DEF LoopToken, w
<1>9. Fits(u)  BY <1>1, <1>8 DEF Growing, Fits, Pointed, LoopToken
<1> QED  BY <1>6, <1>8, <1>9 DEF Growing, u, w

-----------------------------------------------------------------------------
(* The actions.                                                            *)
LEMMA NumberSteps ==
  ASSUME text \in Texts, Good(in), TokenInv, StartNumber \/ MoreNumber \/ EndNumber
  PROVE  TokenInv'
<1>1. CASE StartNumber
  <2> DEFINE t == OneChar("NUMBER", in.c, in)
  <2>1. Growing(t) /\ t.kind = "NUMBER"  BY LoopStarts
  <2> HIDE DEF t
  <2>2. /\ pc = "token" /\ Begin("number", t, NextChar(in)) /\ heap' = heap + 1
    BY <1>1 DEF StartNumber, t
  <2>3. heap \in Int  BY <2>2, TextsCounted DEF TokenInv, Shape, Busy, Loops
  <2>4. heap' = heap + Busy("number") - Busy(pc)
    BY <2>2, <2>3 DEF Busy, Loops
  <2> QED  BY <2>1, <2>2, <2>4, Begun DEF Loops
<1>2. CASE MoreNumber
  <2> DEFINE t == TokenAppend(tok, in.c)
  <2>1. /\ pc = "number" /\ Begin("number", t, NextChar(in)) /\ heap' = heap
    BY <1>2 DEF MoreNumber
  <2>2. tok.kind = "NUMBER" /\ Growing(tok)
    BY <2>1 DEF TokenInv, Shape, NoToken
  <2>3. Growing(t) /\ t.kind = "NUMBER"  BY <2>2, LoopGoesOn, GoodHas
  <2> HIDE DEF t
  <2>4. heap \in Int  BY <2>1, TextsCounted DEF TokenInv, Shape, Busy, Loops
  <2>5. heap' = heap + Busy("number") - Busy(pc)
    BY <2>1, <2>4 DEF Busy, Loops
  <2> QED  BY <2>1, <2>3, <2>5, Begun DEF Loops
<1>3. CASE EndNumber
  <2>1. pc = "number" /\ Emit(tok, in) /\ heap' = heap  BY <1>3 DEF EndNumber
  <2>2. tok.kind = "NUMBER" /\ Fits(tok)
    BY <2>1 DEF TokenInv, Shape, NoToken, Growing
  <2>3. heap \in Int  BY <2>1, TextsCounted DEF TokenInv, Shape, Busy, Loops
  <2>4. heap' = heap + (IF HasText(tok) THEN 1 ELSE 0) - Busy(pc)
    BY <2>1, <2>2, <2>3 DEF Busy, Loops, HasText
  <2> QED  BY <2>1, <2>2, <2>4, Emitted DEF Loops
<1> QED  BY <1>1, <1>2, <1>3

LEMMA IdentSteps ==
  ASSUME text \in Texts, Good(in), TokenInv, StartIdent \/ MoreIdent \/ EndIdent
  PROVE  TokenInv'
<1>1. CASE StartIdent
  <2> DEFINE t == OneChar("IDENTIFIER", in.c, in)
  <2>1. Growing(t) /\ t.kind = "IDENTIFIER"  BY LoopStarts
  <2> HIDE DEF t
  <2>2. /\ pc = "token" /\ Begin("ident", t, NextChar(in)) /\ heap' = heap + 1
    BY <1>1 DEF StartIdent, t
  <2>3. heap \in Int  BY <2>2, TextsCounted DEF TokenInv, Shape, Busy, Loops
  <2>4. heap' = heap + Busy("ident") - Busy(pc)
    BY <2>2, <2>3 DEF Busy, Loops
  <2> QED  BY <2>1, <2>2, <2>4, Begun DEF Loops
<1>2. CASE MoreIdent
  <2> DEFINE t == TokenAppend(tok, in.c)
  <2>1. /\ pc = "ident" /\ Begin("ident", t, NextChar(in)) /\ heap' = heap
    BY <1>2 DEF MoreIdent
  <2>2. tok.kind = "IDENTIFIER" /\ Growing(tok)
    BY <2>1 DEF TokenInv, Shape, NoToken
  <2>3. Growing(t) /\ t.kind = "IDENTIFIER"  BY <2>2, LoopGoesOn, GoodHas
  <2> HIDE DEF t
  <2>4. heap \in Int  BY <2>1, TextsCounted DEF TokenInv, Shape, Busy, Loops
  <2>5. heap' = heap + Busy("ident") - Busy(pc)
    BY <2>1, <2>4 DEF Busy, Loops
  <2> QED  BY <2>1, <2>3, <2>5, Begun DEF Loops
<1>3. CASE EndIdent
  <2>1. pc = "ident" /\ Emit(tok, in) /\ heap' = heap  BY <1>3 DEF EndIdent
  <2>2. tok.kind = "IDENTIFIER" /\ Fits(tok)
    BY <2>1 DEF TokenInv, Shape, NoToken, Growing
  <2>3. heap \in Int  BY <2>1, TextsCounted DEF TokenInv, Shape, Busy, Loops
  <2>4. heap' = heap + (IF HasText(tok) THEN 1 ELSE 0) - Busy(pc)
    BY <2>1, <2>2, <2>3 DEF Busy, Loops, HasText
  <2> QED  BY <2>1, <2>2, <2>4, Emitted DEF Loops
<1> QED  BY <1>1, <1>2, <1>3

(* A keyword begins like a name, not like a symbol.                        *)
LEMMA KeywordStep ==
  ASSUME text \in Texts, Good(in), TokenInv, Keyword
  PROVE  TokenInv'
<1> DEFINE t == [OnlyType(tok.text, in) EXCEPT !.begin = tok.begin]
<1>1. /\ pc = "ident" /\ Emit(t, in) /\ heap' = heap - 1 /\ tok.text \in Keywords
  BY DEF Keyword
<1>2. t.kind = "ONLY_TYPE" /\ t.text = tok.text  BY DEF OnlyType, Token
<1> HIDE DEF t
<1>3. tok.text[1] \notin Single
  <2>1. tok.text \in Seq(Letters \union Digits) /\ tok.text # <<>>
    BY <1>1, KeywordsAssumption DEF KeywordsAssumption
  <2>2. tok.text[1] \in Letters \union Digits  BY <2>1, EmptySeq, LenProperties
  <2> QED  BY <2>2, ClassesAssumption DEF ClassesAssumption
<1>4. Fits(t)  BY <1>2, <1>3 DEF Fits, Pointed
<1>5. heap \in Int  BY <1>1, TextsCounted DEF TokenInv, Shape, Busy, Loops
<1>6. heap' = heap + (IF HasText(t) THEN 1 ELSE 0) - Busy(pc)
  BY <1>1, <1>2, <1>5 DEF Busy, Loops, HasText
<1> QED  BY <1>1, <1>4, <1>6, Emitted DEF Loops

(* A symbol is emitted: it has no text.                                    *)
LEMMA SymbolEmitted ==
  ASSUME TokenInv, pc = "token", NEW t, NEW r, Emit(t, r), Fits(t), ~HasText(t),
         heap' = heap
  PROVE  TokenInv'
<1>1. heap \in Int  BY TextsCounted DEF TokenInv, Shape, Busy, Loops
<1>2. heap' = heap + (IF HasText(t) THEN 1 ELSE 0) - Busy(pc)
  BY <1>1 DEF Busy, Loops
<1> QED  BY <1>2, Emitted

LEMMA SymbolSteps ==
  ASSUME text \in Texts, Good(in), TokenInv, Symbol \/ SymbolOrEqual \/ Bang
  PROVE  TokenInv'
<1>1. CASE Symbol
  <2> DEFINE t == OnlyType(<<in.c>>, in)
  <2>1. pc = "token" /\ Emit(t, NextChar(in)) /\ heap' = heap  BY <1>1 DEF Symbol
  <2>2. /\ t.kind = "ONLY_TYPE" /\ t.begin = in.read
        /\ t.line = in.line /\ t.column = in.column
    BY DEF OnlyType, Token
  <2> HIDE DEF t
  <2>3. Fits(t)  BY <2>2, HereIs DEF Fits, Pointed
  <2> QED  BY <2>1, <2>2, <2>3, SymbolEmitted DEF HasText
<1>2. CASE SymbolOrEqual
  <2>1. PICK w, r :
          w \in {<<in.c>>, <<in.c, "=">>} /\ Emit(OnlyType(w, r), r)
    BY <1>2 DEF SymbolOrEqual
  <2>2. pc = "token" /\ heap' = heap /\ in.c \in MayBeDouble
    BY <1>2 DEF SymbolOrEqual
  <2>3. w[1] = in.c /\ in.c \notin Single
    <3>1. \A x, y : <<x>>[1] = x /\ <<x, y>>[1] = x  OBVIOUS
    <3>2. w[1] = in.c  BY <2>1, <3>1
    <3>3. in.c \notin Single  BY <2>2 DEF MayBeDouble, Single
    <3> QED  BY <3>2, <3>3
  <2> DEFINE t == OnlyType(w, r)
  <2>4. t.kind = "ONLY_TYPE" /\ t.text = w  BY DEF OnlyType, Token
  <2> HIDE DEF t
  <2>5. Fits(t)  BY <2>3, <2>4 DEF Fits, Pointed
  <2> QED  BY <2>1, <2>2, <2>4, <2>5, SymbolEmitted DEF HasText, t
<1>3. CASE Bang
  <2>1. PICK w, r, q :
          w \in {<<"!", "=">>, <<"+">>} /\ Emit(OnlyType(w, r), q)
    BY <1>3 DEF Bang
  <2>2. pc = "token" /\ heap' = heap /\ in.c = "!"  BY <1>3 DEF Bang
  <2> DEFINE t == OnlyType(w, r)
  <2>3. t.kind = "ONLY_TYPE" /\ t.begin = in.read  BY DEF OnlyType, Token
  <2>4. Emit(t, q)  BY <2>1
  <2> HIDE DEF t
  <2>5. NulFree => text[in.read] = "!"
    BY <2>2 DEF Good, Synchronous, Nul
  <2>6. Fits(t)  BY <2>3, <2>5 DEF Fits, Pointed
  <2> QED  BY <2>2, <2>3, <2>4, <2>6, SymbolEmitted DEF HasText
<1> QED  BY <1>1, <1>2, <1>3

(* The spellings of one and of two characters.                             *)
LEMMA OneOrTwo ==
  ASSUME NEW x, NEW y, NEW e
  PROVE  /\ <<x>> # <<y, e>> /\ <<x, e>> # <<y>>
         /\ <<x>> = <<y>> => x = y
         /\ <<x, e>> = <<y, e>> => x = y
OBVIOUS

(* A character that begins no token.                                       *)
LEMMA UnknownStep ==
  ASSUME text \in Texts, Good(in), TokenInv, Unknown
  PROVE  TokenInv'
<1> PICK l \in StrayPos, m \in StrayPos :
       Emit([Token("UNKNOWN", Void, in) EXCEPT !.line = l, !.column = m], NextChar(in))
  BY DEF Unknown
<1> DEFINE t == [Token("UNKNOWN", Void, in) EXCEPT !.line = l, !.column = m]
<1>1. /\ pc = "token" /\ Emit(t, NextChar(in)) /\ heap' = heap
      /\ in.c \notin Spaces \union Digits \union Letters \union Single \union MayBeDouble
                       \union {Nul, "/", "!", Tick, Quote}
  BY DEF Unknown
<1>2. t.kind = "UNKNOWN"  BY DEF Token
<1> HIDE DEF t
<1>3. PICK k \in DOMAIN text : text[k] = in.c  BY <1>1, GoodHas DEF Alphabet
<1>4. \A w \in Symbols : in.c \notin {w[j] : j \in DOMAIN w}
  <2> SUFFICES ASSUME NEW w \in Symbols, NEW j \in DOMAIN w, in.c = w[j]
               PROVE  FALSE
    OBVIOUS
  <2>2. PICK s : w = <<s>> \/ w = <<s, "=">>  BY DEF Symbols
  <2>3. /\ w = <<s>> => s \in Single \union MayBeDouble \union {"/"}
        /\ w = <<s, "=">> => s \in MayBeDouble \union {"!"}
    <3>1. CASE w \in {<<x>> : x \in {":", ",", ";", "{", "}", "[", "]", "(", ")",
                                    "+", "-", "*", "/", "=", ">", "<"}}
      <4>1. PICK x \in {":", ",", ";", "{", "}", "[", "]", "(", ")",
                        "+", "-", "*", "/", "=", ">", "<"} : w = <<x>>
        BY <3>1
      <4>2. w # <<s, "=">> /\ (w = <<s>> => s = x)  BY <4>1, OneOrTwo
      <4> QED  BY <4>1, <4>2 DEF Single, MayBeDouble
    <3>2. CASE w \in {<<x, "=">> : x \in {"=", "!", ">", "<"}}
      <4>1. PICK x \in {"=", "!", ">", "<"} : w = <<x, "=">>  BY <3>2
      <4>2. w # <<s>> /\ (w = <<s, "=">> => s = x)  BY <4>1, OneOrTwo
      <4> QED  BY <4>1, <4>2 DEF MayBeDouble
    <3> QED  BY <3>1, <3>2 DEF Symbols
  <2>4. w[j] \in {s, "="}  BY <2>2
  <2> QED  BY <1>1, <2>2, <2>3, <2>4 DEF MayBeDouble
<1>5. Strange  BY <1>1, <1>3, <1>4 DEF Strange
<1>6. Fits(t)
  BY <1>2, <1>5 DEF Fits, Pointed
<1> QED  BY <1>1, <1>2, <1>6, SymbolEmitted DEF HasText

(* Blanks and comments: neither the list nor the texts change.             *)
LEMMA IdleBegun ==
  ASSUME TokenInv, NEW loop \in {"token", "comment"}, NEW r, Begin(loop, tok, r),
         pc \in {"token", "comment"}, heap' = heap
  PROVE  TokenInv'
<1>1. heap \in Int  BY TextsCounted DEF TokenInv, Shape, Busy, Loops
<1>2. heap' = heap + Busy(loop) - Busy(pc)  BY <1>1 DEF Busy, Loops
<1>3. tok = NoToken \/ Growing(tok)  BY DEF TokenInv
<1> QED  BY <1>2, <1>3, Begun DEF Loops

LEMMA IdleSteps ==
  ASSUME text \in Texts, Good(in), TokenInv, EndOfFile \/ Blank \/ Slash \/ CommentTurn
  PROVE  TokenInv'
<1>1. CASE EndOfFile
  <2>1. /\ pc = "token" /\ pc' = "done" /\ text' = text /\ tok' = tok
        /\ tokens' = tokens /\ heap' = heap
    BY <1>1 DEF EndOfFile
  <2>2. Shape'
    BY <2>1 DEF TokenInv, Shape, IsSeq, Busy, Loops, WithText, HasText
  <2>3. AllFit'  BY <2>1, SameFile DEF TokenInv, AllFit
  <2>4. (tok = NoToken \/ Growing(tok))'
    <3>1. tok' = NoToken \/ Growing(tok')  BY <2>1 DEF TokenInv
    <3> QED  BY <2>1, <3>1, SameFile DEF NoToken
  <2> QED  BY <2>1, <2>2, <2>3, <2>4 DEF TokenInv
<1>2. CASE Blank
  <2>1. pc = "token" /\ Begin("token", tok, NextChar(in)) /\ heap' = heap
    BY <1>2 DEF Blank
  <2> QED  BY <2>1, IdleBegun
<1>3. CASE Slash
  <2> DEFINE r == NextChar(in)
             t == OnlyType(<<"/">>, r)
  <2>1. /\ pc = "token" /\ heap' = heap
        /\ Begin("comment", tok, r) \/ Emit(t, r)
    BY <1>3 DEF Slash
  <2>2. t.kind = "ONLY_TYPE" /\ t.text = <<"/">>  BY DEF OnlyType, Token
  <2> HIDE DEF t
  <2>3. Fits(t)
    <3>1. "/" \notin Single /\ t.text[1] = "/"  BY <2>2 DEF Single
    <3> QED  BY <2>2, <3>1 DEF Fits, Pointed
  <2>4. CASE Begin("comment", tok, r)  BY <2>1, <2>4, IdleBegun
  <2>5. CASE Emit(t, r)  BY <2>1, <2>2, <2>3, <2>5, SymbolEmitted DEF HasText
  <2> QED  BY <2>1, <2>4, <2>5
<1>4. CASE CommentTurn
  <2>1. /\ pc = "comment" /\ heap' = heap
        /\ \E loop \in {"token", "comment"} : Begin(loop, tok, NextChar(in))
    BY <1>4 DEF CommentTurn
  <2> QED  BY <2>1, IdleBegun
<1> QED  BY <1>1, <1>2, <1>3, <1>4

(* A token with a text that is whole when it is emitted.                   *)
LEMMA LiteralEmitted ==
  ASSUME TokenInv, pc = "token", NEW t, NEW r, Emit(t, r), t.kind = "CHAR_LITERAL",
         heap' = heap + 1
  PROVE  TokenInv'
<1>1. heap \in Int  BY TextsCounted DEF TokenInv, Shape, Busy, Loops
<1>2. heap' = heap + (IF HasText(t) THEN 1 ELSE 0) - Busy(pc)
  BY <1>1 DEF Busy, Loops, HasText
<1>3. Fits(t)  BY DEF Fits, Pointed
<1> QED  BY <1>2, <1>3, Emitted

LEMMA LiteralSteps ==
  ASSUME text \in Texts, Good(in), TokenInv,
         CharLiteral \/ StartString \/ MoreString \/ EndString \/ OpenString
  PROVE  TokenInv'
<1>1. CASE CharLiteral
  <2>1. /\ pc = "token"
        /\ \E r : \/ Fails(r)
                  \/ \E c, q : Emit(OneChar("CHAR_LITERAL", c, q), r) /\ heap' = heap + 1
    BY <1>1 DEF CharLiteral
  <2>2. \A c, q : OneChar("CHAR_LITERAL", c, q).kind = "CHAR_LITERAL"
    BY DEF OneChar, Token
  <2> QED  BY <2>1, <2>2, LiteralEmitted, Failed
<1>2. CASE StartString
  <2> DEFINE r == NextChar(in)
             t == OneChar("STRING_LITERAL", r.c, r)
  <2>1. pc = "token" /\ Begin("string", t, r) /\ heap' = heap + 1
    BY <1>2 DEF StartString
  <2>2. Good(r)  BY NextCharGood
  <2>3. Growing(t) /\ t.kind = "STRING_LITERAL"  BY <2>2, LoopStarts
  <2> HIDE DEF t, r
  <2>4. heap \in Int  BY <2>1, TextsCounted DEF TokenInv, Shape, Busy, Loops
  <2>5. heap' = heap + Busy("string") - Busy(pc)
    BY <2>1, <2>4 DEF Busy, Loops
  <2> QED  BY <2>1, <2>3, <2>5, Begun DEF Loops
<1>3. CASE MoreString
  <2> DEFINE r == NextChar(in)
             t == TokenAppend(tok, r.c)
  <2>1. pc = "string" /\ Begin("string", t, r) /\ heap' = heap
    BY <1>3 DEF MoreString
  <2>2. tok.kind = "STRING_LITERAL" /\ Growing(tok)
    BY <2>1 DEF TokenInv, Shape, NoToken
  <2>3. Growing(t) /\ t.kind = "STRING_LITERAL"
    BY <2>2, NextCharGood, LoopGoesOn, GoodHas
  <2> HIDE DEF t, r
  <2>4. heap \in Int  BY <2>1, TextsCounted DEF TokenInv, Shape, Busy, Loops
  <2>5. heap' = heap + Busy("string") - Busy(pc)
    BY <2>1, <2>4 DEF Busy, Loops
  <2> QED  BY <2>1, <2>3, <2>5, Begun DEF Loops
<1>4. CASE EndString
  <2>1. /\ pc = "string" /\ heap' = heap
        /\ \E r : Emit(tok, r)
    BY <1>4 DEF EndString
  <2>2. tok.kind = "STRING_LITERAL" /\ Fits(tok)
    BY <2>1 DEF TokenInv, Shape, NoToken, Growing
  <2>3. heap \in Int  BY <2>1, TextsCounted DEF TokenInv, Shape, Busy, Loops
  <2>4. heap' = heap + (IF HasText(tok) THEN 1 ELSE 0) - Busy(pc)
    BY <2>1, <2>2, <2>3 DEF Busy, Loops, HasText
  <2> QED  BY <2>1, <2>2, <2>4, Emitted DEF Loops
<1>5. CASE OpenString  BY <1>5, Failed DEF OpenString
<1> QED  BY <1>1, <1>2, <1>3, <1>4, <1>5

-----------------------------------------------------------------------------
LexInv == ReaderInv /\ TokenInv

LEMMA LexStarts == Init => LexInv
<1> SUFFICES ASSUME Init PROVE LexInv
  OBVIOUS
<1>1. ReaderInv  BY ReaderStarts DEF ReaderInv
<1>2. pc = "token" /\ tok = NoToken /\ tokens = <<>> /\ heap = 0
  BY DEF Init
<1>3. TokenInv
  BY <1>2, NoTexts DEF TokenInv, Shape, AllFit, Loops, Busy
<1> QED  BY <1>1, <1>3 DEF LexInv

LEMMA LexKept == LexInv /\ [Next]_vars => LexInv'
<1>1. ASSUME LexInv, Next PROVE TokenInv'
  <2>1. text \in Texts /\ Good(in) /\ TokenInv  BY <1>1 DEF LexInv, ReaderInv
  <2> QED  BY <1>1, <2>1, NumberSteps, IdentSteps, KeywordStep, SymbolSteps, UnknownStep,
              IdleSteps, LiteralSteps DEF Next
<1>2. ASSUME LexInv, UNCHANGED vars PROVE TokenInv'
  <2>1. /\ text' = text /\ pc' = pc /\ tok' = tok /\ tokens' = tokens /\ heap' = heap
        /\ TokenInv
    BY <1>2 DEF vars, LexInv
  <2>2. Shape'
    BY <2>1 DEF TokenInv, Shape, IsSeq, Busy, Loops, WithText, HasText
  <2>3. AllFit'  BY <2>1, SameFile DEF TokenInv, AllFit
  <2>4. (tok = NoToken \/ Growing(tok))'
    <3>1. tok' = NoToken \/ Growing(tok')  BY <2>1 DEF TokenInv
    <3> QED  BY <2>1, <3>1, SameFile DEF NoToken
  <2> QED  BY <2>1, <2>2, <2>3, <2>4, SameFile DEF TokenInv
<1> QED  BY <1>1, <1>2, ReaderKept DEF LexInv

(* The place is inside the buffer, which ends with its terminator, line    *)
(* and column fit their width, no text is longer than its length can       *)
(* count, and the texts that are freed were allocated.                     *)
THEOREM LexTypeCorrect == Spec => []TypeOK
<1>1. LexInv => TypeOK
  <2> SUFFICES ASSUME LexInv PROVE TypeOK
    OBVIOUS
  <2>1. Sound(in) /\ TokenInv  BY DEF LexInv, ReaderInv, Good
  <2>2. in.pos \in Nat /\ in.line \in Nat /\ in.column \in Nat
    BY <2>1 DEF Sound, Reader
  <2>3. /\ in.pos \in 0 .. Len(in.buff) - 1
        /\ Len(in.buff) <= BuffSize /\ in.buff[Len(in.buff)] = Nul
        /\ in.line \in 0 .. PosMod - 1 /\ in.column \in 0 .. PosMod - 1
    BY <2>1, <2>2, Sizes DEF Sound
  <2>4. HasText(tok) => Len(tok.text) <= LenMod
    BY <2>1 DEF TokenInv, Growing, NoToken, HasText
  <2>5. heap \in Nat
    <3>1. Cardinality(WithText(tokens)) \in Nat /\ Busy(pc) \in Nat
      BY <2>1, TextsCounted DEF TokenInv, Shape, Busy
    <3> QED  BY <2>1, <3>1 DEF TokenInv, Shape
  <2>6. pc \in Loops \union {"token", "done", "failed", "crashed"}
    BY <2>1 DEF TokenInv, Shape
  <2> QED  BY <2>3, <2>4, <2>5, <2>6 DEF TypeOK
<1> QED  BY <1>1, LexStarts, LexKept, PTL DEF Spec

(* Names, numbers and the symbols of one character are at the place of     *)
(* their first character: an error message points at them.                 *)
THEOREM LexPointsAtStart == Spec => []PointsAtStart
<1>1. LexInv => PointsAtStart
  BY DEF LexInv, TokenInv, AllFit, Fits, Pointed, PointsAtStart
<1> QED  BY <1>1, LexStarts, LexKept, PTL DEF Spec

(* Every text that was allocated is in the list or in the running loop,    *)
(* and freeing them goes wrong only after a character that no token of the *)
(* language contains.                                                      *)
THEOREM LexTextsOwned == Spec => []TextsOwned
<1>1. LexInv => TextsOwned
  BY DEF LexInv, TokenInv, Shape, TextsOwned, Strange, Busy
<1> QED  BY <1>1, LexStarts, LexKept, PTL DEF Spec

-----------------------------------------------------------------------------
(***************************************************************************)
(* From here on: the tokens are those that are meant.  First what the      *)
(* definitions by recursion on the place in a text come to, then what a    *)
(* lexeme's first character says of it, how far the lexer is in a text,    *)
(* the invariant with one lemma per case of next_token, and the listing    *)
(* read again.                                                             *)
(*                                                                         *)
(* Sequences put together from right to left: what comes from i on is what *)
(* is made at i, and then what comes from the place after it on.           *)
(***************************************************************************)
IsChain(n, o, g, f) ==
  f = [i \in 1 .. n + 1 |-> IF i > n THEN <<>> ELSE o[i] \o f[g[i]]]

Forward(n, g) == g \in [1 .. n -> 1 .. n + 1] /\ \A i \in 1 .. n : g[i] > i

(* A forward chain of sequences exists.                                    *)
LEMMA ChainExists ==
  ASSUME NEW V, NEW n \in Nat, NEW o \in [1 .. n -> Seq(V)], NEW g, Forward(n, g)
  PROVE  \E f : IsChain(n, o, g, f)
<1> DEFINE D == 1 .. n + 1
           S == Seq(V)
           depth == [i \in D |-> n + 1 - i]
           G == [f \in [D -> S] |-> [i \in D |-> IF i > n THEN <<>> ELSE o[i] \o f[g[i]]]]
<1>1. S # {} /\ depth \in [D -> Nat]
  <2>1. <<>> \in S  BY EmptySeq
  <2> QED  BY <2>1
<1>2. \A i \in D : i > n \/ (i \in 1 .. n /\ o[i] \in S /\ g[i] \in D /\ depth[g[i]] < depth[i])
  <2> SUFFICES ASSUME NEW i \in D, ~(i > n)
               PROVE  i \in 1 .. n /\ o[i] \in S /\ g[i] \in D /\ depth[g[i]] < depth[i]
    OBVIOUS
  <2>1. i \in 1 .. n /\ g[i] \in D /\ g[i] > i  BY DEF Forward
  <2>2. depth[g[i]] = n + 1 - g[i] /\ depth[i] = n + 1 - i  BY <2>1
  <2> HIDE DEF depth
  <2> QED  BY <2>1, <2>2
<1>3. G \in [[D -> S] -> [D -> S]]
  <2>1. ASSUME NEW f \in [D -> S], NEW i \in D
        PROVE  (IF i > n THEN <<>> ELSE o[i] \o f[g[i]]) \in S
    <3>1. CASE i > n  BY <3>1, EmptySeq
    <3>2. CASE ~(i > n)
      <4>1. o[i] \in S /\ f[g[i]] \in S  BY <1>2, <3>2
      <4> QED  BY <3>2, <4>1, ConcatProperties
    <3> QED  BY <3>1, <3>2
  <2> HIDE DEF D, S
  <2> QED  BY <2>1
<1>4. OnlyBelow(D, S, depth, G)
  <2> SUFFICES ASSUME NEW f \in [D -> S], NEW h \in [D -> S], NEW i \in D,
                      \A y \in D : depth[y] < depth[i] => f[y] = h[y]
               PROVE  G[f][i] = G[h][i]
    BY DEF OnlyBelow
  <2>1. i > n \/ f[g[i]] = h[g[i]]
    <3> HIDE DEF D, S, depth, G
    <3> QED  BY <1>2
  <2>2. /\ G[f][i] = IF i > n THEN <<>> ELSE o[i] \o f[g[i]]
        /\ G[h][i] = IF i > n THEN <<>> ELSE o[i] \o h[g[i]]
    OBVIOUS
  <2> HIDE DEF D, S, depth, G
  <2> QED  BY <2>1, <2>2
<1> HIDE DEF depth
<1>5. RecursiveStep(D, S, depth, G)
  <2> HIDE DEF D, S, G
  <2> QED  BY <1>1, <1>3, <1>4 DEF RecursiveStep
<1>6. PICK f \in [D -> S] : f = G[f]
  <2> HIDE DEF D, S, G
  <2> QED  BY <1>5, RecursionExists
<1>7. f = [i \in D |-> IF i > n THEN <<>> ELSE o[i] \o f[g[i]]]  BY <1>6
<1> QED  BY <1>7 DEF IsChain

(* The values of a chain.                                                  *)
Chained(V, n, o, g, f) ==
  /\ \A i \in 1 .. n + 1 : f[i] \in Seq(V)
  /\ f[n + 1] = <<>>
  /\ \A i \in 1 .. n : f[i] = o[i] \o f[g[i]]

(* The values of a chain obey its equations and are sequences.             *)
LEMMA ChainIs ==
  ASSUME NEW V, NEW n \in Nat, NEW o \in [1 .. n -> Seq(V)], NEW g, Forward(n, g),
         NEW f, IsChain(n, o, g, f)
  PROVE  Chained(V, n, o, g, f)
<1>1. f[n + 1] = <<>>  BY DEF IsChain
<1>2. \A i \in 1 .. n : f[i] = o[i] \o f[g[i]]
  <2>1. \A i \in 1 .. n : i \in 1 .. n + 1 /\ ~(i > n)  OBVIOUS
  <2> QED  BY <2>1 DEF IsChain
<1>3. ASSUME NEW x \in 1 .. n + 1, f[x] \notin Seq(V) PROVE FALSE
  <2> DEFINE T == {d \in 0 .. n : f[n + 1 - d] \notin Seq(V)}
  <2>0. n + 1 - x \in 0 .. n /\ n + 1 - (n + 1 - x) = x  OBVIOUS
  <2>1. n + 1 - x \in T /\ T \subseteq Nat  BY <1>3, <2>0
  <2>2. PICK d \in T : \A y \in T : d <= y  BY <2>1, Least
  <2> DEFINE i == n + 1 - d
             e == n + 1 - g[i]
  <2>3. d \in 0 .. n /\ f[i] \notin Seq(V)  BY <2>2
  <2>4. i # n + 1
    <3>1. f[n + 1] \in Seq(V)  BY <1>1, EmptySeq
    <3> HIDE DEF i
    <3> QED  BY <2>3, <3>1
  <2>5. i \in 1 .. n  BY <2>3, <2>4
  <2> HIDE DEF i
  <2>6. g[i] \in 1 .. n + 1 /\ g[i] > i  BY <2>5 DEF Forward
  <2>7. e \in 0 .. n /\ e < d /\ n + 1 - e = g[i]  BY <2>3, <2>5, <2>6 DEF i
  <2>8. e \notin T  BY <2>2, <2>3, <2>7
  <2>9. f[g[i]] \in Seq(V)
    <3> HIDE DEF e
    <3> QED  BY <2>7, <2>8
  <2>10. f[i] = o[i] \o f[g[i]] /\ o[i] \in Seq(V)  BY <1>2, <2>5
  <2> QED  BY <2>3, <2>9, <2>10, ConcatProperties
<1> QED  BY <1>1, <1>2, <1>3 DEF Chained

-----------------------------------------------------------------------------
(* The pieces of a text.                                                   *)
Characters == STRING \union {Nul, Newline, Tick, Quote, Backslash, "n"}

Strings == Seq(Characters)

(* The files are texts.                                                    *)
LEMMA TextIsStrings ==
  ASSUME text \in Texts
  PROVE  text \in Strings
<1> PICK t : t = text  OBVIOUS
<1>1. t \in Seq(STRING)  BY TextsAssumption DEF TextsAssumption
<1>2. Len(t) \in Nat /\ DOMAIN t = 1 .. Len(t)  BY <1>1, LenProperties
<1>3. \A k \in 1 .. Len(t) : t[k] \in Characters  BY <1>1, ElementOfSeq DEF Characters
<1>4. t \in Seq(Characters)  BY <1>1, <1>2, <1>3
<1> QED  BY <1>4 DEF Strings

(* A piece is a part of the text that is not empty, and no lexeme that     *)
(* begins there is longer.                                                 *)
LEMMA PieceIs ==
  ASSUME NEW t \in Strings, NEW i \in 1 .. Len(t)
  PROVE  LET w == Piece(t, i)
             j == i + Len(w) - 1
         IN  /\ w \in Strings /\ Len(w) >= 1 /\ j \in i .. Len(t) /\ w = SubSeq(t, i, j)
             /\ \A k \in i .. Len(t) : IsLexeme(SubSeq(t, i, k)) => IsLexeme(w) /\ k <= j
<1> DEFINE ends == {j \in i .. Len(t) : IsLexeme(SubSeq(t, i, j))}
           m == IF ends = {} THEN Len(t)
                ELSE CHOOSE j \in ends : \A k \in ends : k <= j
           n == Len(t)
<1>1. n \in Nat  BY LenProperties DEF Strings
<1>2. m \in i .. n /\ \A k \in ends : m \in ends /\ k <= m
  <2>1. CASE ends = {}  BY <1>1, <2>1
  <2>2. CASE ends # {}
    <3> DEFINE T == {n - k : k \in ends}
    <3>1. T \subseteq Nat /\ T # {}  BY <1>1, <2>2
    <3>2. PICK x \in T : \A y \in T : x <= y  BY <3>1, Least
    <3>3. PICK j \in ends : x = n - j  BY <3>2
    <3>4. \A k \in ends : k <= j
      <4> SUFFICES ASSUME NEW k \in ends PROVE k <= j
        OBVIOUS
      <4>1. n - j <= n - k  BY <3>2, <3>3
      <4>2. j \in Nat /\ k \in Nat  OBVIOUS
      <4> HIDE DEF ends, T
      <4> QED  BY <1>1, <4>1, <4>2
    <3>5. ends \subseteq i .. n  OBVIOUS
    <3>6. m \in ends /\ \A k \in ends : k <= m
      <4> HIDE DEF ends, T
      <4> QED  BY <2>2, <3>4
    <3> QED  BY <3>5, <3>6
  <2> QED  BY <2>1, <2>2
<1>3. Piece(t, i) = SubSeq(t, i, m)  BY DEF Piece
<1>4. \A k \in i .. n : IsLexeme(SubSeq(t, i, k)) => IsLexeme(SubSeq(t, i, m)) /\ k <= m
  BY <1>2
<1> HIDE DEF m, n, ends
<1>5. SubSeq(t, i, m) \in Strings /\ Len(SubSeq(t, i, m)) = m - i + 1
  <2>1. m \in i .. Len(t) /\ Len(t) \in Nat  BY <1>1, <1>2 DEF n
  <2>2. i \in 1 .. Len(t) + 1 /\ m \in i - 1 .. Len(t)  BY <2>1
  <2> QED  BY <2>1, <2>2, SubSeqProperties DEF Strings
<1>6. m - i + 1 >= 1 /\ i + (m - i + 1) - 1 = m  BY <1>1, <1>2
<1> QED  BY <1>2, <1>3, <1>4, <1>5, <1>6 DEF n

(* What follows the pieces before i.                                       *)
PiecesFrom(t) ==
  CHOOSE f : f = [i \in 1 .. Len(t) + 1 |->
                    IF i > Len(t) THEN <<>>
                    ELSE <<Piece(t, i)>> \o f[i + Len(Piece(t, i))]]

MeantFrom(t) ==
  CHOOSE f : f = [i \in 1 .. Len(t) + 1 |->
                    IF i > Len(t) THEN <<>>
                    ELSE Kept(Piece(t, i)) \o f[i + Len(Piece(t, i))]]

(* The pieces and the tokens of a text are those from its first character  *)
(* on.                                                                     *)
LEMMA FromAre == \A t : Pieces(t) = PiecesFrom(t)[1] /\ TokensMeant(t) = MeantFrom(t)[1]
BY DEF Pieces, TokensMeant, Along, PiecesFrom, MeantFrom

(* The place after the piece at i.                                         *)
PieceEnds(t) == [i \in 1 .. Len(t) |-> i + Len(Piece(t, i))]

(* The place after a piece is further on, and in the text or just past     *)
(* it.                                                                     *)
LEMMA PieceEndsForward ==
  ASSUME NEW t \in Strings
  PROVE  Len(t) \in Nat /\ Forward(Len(t), PieceEnds(t))
<1> DEFINE n == Len(t)
           g == PieceEnds(t)
<1>1. n \in Nat  BY LenProperties DEF Strings
<1>2. \A i \in 1 .. n : i + Len(Piece(t, i)) \in 1 .. n + 1 /\ i + Len(Piece(t, i)) > i
  <2> SUFFICES ASSUME NEW i \in 1 .. n
               PROVE  i + Len(Piece(t, i)) \in 1 .. n + 1 /\ i + Len(Piece(t, i)) > i
    OBVIOUS
  <2> DEFINE w == Piece(t, i)
             l == Len(w)
  <2>1. w \in Strings /\ l >= 1 /\ i + l - 1 \in i .. n  BY PieceIs
  <2>2. l \in Nat  BY <2>1, LenProperties DEF Strings
  <2> HIDE DEF l, n
  <2>3. i + l \in 1 .. n + 1 /\ i + l > i  BY <1>1, <2>1, <2>2
  <2> QED  BY <2>3 DEF l
<1>3. g = [i \in 1 .. n |-> i + Len(Piece(t, i))]  BY DEF PieceEnds
<1> HIDE DEF g, n
<1>4. Forward(n, g)  BY <1>2, <1>3 DEF Forward
<1> QED  BY <1>1, <1>4 DEF n, g

(* The equations of the pieces from i on.                                  *)
LEMMA PiecesFromIs ==
  ASSUME NEW t \in Strings
  PROVE  /\ \A i \in 1 .. Len(t) + 1 : PiecesFrom(t)[i] \in Seq(Strings)
         /\ PiecesFrom(t)[Len(t) + 1] = <<>>
         /\ \A i \in 1 .. Len(t) :
              PiecesFrom(t)[i] = <<Piece(t, i)>> \o PiecesFrom(t)[i + Len(Piece(t, i))]
<1> DEFINE n == Len(t)
           g == PieceEnds(t)
           P == PiecesFrom(t)
           o == [i \in 1 .. n |-> <<Piece(t, i)>>]
           Is(f) == f = [i \in 1 .. n + 1 |->
                           IF i > n THEN <<>>
                           ELSE <<Piece(t, i)>> \o f[i + Len(Piece(t, i))]]
<1>1. n \in Nat /\ Forward(n, g)  BY PieceEndsForward
<1>2. o \in [1 .. n -> Seq(Strings)]
  <2>1. \A i \in 1 .. n : Piece(t, i) \in Strings  BY PieceIs
  <2> HIDE DEF n
  <2> QED  BY <2>1
<1>3. /\ \A i \in 1 .. n : o[i] = <<Piece(t, i)>> /\ g[i] = i + Len(Piece(t, i))
      /\ P = CHOOSE f : Is(f)
  BY DEF PieceEnds, PiecesFrom
<1> HIDE DEF n, g, P, o
<1>4. \A f : Is(f) <=> IsChain(n, o, g, f)
  <2>1. \A i \in 1 .. n + 1 : i > n \/ i \in 1 .. n  BY <1>1
  <2> QED  BY <1>3, <2>1 DEF IsChain
<1>5. IsChain(n, o, g, P)
  <2>1. \E f : IsChain(n, o, g, f)  BY <1>1, <1>2, ChainExists
  <2>2. \E f : Is(f)  BY <1>4, <2>1
  <2> HIDE DEF Is
  <2>3. Is(P)  BY <1>3, <2>2
  <2> QED  BY <1>4, <2>3
<1> HIDE DEF Is
<1>6. Chained(Strings, n, o, g, P)  BY <1>1, <1>2, <1>5, ChainIs
<1> QED  BY <1>3, <1>6 DEF Chained, n, P

Meanings == {Meant(w) : w \in Strings}

(* The equations of the tokens meant from i on.                            *)
LEMMA MeantFromIs ==
  ASSUME NEW t \in Strings
  PROVE  /\ \A i \in 1 .. Len(t) + 1 : MeantFrom(t)[i] \in Seq(Meanings)
         /\ MeantFrom(t)[Len(t) + 1] = <<>>
         /\ \A i \in 1 .. Len(t) :
              MeantFrom(t)[i] = Kept(Piece(t, i)) \o MeantFrom(t)[i + Len(Piece(t, i))]
<1> DEFINE n == Len(t)
           g == PieceEnds(t)
           P == MeantFrom(t)
           o == [i \in 1 .. n |-> Kept(Piece(t, i))]
           Is(f) == f = [i \in 1 .. n + 1 |->
                           IF i > n THEN <<>>
                           ELSE Kept(Piece(t, i)) \o f[i + Len(Piece(t, i))]]
<1>1. n \in Nat /\ Forward(n, g)  BY PieceEndsForward
<1>2. o \in [1 .. n -> Seq(Meanings)]
  <2>1. \A w \in Strings : Kept(w) \in Seq(Meanings)
    <3> SUFFICES ASSUME NEW w \in Strings PROVE Kept(w) \in Seq(Meanings)
      OBVIOUS
    <3>1. Meant(w) \in Meanings  BY DEF Meanings
    <3>2. <<Meant(w)>> \in Seq(Meanings) /\ <<>> \in Seq(Meanings)  BY <3>1
    <3> QED  BY <3>2 DEF Kept
  <2>2. \A i \in 1 .. n : Piece(t, i) \in Strings  BY PieceIs
  <2> HIDE DEF n
  <2> QED  BY <2>1, <2>2
<1>3. /\ \A i \in 1 .. n : o[i] = Kept(Piece(t, i)) /\ g[i] = i + Len(Piece(t, i))
      /\ P = CHOOSE f : Is(f)
  BY DEF PieceEnds, MeantFrom
<1> HIDE DEF n, g, P, o
<1>4. \A f : Is(f) <=> IsChain(n, o, g, f)
  <2>1. \A i \in 1 .. n + 1 : i > n \/ i \in 1 .. n  BY <1>1
  <2> QED  BY <1>3, <2>1 DEF IsChain
<1>5. IsChain(n, o, g, P)
  <2>1. \E f : IsChain(n, o, g, f)  BY <1>1, <1>2, ChainExists
  <2>2. \E f : Is(f)  BY <1>4, <2>1
  <2> HIDE DEF Is
  <2>3. Is(P)  BY <1>3, <2>2
  <2> QED  BY <1>4, <2>3
<1> HIDE DEF Is
<1>6. Chained(Meanings, n, o, g, P)  BY <1>1, <1>2, <1>5, ChainIs
<1> QED  BY <1>3, <1>6 DEF Chained, n, P

-----------------------------------------------------------------------------
(* The first character of a lexeme tells its kind.                         *)
Marks == Single \union MayBeDouble \union {Nul, "/", "!", Tick, Quote, Backslash}

(* The classes of characters do not overlap.                               *)
LEMMA Classes ==
  /\ \A c \in Digits : c \notin Letters /\ c \notin Spaces /\ c \notin Marks
  /\ \A c \in Letters : c \notin Spaces /\ c \notin Marks
  /\ \A c \in Spaces : c \notin Marks
  /\ Newline \in Spaces
BY ClassesAssumption DEF ClassesAssumption, Marks

(* The first character of each kind of lexeme.                             *)
LEMMA FirstOf ==
  ASSUME NEW w \in Strings
  PROVE  /\ IsNumber(w) => Len(w) >= 1 /\ w[1] \in Digits
         /\ IsWord(w) => Len(w) >= 1 /\ w[1] \in Letters
         /\ IsBlank(w) => Len(w) = 1 /\ w[1] \in Spaces
         /\ IsChar(w) => Len(w) >= 1 /\ w[1] = Tick
         /\ IsString(w) => Len(w) >= 1 /\ w[1] = Quote
         /\ IsComment(w) => Len(w) >= 1 /\ w[1] = "/"
<1>1. Len(w) \in Nat /\ DOMAIN w = 1 .. Len(w) /\ (w # <<>> => Len(w) >= 1)
  BY LenProperties, EmptySeq DEF Strings
<1>2. IsNumber(w) => Len(w) >= 1 /\ w[1] \in Digits
  <2>1. Len(w) >= 1 => 1 \in DOMAIN w  BY <1>1
  <2> QED  BY <1>1, <2>1 DEF IsNumber, All
<1>3. IsWord(w) => Len(w) >= 1 /\ w[1] \in Letters  BY <1>1 DEF IsWord
<1>4. IsBlank(w) => Len(w) = 1 /\ w[1] \in Spaces  BY <1>1 DEF IsBlank
<1>5. IsChar(w) => Len(w) >= 1 /\ w[1] = Tick
  <2>1. CASE w = <<Tick, Backslash, "n", Tick>>
    <3>1. Len(<<Tick, Backslash, "n", Tick>>) = 4 /\ <<Tick, Backslash, "n", Tick>>[1] = Tick
      OBVIOUS
    <3> QED  BY <2>1, <3>1
  <2>2. CASE w # <<Tick, Backslash, "n", Tick>>  BY <2>2 DEF IsChar
  <2> QED  BY <2>1, <2>2
<1>6. IsString(w) => Len(w) >= 1 /\ w[1] = Quote  BY <1>1 DEF IsString
<1>7. IsComment(w) => Len(w) >= 1 /\ w[1] = "/"  BY <1>1 DEF IsComment
<1> QED  BY <1>2, <1>3, <1>4, <1>5, <1>6, <1>7

(* The symbols are those next_token knows.                                 *)
LEMMA SymbolIs ==
  ASSUME NEW w \in Symbols
  PROVE  \/ \E c \in Single \union MayBeDouble \union {"/"} : w = <<c>>
         \/ \E c \in MayBeDouble \union {"!"} : w = <<c, "=">>
<1>1. CASE w \in {<<x>> : x \in {":", ",", ";", "{", "}", "[", "]", "(", ")",
                                "+", "-", "*", "/", "=", ">", "<"}}
  <2>1. PICK x \in {":", ",", ";", "{", "}", "[", "]", "(", ")",
                    "+", "-", "*", "/", "=", ">", "<"} : w = <<x>>
    BY <1>1
  <2>2. x \in Single \union MayBeDouble \union {"/"}  BY DEF Single, MayBeDouble
  <2> QED  BY <2>1, <2>2
<1>2. CASE w \in {<<x, "=">> : x \in {"=", "!", ">", "<"}}
  <2>1. PICK x \in {"=", "!", ">", "<"} : w = <<x, "=">>  BY <1>2
  <2>2. x \in MayBeDouble \union {"!"}  BY DEF MayBeDouble
  <2> QED  BY <2>1, <2>2
<1> QED  BY <1>1, <1>2 DEF Symbols

(* Tuples of one and of two.                                               *)
LEMMA ShortIs ==
  ASSUME NEW x, NEW y
  PROVE  /\ Len(<<x>>) = 1 /\ <<x>>[1] = x
         /\ Len(<<x, y>>) = 2 /\ <<x, y>>[1] = x /\ <<x, y>>[2] = y
OBVIOUS

(* What the first character says of a symbol.                              *)
LEMMA SymbolFirst ==
  ASSUME NEW w \in Symbols
  PROVE  /\ Len(w) \in 1 .. 2
         /\ w[1] \in Single \union MayBeDouble \union {"/", "!"}
         /\ w[1] \in Single => w = <<w[1]>>
         /\ w[1] \in MayBeDouble => w \in {<<w[1]>>, <<w[1], "=">>}
         /\ w[1] = "/" => w = <<"/">>
         /\ w[1] = "!" => w = <<"!", "=">>
<1>0. /\ Single \intersect (MayBeDouble \union {"/", "!"}) = {}
      /\ MayBeDouble \intersect {"/", "!"} = {} /\ "/" # "!"
  BY DEF Single, MayBeDouble
<1>1. CASE \E c \in Single \union MayBeDouble \union {"/"} : w = <<c>>
  <2>1. PICK c \in Single \union MayBeDouble \union {"/"} : w = <<c>>  BY <1>1
  <2>2. Len(w) = 1 /\ w[1] = c  BY <2>1, ShortIs
  <2> QED  BY <1>0, <2>1, <2>2
<1>2. CASE \E c \in MayBeDouble \union {"!"} : w = <<c, "=">>
  <2>1. PICK c \in MayBeDouble \union {"!"} : w = <<c, "=">>  BY <1>2
  <2>2. Len(w) = 2 /\ w[1] = c  BY <2>1, ShortIs
  <2> QED  BY <1>0, <2>1, <2>2
<1> QED  BY <1>1, <1>2, SymbolIs

Tells(c, w) ==
  /\ c \in Digits <=> IsNumber(w)
  /\ c \in Letters <=> IsWord(w)
  /\ c \in Spaces <=> IsBlank(w)
  /\ c = Tick <=> IsChar(w)
  /\ c = Quote <=> IsString(w)
  /\ c \in Single \union MayBeDouble \union {"!"} => w \in Symbols
  /\ c = "/" <=> IsComment(w) \/ w = <<"/">>
  /\ w \in Symbols => ~IsComment(w) /\ c \in Single \union MayBeDouble \union {"!", "/"}
  /\ c \in Digits \union Letters \union Spaces \union Single \union MayBeDouble
             \union {Tick, Quote, "/", "!"}

(* The first character of a lexeme decides its kind.                       *)
LEMMA FirstTells ==
  ASSUME NEW w \in Strings, IsLexeme(w)
  PROVE  Len(w) >= 1 /\ Tells(w[1], w)
<1> DEFINE c == w[1]
<1>0. /\ Tick # Quote /\ Tick # "/" /\ Quote # "/" /\ Tick # "!" /\ Quote # "!" /\ "/" # "!"
      /\ {Tick, Quote, "/", "!"} \subseteq Marks /\ Single \union MayBeDouble \subseteq Marks
      /\ (Single \union MayBeDouble) \intersect {Tick, Quote, "/", "!"} = {}
  BY DEF Tick, Quote, Marks, Single, MayBeDouble
<1>1. /\ IsNumber(w) => Len(w) >= 1 /\ c \in Digits
      /\ IsWord(w) => Len(w) >= 1 /\ c \in Letters
      /\ IsBlank(w) => Len(w) >= 1 /\ c \in Spaces
      /\ IsChar(w) => Len(w) >= 1 /\ c = Tick
      /\ IsString(w) => Len(w) >= 1 /\ c = Quote
      /\ IsComment(w) => Len(w) >= 1 /\ c = "/"
  BY FirstOf
<1>2. w \in Symbols => /\ Len(w) >= 1
                       /\ c \in Single \union MayBeDouble \union {"/", "!"}
                       /\ c = "/" => w = <<"/">> /\ ~IsComment(w)
  <2>1. ~IsComment(<<"/">>)  BY ShortIs DEF IsComment
  <2> QED  BY <2>1, SymbolFirst
<1>3. \/ IsNumber(w) \/ IsWord(w) \/ IsChar(w) \/ IsString(w)
      \/ IsBlank(w) \/ IsComment(w) \/ w \in Symbols
  BY DEF IsLexeme
<1>4. <<"/">> \in Symbols  BY DEF Symbols
<1>7. w = <<"/">> => c = "/"  BY ShortIs
<1> HIDE DEF c
<1>5. Len(w) >= 1  BY <1>1, <1>2, <1>3
<1>6. Tells(c, w)
  <2>1. CASE IsNumber(w)  BY <2>1, <1>0, <1>1, <1>2, <1>4, Classes DEF Tells
  <2>2. CASE IsWord(w)  BY <2>2, <1>0, <1>1, <1>2, <1>4, Classes DEF Tells
  <2>3. CASE IsChar(w)  BY <2>3, <1>0, <1>1, <1>2, <1>4, Classes DEF Tells
  <2>4. CASE IsString(w)  BY <2>4, <1>0, <1>1, <1>2, <1>4, Classes DEF Tells
  <2>5. CASE IsBlank(w)  BY <2>5, <1>0, <1>1, <1>2, <1>4, Classes DEF Tells
  <2>6. CASE IsComment(w)  BY <2>6, <1>0, <1>1, <1>2, <1>4, Classes DEF Tells
  <2>7. CASE w \in Symbols  BY <2>7, <1>0, <1>1, <1>2, <1>4, <1>7, Classes DEF Tells
  <2> QED  BY <1>3, <2>1, <2>2, <2>3, <2>4, <2>5, <2>6, <2>7
<1> QED  BY <1>5, <1>6 DEF c

(* What is made of a lexeme.                                               *)
LEMMA MeantIs ==
  ASSUME NEW w \in Strings, IsLexeme(w)
  PROVE  /\ IsNumber(w) => Meant(w) = [kind |-> "NUMBER", text |-> w]
         /\ IsWord(w) => Meant(w) = [kind |-> IF w \in Keywords THEN "ONLY_TYPE" ELSE "IDENTIFIER",
                                     text |-> w]
         /\ IsChar(w) => Meant(w) = [kind |-> "CHAR_LITERAL",
                                     text |-> IF Len(w) = 4 THEN <<Newline>> ELSE <<w[2]>>]
         /\ IsString(w) => Meant(w) = [kind |-> "STRING_LITERAL",
                                       text |-> SubSeq(w, 2, Len(w) - 1)]
         /\ w \in Symbols => Meant(w) = [kind |-> "ONLY_TYPE", text |-> w]
         /\ IsBlank(w) \/ IsComment(w) => Kept(w) = <<>>
         /\ ~IsBlank(w) /\ ~IsComment(w) => Kept(w) = <<Meant(w)>>
<1>1. Tells(w[1], w)  BY FirstTells
<1> DEFINE c == w[1]
<1>2. /\ Tick # Quote /\ Tick # "/" /\ Quote # "/" /\ Tick # "!" /\ Quote # "!" /\ "/" # "!"
      /\ {Tick, Quote, "/", "!"} \subseteq Marks /\ Single \union MayBeDouble \subseteq Marks
      /\ (Single \union MayBeDouble) \intersect {Tick, Quote, "/", "!"} = {}
  BY DEF Tick, Quote, Marks, Single, MayBeDouble
<1> HIDE DEF c
<1>3. /\ IsNumber(w) => ~IsWord(w) /\ ~IsChar(w) /\ ~IsString(w)
      /\ IsWord(w) => ~IsNumber(w) /\ ~IsChar(w) /\ ~IsString(w)
      /\ IsChar(w) => ~IsNumber(w) /\ ~IsWord(w) /\ ~IsString(w)
      /\ IsString(w) => ~IsNumber(w) /\ ~IsWord(w) /\ ~IsChar(w)
      /\ w \in Symbols => ~IsNumber(w) /\ ~IsWord(w) /\ ~IsChar(w) /\ ~IsString(w)
  BY <1>1, <1>2, Classes DEF Tells
<1>4. IsNumber(w) => Meant(w) = [kind |-> "NUMBER", text |-> w]
  BY <1>3 DEF Meant
<1>5. IsWord(w) => Meant(w) = [kind |-> IF w \in Keywords THEN "ONLY_TYPE" ELSE "IDENTIFIER",
                               text |-> w]
  BY <1>3 DEF Meant
<1>6. IsChar(w) => Meant(w) = [kind |-> "CHAR_LITERAL",
                               text |-> IF Len(w) = 4 THEN <<Newline>> ELSE <<w[2]>>]
  BY <1>3 DEF Meant
<1>7. IsString(w) => Meant(w) = [kind |-> "STRING_LITERAL", text |-> SubSeq(w, 2, Len(w) - 1)]
  BY <1>3 DEF Meant
<1>8. w \in Symbols => Meant(w) = [kind |-> "ONLY_TYPE", text |-> w]
  BY <1>3 DEF Meant
<1>9. /\ IsBlank(w) \/ IsComment(w) => Kept(w) = <<>>
      /\ ~IsBlank(w) /\ ~IsComment(w) => Kept(w) = <<Meant(w)>>
  BY DEF Kept
<1> QED  BY <1>4, <1>5, <1>6, <1>7, <1>8, <1>9

-----------------------------------------------------------------------------
(* A token without its position; what is shown of a list; the lexemes that *)
(* are kept; the tokens of such lexemes.                                   *)
Bare(x) == [kind |-> x.kind, text |-> x.text]

Shown(list) == [k \in DOMAIN list |-> Bare(list[k])]

IsKept(w) ==
  /\ w \in Strings /\ IsLexeme(w) /\ ~IsBlank(w) /\ ~IsComment(w)
  /\ \A k \in 1 .. Len(w) : w[k] # Nul

IsMeant(x) == \E w : IsKept(w) /\ Bare(x) = Meant(w)

(* The list holds what is meant by the pieces before the one that begins   *)
(* at i.                                                                   *)
Reached(t, list, i) ==
  /\ i \in 1 .. Len(t) + 1
  /\ \E a \in Seq(Strings) : Pieces(t) = a \o PiecesFrom(t)[i]
  /\ IsSeq(list) /\ \A k \in DOMAIN list : IsMeant(list[k])
  /\ Shown(list) \o MeantFrom(t)[i] = TokensMeant(t)

(* What is shown of a list has an element for each of its tokens.          *)
LEMMA ShownIs ==
  ASSUME NEW list, IsSeq(list), \A k \in DOMAIN list : IsMeant(list[k])
  PROVE  /\ Shown(list) \in Seq(Meanings) /\ Len(Shown(list)) = Len(list)
         /\ Len(list) \in Nat /\ DOMAIN list = 1 .. Len(list)
         /\ \A k \in 1 .. Len(list) : Shown(list)[k] = Bare(list[k])
<1>1. Len(list) \in Nat /\ DOMAIN list = 1 .. Len(list)
  BY LenProperties DEF IsSeq
<1>2. \A k \in DOMAIN list : Bare(list[k]) \in Meanings
  BY DEF IsMeant, IsKept, Meanings
<1> DEFINE n == Len(list)
           s == Shown(list)
<1>3. s \in [1 .. n -> Meanings] /\ \A k \in 1 .. n : s[k] = Bare(list[k])
  BY <1>1, <1>2 DEF Shown
<1>4. n \in Nat  BY <1>1
<1> HIDE DEF n, s
<1>5. s \in Seq(Meanings)  BY <1>3, <1>4, SeqDef
<1>6. Len(s) = n  BY <1>3, <1>4, <1>5, LenProperties
<1> QED  BY <1>1, <1>3, <1>5, <1>6 DEF n, s

(* One more token, one more element shown.                                 *)
LEMMA ShownAppend ==
  ASSUME NEW list, IsSeq(list), \A k \in DOMAIN list : IsMeant(list[k]),
         NEW x, IsMeant(x)
  PROVE  /\ IsSeq(Append(list, x)) /\ \A k \in DOMAIN Append(list, x) : IsMeant(Append(list, x)[k])
         /\ Shown(Append(list, x)) = Shown(list) \o <<Bare(x)>>
<1> DEFINE q == Append(list, x)
           n == Len(list)
           s == Shown(list)
           b == <<Bare(x)>>
<1>1. /\ n \in Nat /\ Len(q) = n + 1 /\ IsSeq(q)
      /\ \A k \in 1 .. n : q[k] = list[k]
      /\ q[n + 1] = x
  BY Appended
<1>2. s \in Seq(Meanings) /\ Len(s) = n /\ DOMAIN list = 1 .. n
      /\ \A k \in 1 .. n : s[k] = Bare(list[k])
  BY ShownIs
<1>3. Bare(x) \in Meanings  BY DEF IsMeant, IsKept, Meanings
<1>4. b \in Seq(Meanings) /\ Len(b) = 1 /\ b[1] = Bare(x)  BY <1>3
<1>5. DOMAIN q = 1 .. n + 1
  <2>1. DOMAIN q = 1 .. Len(q)  BY <1>1, LenProperties DEF IsSeq
  <2> QED  BY <1>1, <2>1
<1> HIDE DEF q, n, s, b
<1>6. \A k \in DOMAIN q : IsMeant(q[k])
  <2>1. \A k \in 1 .. n + 1 : k \in 1 .. n \/ k = n + 1  BY <1>1
  <2> QED  BY <1>1, <1>2, <1>5, <2>1
<1>7. /\ Shown(q) \in Seq(Meanings) /\ Len(Shown(q)) = n + 1
      /\ \A k \in 1 .. n + 1 : Shown(q)[k] = Bare(q[k])
  BY <1>1, <1>6, ShownIs
<1>8. /\ s \o b \in Seq(Meanings) /\ Len(s \o b) = n + 1
      /\ \A k \in 1 .. n + 1 : (s \o b)[k] = IF k <= n THEN s[k] ELSE b[k - n]
  <2>1. s \in Seq(Meanings) /\ b \in Seq(Meanings)  BY <1>2, <1>4
  <2>2. /\ s \o b \in Seq(Meanings) /\ Len(s \o b) = Len(s) + Len(b)
        /\ \A k \in 1 .. Len(s) + Len(b) :
             (s \o b)[k] = IF k <= Len(s) THEN s[k] ELSE b[k - Len(s)]
    BY <2>1, ConcatProperties
  <2>3. Len(s) = n /\ Len(b) = 1  BY <1>2, <1>4
  <2> QED  BY <2>2, <2>3
<1> DEFINE z == s \o b
           y == Shown(q)
<1>9. \A k \in 1 .. n + 1 : y[k] = z[k]
  <2> SUFFICES ASSUME NEW k \in 1 .. n + 1 PROVE y[k] = z[k]
    OBVIOUS
  <2>1. CASE k \in 1 .. n  BY <1>1, <1>2, <1>7, <1>8, <2>1
  <2>2. CASE k = n + 1
    <3>1. ~(n + 1 <= n) /\ n + 1 - n = 1  BY <1>1
    <3> QED  BY <1>1, <1>4, <1>7, <1>8, <2>2, <3>1
  <2>3. k \in 1 .. n \/ k = n + 1  BY <1>1
  <2> QED  BY <2>1, <2>2, <2>3
<1> HIDE DEF z, y
<1>10. y = z
  <2>1. y \in Seq(Meanings) /\ z \in Seq(Meanings) /\ Len(y) = n + 1 /\ Len(z) = n + 1
    BY <1>7, <1>8 DEF y, z
  <2>2. Len(y) = Len(z) /\ \A k \in 1 .. Len(y) : y[k] = z[k]  BY <1>9, <2>1
  <2> QED  BY <2>1, <2>2, SeqEqual
<1> QED  BY <1>1, <1>6, <1>10 DEF q, s, b, z, y

(* Where the next piece begins.                                            *)
LEMMA AfterPiece ==
  ASSUME NEW t \in Strings, NEW i \in 1 .. Len(t)
  PROVE  /\ Len(Piece(t, i)) \in Nat /\ Len(Piece(t, i)) >= 1 /\ Len(t) \in Nat
         /\ i + Len(Piece(t, i)) \in 1 .. Len(t) + 1
         /\ i + Len(Piece(t, i)) > i
         /\ Piece(t, i) \in Strings
         /\ \A k \in 1 .. Len(Piece(t, i)) : Piece(t, i)[k] = t[i + k - 1]
<1> DEFINE w == Piece(t, i)
           l == Len(w)
           n == Len(t)
           j == i + l - 1
<1>1. w \in Strings /\ l >= 1 /\ j \in i .. n /\ w = SubSeq(t, i, j)  BY PieceIs
<1>2. l \in Nat /\ n \in Nat  BY <1>1, LenProperties DEF Strings
<1>3. \A k \in 1 .. l : w[k] = t[i + k - 1]
  <2>1. \A k \in 1 .. n : t[k] \in Characters  BY ElementOfSeq DEF Strings
  <2> HIDE DEF w, n
  <2>2. \A k \in i .. j : t[k] \in Characters  BY <1>1, <1>2, <2>1
  <2>3. i \in Int /\ j \in Int /\ j - i + 1 = l  BY <1>1, <1>2
  <2> HIDE DEF j, l
  <2>4. \A k \in 1 .. j - i + 1 : SubSeq(t, i, j)[k] = t[i + k - 1]
    BY <2>2, <2>3, SubSeqProperties
  <2> QED  BY <1>1, <2>3, <2>4
<1> HIDE DEF w, l, n
<1>4. i + l \in 1 .. n + 1 /\ i + l > i
  <2>1. j \in i .. n /\ i \in 1 .. n  BY <1>1 DEF n
  <2> QED  BY <1>1, <1>2, <2>1
<1> QED  BY <1>1, <1>2, <1>3, <1>4 DEF w, l, n

(* The pieces of the text with the one at i among them, and what follows   *)
(* it.                                                                     *)
LEMMA PiecesGoOn ==
  ASSUME NEW t \in Strings, NEW i \in 1 .. Len(t), NEW a \in Seq(Strings),
         Pieces(t) = a \o PiecesFrom(t)[i]
  PROVE  LET w == Piece(t, i)
             e == i + Len(w)
         IN  /\ a \o <<w>> \in Seq(Strings)
             /\ Pieces(t) = (a \o <<w>>) \o PiecesFrom(t)[e]
             /\ Len(a) + 1 \in DOMAIN Pieces(t) /\ Pieces(t)[Len(a) + 1] = w
             /\ DOMAIN Pieces(t) = 1 .. Len(a) + 1 + Len(PiecesFrom(t)[e])
             /\ \A k \in 1 .. Len(PiecesFrom(t)[e]) :
                  Pieces(t)[Len(a) + 1 + k] = PiecesFrom(t)[e][k]
<1> DEFINE w == Piece(t, i)
           e == i + Len(w)
           b == PiecesFrom(t)[e]
           p == Pieces(t)
           c == <<w>>
           d == a \o c
<1>1. w \in Strings /\ e \in 1 .. Len(t) + 1  BY AfterPiece
<1>2. b \in Seq(Strings) /\ PiecesFrom(t)[i] = c \o b  BY <1>1, PiecesFromIs
<1>3. c \in Seq(Strings) /\ Len(c) = 1 /\ c[1] = w  BY <1>1
<1>4. p = a \o (c \o b)  BY <1>2
<1> HIDE DEF w, e, b, c, p
<1>5. d \in Seq(Strings) /\ Len(d) = Len(a) + Len(c) /\ Len(a) \in Nat /\ Len(b) \in Nat
      /\ \A k \in 1 .. Len(a) + Len(c) : d[k] = IF k <= Len(a) THEN a[k] ELSE c[k - Len(a)]
  BY <1>2, <1>3, ConcatProperties, LenProperties
<1>6. p = d \o b
  <2>1. a \in Seq(Strings) /\ c \in Seq(Strings) /\ b \in Seq(Strings)  BY <1>2, <1>3
  <2>2. (a \o c) \o b = a \o (c \o b)  BY <2>1, ConcatAssociative, SMTT(30)
  <2> QED  BY <1>4, <2>2
<1> DEFINE m == Len(a)
           n == Len(b)
<1>7. Len(d) = m + 1 /\ d[m + 1] = w
  <2>1. m + 1 \in 1 .. m + 1 /\ ~(m + 1 <= m) /\ m + 1 - m = 1  BY <1>5
  <2> HIDE DEF d
  <2> QED  BY <1>3, <1>5, <2>1
<1> HIDE DEF d
<1>8. /\ p \in Seq(Strings) /\ Len(p) = Len(d) + Len(b)
      /\ \A k \in 1 .. Len(d) + Len(b) : p[k] = IF k <= Len(d) THEN d[k] ELSE b[k - Len(d)]
  <2>1. d \in Seq(Strings) /\ b \in Seq(Strings)  BY <1>2, <1>5
  <2> HIDE DEF m, n
  <2> QED  BY <1>6, <2>1, ConcatProperties
<1>9. DOMAIN p = 1 .. Len(p)  BY <1>8, LenProperties
<1>10. m \in Nat /\ n \in Nat  BY <1>5
<1> HIDE DEF m, n
<1>11. /\ Len(p) = m + 1 + n
       /\ \A k \in 1 .. m + 1 + n : p[k] = IF k <= m + 1 THEN d[k] ELSE b[k - (m + 1)]
  BY <1>7, <1>8 DEF n
<1>12. m + 1 \in 1 .. m + 1 + n /\ m + 1 <= m + 1  BY <1>10
<1>13. \A k \in 1 .. n : m + 1 + k \in 1 .. m + 1 + n /\ ~(m + 1 + k <= m + 1) /\ m + 1 + k - (m + 1) = k
  BY <1>10
<1>14. p[m + 1] = w /\ \A k \in 1 .. n : p[m + 1 + k] = b[k]
  BY <1>7, <1>11, <1>12, <1>13
<1> QED  BY <1>5, <1>6, <1>9, <1>11, <1>12, <1>14 DEF m, n, w, e, b, c, d, p

(* What is promised of the piece that begins where the lexer is.           *)
Promising(t, i) ==
  LET w == Piece(t, i)
      e == i + Len(w)
  IN  /\ IsLexeme(w)
      /\ IsNumber(w) \/ IsWord(w) => Len(w) <= LenMod
      /\ IsString(w) => /\ Len(w) - 2 <= LenMod
                        /\ e = Len(t) + 1 \/ (e \in 1 .. Len(t) /\ IsBlank(Piece(t, e)))

(* What is promised of the text is promised of the piece at i.             *)
LEMMA PieceGood ==
  ASSUME text \in Strings, Promised, NEW list, NEW i \in 1 .. Len(text),
         Reached(text, list, i)
  PROVE  Promising(text, i) /\ \A k \in 1 .. Len(text) : text[k] # Nul
<1> DEFINE w == Piece(text, i)
           e == i + Len(w)
           b == PiecesFrom(text)[e]
           p == Pieces(text)
<1>1. PICK a \in Seq(Strings) : p = a \o PiecesFrom(text)[i]  BY DEF Reached
<1> DEFINE m == Len(a) + 1
<1>2. /\ m \in DOMAIN p /\ p[m] = w /\ DOMAIN p = 1 .. m + Len(b)
      /\ \A k \in 1 .. Len(b) : p[m + k] = b[k]
  BY <1>1, PiecesGoOn
<1>3. e \in 1 .. Len(text) + 1 /\ Len(text) \in Nat  BY AfterPiece
<1>4. m \in Nat /\ Len(a) \in Nat  BY LenProperties
<1>5. b \in Seq(Strings) /\ Len(b) \in Nat
  <2>1. b \in Seq(Strings)  BY <1>3, PiecesFromIs
  <2> QED  BY <2>1, LenProperties
<1>6. e = Len(text) + 1 \/ (Len(b) >= 1 /\ b[1] = Piece(text, e) /\ e \in 1 .. Len(text))
  <2> SUFFICES ASSUME e # Len(text) + 1
               PROVE  Len(b) >= 1 /\ b[1] = Piece(text, e) /\ e \in 1 .. Len(text)
    OBVIOUS
  <2>1. e \in 1 .. Len(text)  BY <1>3
  <2> HIDE DEF e
  <2> DEFINE q == PiecesFrom(text)[e + Len(Piece(text, e))]
  <2>2. q \in Seq(Strings) /\ Piece(text, e) \in Strings
    <3>1. e + Len(Piece(text, e)) \in 1 .. Len(text) + 1 /\ Piece(text, e) \in Strings
      BY <2>1, AfterPiece
    <3> QED  BY <3>1, PiecesFromIs
  <2>3. b = <<Piece(text, e)>> \o q  BY <2>1, PiecesFromIs
  <2> HIDE DEF q, b
  <2> DEFINE x == Piece(text, e)
             c == <<x>>
  <2>4. c \in Seq(Strings) /\ Len(c) = 1 /\ c[1] = x  BY <2>2
  <2> HIDE DEF c, x
  <2>5. b = c \o q  BY <2>3 DEF c, x
  <2>6. /\ Len(c \o q) = Len(c) + Len(q) /\ Len(q) \in Nat
        /\ \A k \in 1 .. Len(c) + Len(q) : (c \o q)[k] = IF k <= Len(c) THEN c[k] ELSE q[k - Len(c)]
    <3>1. c \in Seq(Strings) /\ q \in Seq(Strings)  BY <2>2, <2>4
    <3>2. Len(q) \in Nat  BY <3>1, LenProperties
    <3>3. /\ Len(c \o q) = Len(c) + Len(q)
          /\ \A k \in 1 .. Len(c) + Len(q) :
               (c \o q)[k] = IF k <= Len(c) THEN c[k] ELSE q[k - Len(c)]
      BY ONLY <3>1, ConcatProperties, SMTT(30)
    <3> QED  BY <3>2, <3>3
  <2>7. 1 \in 1 .. 1 + Len(q) /\ 1 + Len(q) >= 1 /\ 1 <= 1  BY <2>6
  <2>8. Len(b) >= 1 /\ b[1] = x  BY <2>4, <2>5, <2>6, <2>7
  <2> QED  BY <2>1, <2>8 DEF x
<1>7. DOMAIN text = 1 .. Len(text)  BY LenProperties DEF Strings
<1>8. /\ IsLexeme(w) /\ \A k \in 1 .. Len(text) : text[k] # Nul
      /\ IsNumber(w) \/ IsWord(w) => Len(w) <= LenMod
      /\ IsString(w) => Len(w) - 2 <= LenMod /\ (m = Len(p) \/ IsBlank(p[m + 1]))
  BY <1>2, <1>7 DEF Promised, Legal
<1>9. Len(p) = m + Len(b)
  <2>1. p \in Seq(Strings)
    <3>1. 1 \in 1 .. Len(text) + 1  BY <1>3
    <3>2. p = PiecesFrom(text)[1]  BY FromAre
    <3> QED  BY <3>1, <3>2, PiecesFromIs
  <2>2. DOMAIN p = 1 .. Len(p) /\ Len(p) \in Nat  BY <2>1, LenProperties
  <2> DEFINE x == Len(p)
             y == m + Len(b)
  <2>a. 1 .. x = 1 .. y  BY <1>2, <2>2
  <2>b. y \in Nat
    <3> HIDE DEF m, b
    <3> QED  BY <1>4, <1>5
  <2>3. x \in Nat /\ y \in Nat /\ 1 .. x = 1 .. y  BY <2>2, <2>a, <2>b
  <2> HIDE DEF x, y
  <2>4. x = y
    <3>1. x >= 1 => x \in 1 .. y  BY <2>3
    <3>2. y >= 1 => y \in 1 .. x  BY <2>3
    <3> QED  BY <2>3, <3>1, <3>2
  <2> QED  BY <2>4 DEF x, y
<1>10. IsString(w) => e = Len(text) + 1 \/ (e \in 1 .. Len(text) /\ IsBlank(Piece(text, e)))
  <2> SUFFICES ASSUME IsString(w), e # Len(text) + 1
               PROVE  e \in 1 .. Len(text) /\ IsBlank(Piece(text, e))
    OBVIOUS
  <2>1. Len(b) >= 1 /\ b[1] = Piece(text, e) /\ e \in 1 .. Len(text)  BY <1>6
  <2> HIDE DEF e, w, b, p
  <2>2. 1 \in 1 .. Len(b) /\ m # m + Len(b)  BY <1>4, <1>5, <2>1
  <2>3. p[m + 1] = b[1]  BY <1>2, <2>2
  <2>4. IsBlank(p[m + 1])  BY <1>8, <1>9, <2>2
  <2> QED  BY <2>1, <2>3, <2>4
<1> QED  BY <1>8, <1>10 DEF Promising

(* A piece that is dropped, and one that is kept.                          *)
LEMMA Passed ==
  ASSUME NEW t \in Strings, NEW list, NEW i \in 1 .. Len(t), Reached(t, list, i),
         Kept(Piece(t, i)) = <<>>
  PROVE  Reached(t, list, i + Len(Piece(t, i)))
<1> DEFINE w == Piece(t, i)
           e == i + Len(w)
<1>1. e \in 1 .. Len(t) + 1  BY AfterPiece
<1>2. \E a \in Seq(Strings) : Pieces(t) = a \o PiecesFrom(t)[e]
  <2>1. PICK a \in Seq(Strings) : Pieces(t) = a \o PiecesFrom(t)[i]  BY DEF Reached
  <2>2. a \o <<w>> \in Seq(Strings) /\ Pieces(t) = (a \o <<w>>) \o PiecesFrom(t)[e]
    BY <2>1, PiecesGoOn
  <2> QED  BY <2>2
<1>3. MeantFrom(t)[i] = MeantFrom(t)[e]
  <2>1. MeantFrom(t)[e] \in Seq(Meanings)  BY <1>1, MeantFromIs
  <2>2. MeantFrom(t)[i] = <<>> \o MeantFrom(t)[e]  BY MeantFromIs
  <2> HIDE DEF e
  <2> QED  BY <2>1, <2>2, ConcatEmptySeq
<1> HIDE DEF w, e
<1>4. Reached(t, list, e)  BY <1>1, <1>2, <1>3 DEF Reached
<1> QED  BY <1>4 DEF w, e

(* A piece that is kept puts its token in the list.                        *)
LEMMA Taken ==
  ASSUME NEW t \in Strings, NEW list, NEW i \in 1 .. Len(t), Reached(t, list, i),
         IsKept(Piece(t, i)), NEW x, Bare(x) = Meant(Piece(t, i))
  PROVE  Reached(t, Append(list, x), i + Len(Piece(t, i)))
<1> DEFINE w == Piece(t, i)
           e == i + Len(w)
           q == Append(list, x)
           s == Shown(list)
           b == <<Bare(x)>>
           c == MeantFrom(t)[e]
<1>1. e \in 1 .. Len(t) + 1  BY AfterPiece
<1>2. \E a \in Seq(Strings) : Pieces(t) = a \o PiecesFrom(t)[e]
  <2>1. PICK a \in Seq(Strings) : Pieces(t) = a \o PiecesFrom(t)[i]  BY DEF Reached
  <2>2. a \o <<w>> \in Seq(Strings) /\ Pieces(t) = (a \o <<w>>) \o PiecesFrom(t)[e]
    BY <2>1, PiecesGoOn
  <2> QED  BY <2>2
<1>3. IsMeant(x)  BY DEF IsMeant
<1>4. IsSeq(list) /\ \A k \in DOMAIN list : IsMeant(list[k])  BY DEF Reached
<1>5. IsSeq(q) /\ (\A k \in DOMAIN q : IsMeant(q[k])) /\ Shown(q) = s \o b
  BY <1>3, <1>4, ShownAppend
<1>6. s \in Seq(Meanings)  BY <1>4, ShownIs
<1>7. c \in Seq(Meanings)  BY <1>1, MeantFromIs
<1>8. b \in Seq(Meanings)
  <2>1. Bare(x) \in Meanings  BY DEF IsKept, Meanings
  <2> QED  BY <2>1
<1>9. MeantFrom(t)[i] = b \o c
  <2>1. Kept(w) = b  BY DEF Kept, IsKept
  <2> QED  BY <2>1, MeantFromIs
<1>10. s \o MeantFrom(t)[i] = TokensMeant(t)  BY DEF Reached
<1> HIDE DEF w, e, q, s, b, c
<1>11. (s \o b) \o c = s \o (b \o c)  BY <1>6, <1>7, <1>8, ConcatAssociative, SMTT(30)
<1>12. Shown(q) \o c = TokensMeant(t)  BY <1>5, <1>9, <1>10, <1>11
<1>13. Reached(t, q, e)  BY <1>1, <1>2, <1>5, <1>12 DEF Reached, c
<1> QED  BY <1>13 DEF w, e, q

-----------------------------------------------------------------------------
(* Where the reader is in a file without a zero: at a character, or past   *)
(* the last one.                                                           *)
Pos(r) == IF r.c = Nul THEN Len(text) + 1 ELSE r.read

(* The place of the reader, and when it is past the end.                   *)
LEMMA PosIs ==
  ASSUME text \in Texts, NulFree, NEW r, Good(r)
  PROVE  /\ Len(text) \in Nat /\ Pos(r) \in 1 .. Len(text) + 1
         /\ r.c = Nul <=> Pos(r) = Len(text) + 1
         /\ r.c # Nul => r.read = Pos(r) /\ r.c = text[Pos(r)] /\ Pos(r) \in 1 .. Len(text)
         /\ r.read \in Nat /\ r.read <= Len(text)
         /\ r.c = Nul => r.read = Len(text)
<1> DEFINE n == Len(text)
<1>1. n \in Nat /\ \A k \in 1 .. n : text[k] # Nul  BY TextIs DEF NulFree
<1>2. /\ Len(r.buff) \in Nat /\ Len(r.rest) \in Nat /\ r.pos \in Nat /\ r.read \in Nat
      /\ r.pos < Len(r.buff)
  BY ReaderHas DEF Good, Sound, Reader
<1>3. r.read = n - Len(r.rest) - (Len(r.buff) - 1) + r.pos
  BY DEF Good, Cut, Before
<1>4. r.read <= n
  <2> DEFINE x == Len(r.buff)
             y == Len(r.rest)
             z == r.pos
             u == r.read
  <2>1. u = n - y - (x - 1) + z /\ x \in Nat /\ y \in Nat /\ z \in Nat /\ z < x /\ n \in Nat
    BY <1>1, <1>2, <1>3
  <2> HIDE DEF n, x, y, z, u
  <2>2. u <= n  BY <2>1
  <2> QED  BY <2>2 DEF u
<1>5. (r.read > 0 /\ r.c = text[r.read]) \/ (r.read = n /\ r.c = Nul)
  BY DEF Good, Synchronous
<1>6. Pos(r) = IF r.c = Nul THEN n + 1 ELSE r.read  BY DEF Pos
<1>7. r.c = Nul => r.read = n
  <2>1. r.read > 0 => r.read \in 1 .. n  BY <1>1, <1>2, <1>4
  <2> HIDE DEF n
  <2> QED  BY <1>1, <1>5, <2>1
<1>8. r.c # Nul => r.read \in 1 .. n /\ r.c = text[r.read]  BY <1>1, <1>2, <1>4, <1>5
<1> HIDE DEF n
<1>9. r.c = Nul <=> Pos(r) = n + 1  BY <1>1, <1>6, <1>8
<1> QED  BY <1>1, <1>2, <1>4, <1>6, <1>7, <1>8, <1>9 DEF n

(* next_char moves the place by one, and not past the end.                 *)
LEMMA PosNext ==
  ASSUME text \in Texts, NulFree, NEW r, Good(r)
  PROVE  /\ Good(NextChar(r))
         /\ Pos(r) <= Len(text) => Pos(NextChar(r)) = Pos(r) + 1
         /\ Pos(r) = Len(text) + 1 => Pos(NextChar(r)) = Len(text) + 1
<1> DEFINE s == NextChar(r)
           n == Len(text)
<1>1. Good(s)  BY NextCharGood
<1>2. r \in Reader /\ r.pos < Len(r.buff)  BY DEF Good, Sound
<1>3. Moves(r, s) \/ AtEnd(r, s)  BY <1>2, NextCharIs
<1>4. Moves(r, s) => s.read = r.read + 1  BY DEF Moves
<1>a. Moves(r, s) => s.c # Nul
  <2> SUFFICES ASSUME Moves(r, s), s.c = Nul PROVE FALSE
    OBVIOUS
  <2>1. s.c = s.buff[s.pos]  BY DEF Moves
  <2> DEFINE l == LineEnd(r.rest)
  <2>2. s.pos = 1 /\ Len(s.buff) = l + 1 /\ l \in 1 .. Len(r.rest)
    BY DEF Moves
  <2>3. Len(r.rest) \in Nat  BY <1>2, ReaderHas
  <2> HIDE DEF l, s
  <2>4. 1 \in 1 .. Len(s.buff) - 1  BY <2>2, <2>3
  <2>5. s.buff[1] = text[Before(s) + 1] /\ s.read = Before(s) + s.pos
    BY <1>1, <2>4 DEF Good, Cut
  <2>6. s.c = text[s.read]  BY <2>1, <2>2, <2>5
  <2>7. s.read = n /\ n \in Nat  BY <1>1, PosIs
  <2>8. Before(s) \in Nat  BY <1>1 DEF Good, Cut
  <2>9. n \in 1 .. n  BY <2>2, <2>5, <2>7, <2>8
  <2> QED  BY <2>6, <2>7, <2>9, TextIs DEF NulFree
<1>5. AtEnd(r, s) => s.c = Nul /\ s.read = r.read
  BY <1>2 DEF AtEnd, Reader
<1> HIDE DEF s
<1>6. /\ n \in Nat /\ Pos(r) \in 1 .. n + 1 /\ r.read \in Nat /\ r.read <= n
      /\ r.c = Nul <=> Pos(r) = n + 1
      /\ r.c # Nul => r.read = Pos(r) /\ Pos(r) \in 1 .. n
      /\ r.c = Nul => r.read = n
  BY PosIs
<1>7. /\ Pos(s) \in 1 .. n + 1 /\ s.read \in Nat /\ s.read <= n
      /\ s.c = Nul <=> Pos(s) = n + 1
      /\ s.c # Nul => s.read = Pos(s) /\ Pos(s) \in 1 .. n
      /\ s.c = Nul => s.read = n
  BY <1>1, PosIs
<1> HIDE DEF n
<1>8. Pos(r) <= n => Pos(s) = Pos(r) + 1
  BY <1>3, <1>4, <1>5, <1>6, <1>7, <1>a
<1>9. Pos(r) = n + 1 => Pos(s) = n + 1
  BY <1>3, <1>4, <1>5, <1>6, <1>7
<1> QED  BY <1>1, <1>8, <1>9 DEF s, n

-----------------------------------------------------------------------------
(* Parts of a text.                                                        *)
LEMMA PartIs ==
  ASSUME NEW t \in Strings, NEW i \in 1 .. Len(t), NEW j \in i .. Len(t)
  PROVE  /\ SubSeq(t, i, j) \in Strings /\ Len(SubSeq(t, i, j)) = j - i + 1
         /\ Len(t) \in Nat
         /\ \A k \in 1 .. j - i + 1 : SubSeq(t, i, j)[k] = t[i + k - 1]
         /\ \A k \in i .. j : SubSeq(t, i, j)[k - i + 1] = t[k] /\ k - i + 1 \in 1 .. j - i + 1
<1> DEFINE n == Len(t)
           w == SubSeq(t, i, j)
<1>1. n \in Nat /\ \A k \in 1 .. n : t[k] \in Characters
  BY LenProperties, ElementOfSeq DEF Strings
<1>2. i \in 1 .. n /\ j \in i .. n  OBVIOUS
<1> HIDE DEF n
<1>3. i \in Int /\ j \in Int /\ i <= j /\ \A k \in i .. j : t[k] \in Characters
  BY <1>1, <1>2
<1>4. w \in Seq(Characters) /\ Len(w) = j - i + 1 /\ \A k \in 1 .. j - i + 1 : w[k] = t[i + k - 1]
  BY <1>3, SubSeqProperties
<1> HIDE DEF w
<1>5. \A k \in i .. j : k - i + 1 \in 1 .. j - i + 1 /\ i + (k - i + 1) - 1 = k
  BY <1>1, <1>2
<1>6. \A k \in i .. j : w[k - i + 1] = t[k] /\ k - i + 1 \in 1 .. j - i + 1
  BY <1>4, <1>5
<1> QED  BY <1>1, <1>4, <1>6 DEF w, n, Strings

(* The piece at i is the part of the text up to where it ends.             *)
LEMMA PieceIsPart ==
  ASSUME NEW t \in Strings, NEW i \in 1 .. Len(t), NEW p \in i + 1 .. Len(t) + 1,
         i + Len(Piece(t, i)) = p
  PROVE  Piece(t, i) = SubSeq(t, i, p - 1)
<1> DEFINE w == Piece(t, i)
           l == Len(w)
<1>1. w = SubSeq(t, i, i + l - 1)  BY PieceIs
<1>2. l \in Nat /\ Len(t) \in Nat /\ i + l = p  BY AfterPiece
<1> HIDE DEF l
<1>3. i + l - 1 = p - 1  BY <1>2
<1> HIDE DEF w
<1> QED  BY <1>1, <1>3 DEF w

(* Numbers and words go on as long as their characters do.                 *)
LEMMA WordEnds ==
  ASSUME NEW t \in Strings, NEW i \in 1 .. Len(t), NEW p \in i + 1 .. Len(t) + 1, NEW S,
         IsLexeme(SubSeq(t, i, p - 1)), All(S, Piece(t, i))
  PROVE  /\ Len(Piece(t, i)) >= p - i
         /\ p = Len(t) + 1 \/ t[p] \notin S => i + Len(Piece(t, i)) = p
<1> DEFINE w == Piece(t, i)
           l == Len(w)
           n == Len(t)
<1>1. /\ w \in Strings /\ l >= 1 /\ i + l - 1 \in i .. n
      /\ \A k \in i .. n : IsLexeme(SubSeq(t, i, k)) => k <= i + l - 1
  BY PieceIs
<1>2. l \in Nat /\ n \in Nat /\ \A k \in 1 .. l : w[k] = t[i + k - 1]  BY AfterPiece
<1>3. DOMAIN w = 1 .. l  BY <1>1, LenProperties DEF Strings
<1>4. \A k \in 1 .. l : w[k] \in S  BY <1>3 DEF All
<1>5. p \in i + 1 .. n + 1 /\ i \in 1 .. n  OBVIOUS
<1> HIDE DEF w, l, n
<1>6. p - 1 <= i + l - 1
  <2>1. p - 1 \in i .. n  BY <1>2, <1>5
  <2> QED  BY <1>1, <2>1
<1>7. l >= p - i  BY <1>2, <1>5, <1>6
<1>8. ASSUME p = n + 1 \/ t[p] \notin S, i + l # p PROVE FALSE
  <2>1. p < i + l /\ p \in i + 1 .. n  BY <1>1, <1>2, <1>5, <1>6, <1>8
  <2>2. p - i + 1 \in 1 .. l /\ i + (p - i + 1) - 1 = p  BY <1>2, <1>5, <2>1
  <2>3. t[p] \in S  BY <1>2, <1>4, <2>2
  <2>4. p # n + 1  BY <1>2, <2>1
  <2> QED  BY <1>8, <2>3, <2>4
<1> QED  BY <1>7, <1>8 DEF l, n, w

(* Digits make a number.                                                   *)
LEMMA NumberPart ==
  ASSUME NEW t \in Strings, NEW i \in 1 .. Len(t), NEW j \in i .. Len(t),
         \A k \in i .. j : t[k] \in Digits
  PROVE  IsNumber(SubSeq(t, i, j)) /\ IsLexeme(SubSeq(t, i, j))
<1> DEFINE w == SubSeq(t, i, j)
           l == j - i + 1
<1>1. w \in Strings /\ Len(w) = l /\ Len(t) \in Nat
      /\ \A k \in 1 .. l : w[k] = t[i + k - 1]
  BY PartIs
<1>2. \A k \in 1 .. l : i + k - 1 \in i .. j  BY <1>1
<1>3. l >= 1  BY <1>1
<1> HIDE DEF w, l
<1>4. DOMAIN w = 1 .. l  BY <1>1, LenProperties DEF Strings
<1>5. All(Digits, w)  BY <1>1, <1>2, <1>4 DEF All
<1>6. w # <<>>
  <2>1. Len(<<>>) = 0  BY EmptySeq
  <2> QED  BY <1>1, <1>3, <2>1
<1> QED  BY <1>5, <1>6 DEF IsNumber, IsLexeme, w

(* A letter, then letters and digits make a word.                          *)
LEMMA WordPart ==
  ASSUME NEW t \in Strings, NEW i \in 1 .. Len(t), NEW j \in i .. Len(t),
         t[i] \in Letters, \A k \in i .. j : t[k] \in Letters \union Digits
  PROVE  IsWord(SubSeq(t, i, j)) /\ IsLexeme(SubSeq(t, i, j))
<1> DEFINE w == SubSeq(t, i, j)
           l == j - i + 1
<1>1. w \in Strings /\ Len(w) = l /\ Len(t) \in Nat
      /\ \A k \in 1 .. l : w[k] = t[i + k - 1]
  BY PartIs
<1>2. \A k \in 1 .. l : i + k - 1 \in i .. j  BY <1>1
<1>3. l >= 1 /\ 1 \in 1 .. l /\ i + 1 - 1 = i  BY <1>1
<1> HIDE DEF w, l
<1>4. DOMAIN w = 1 .. l  BY <1>1, LenProperties DEF Strings
<1>5. All(Letters \union Digits, w)  BY <1>1, <1>2, <1>4 DEF All
<1>6. w # <<>>
  <2>1. Len(<<>>) = 0  BY EmptySeq
  <2> QED  BY <1>1, <1>3, <2>1
<1>7. w[1] \in Letters  BY <1>1, <1>3
<1> QED  BY <1>5, <1>6, <1>7 DEF IsWord, IsLexeme, w

(* A character more in a token, when its length does not wrap.             *)
LEMMA TextGrows ==
  ASSUME NEW t \in Strings, NEW m \in 1 .. Len(t), NEW n \in m + 1 .. Len(t),
         NEW x \in LoopToken, x.text = SubSeq(t, m, n - 1), n - m < LenMod
  PROVE  TokenAppend(x, t[n]).text = SubSeq(t, m, n)
<1> DEFINE q == x.text
           d == n - m
           u == SubSeq(q, 1, Len(q) % LenMod) \o <<t[n]>>
<1>0. Len(t) \in Nat  BY LenProperties DEF Strings
<1>1. n - 1 \in m .. Len(t) /\ n - 1 - m + 1 = d /\ d \in Nat  BY <1>0
<1>2. q \in Strings /\ Len(q) = d  BY <1>1, PartIs
<1>3. d % LenMod = d
  <2>1. LenMod \in Nat /\ LenMod > 0 /\ d = LenMod * 0 + d /\ d < LenMod
    BY <1>1, Sizes
  <2> HIDE DEF d
  <2> QED  BY <1>1, <2>1, ModUnique
<1>4. SubSeq(q, 1, Len(q) % LenMod) = q
  <2>1. SubSeq(q, 1, Len(q)) = q  BY <1>2, SubSeqFull DEF Strings
  <2> QED  BY <1>2, <1>3, <2>1
<1>5. SubSeq(t, m, n) = SubSeq(t, m, n - 1) \o <<t[n]>>
  <2>1. n \in m .. Len(t)  BY <1>0
  <2> QED  BY <2>1, SubSeqRecursiveSecond DEF Strings
<1>6. TokenAppend(x, t[n]) = [x EXCEPT !.text = u]  BY DEF TokenAppend
<1> HIDE DEF u
<1>7. TokenAppend(x, t[n]).text = u  BY <1>6 DEF LoopToken
<1> QED  BY <1>4, <1>5, <1>7 DEF u

-----------------------------------------------------------------------------
(* What a loop has read of the piece that begins at i, with the reader at  *)
(* p: q is the text of its token.                                          *)
ReadsWord(S, q, t, i, p) ==
  /\ p \in i + 1 .. Len(t) + 1
  /\ q = SubSeq(t, i, p - 1)
  /\ \A k \in i .. p - 1 : t[k] \in S

ReadsComment(t, i, p) ==
  /\ p \in i + 1 .. Len(t) + 1 /\ i + 1 \in 1 .. Len(t)
  /\ t[i] = "/" /\ t[i + 1] = "/"
  /\ \A k \in i .. p : k <= Len(t) => t[k] # Newline

ReadsString(q, t, i, p) ==
  /\ p \in i + 1 .. Len(t)
  /\ t[i] = Quote
  /\ q = SubSeq(t, i + 1, p)
  /\ p < i + Len(Piece(t, i)) - 1

Reading(loop, q, t, list, p) ==
  \/ loop = "token" /\ Reached(t, list, p)
  \/ loop = "done" /\ Reached(t, list, Len(t) + 1)
  \/ /\ loop \in Loops
     /\ \E i \in 1 .. Len(t) :
          /\ Reached(t, list, i)
          /\ loop = "number"  => ReadsWord(Digits, q, t, i, p)
          /\ loop = "ident"   => t[i] \in Letters /\ ReadsWord(Letters \union Digits, q, t, i, p)
          /\ loop = "comment" => ReadsComment(t, i, p)
          /\ loop = "string"  => ReadsString(q, t, i, p)

(***************************************************************************)
(* The inductive invariant behind TokensAreMeant.  Between two tokens the  *)
(* reader is where a piece of the text begins, the list holds the tokens   *)
(* of the pieces before it, and the tokens of the pieces from there on are *)
(* those still to be read.  In a loop the same holds of the place where    *)
(* the loop began, and what it has read since is the beginning of the      *)
(* piece there.  A failure or a crash is none of these cases.              *)
(***************************************************************************)
MeaningInv == Promised => Reading(pc, tok.text, text, tokens, Pos(in))

(* The file does not change, nor does what is promised of it.              *)
LEMMA SameMeaning ==
  ASSUME text' = text
  PROVE  MeaningInv' <=> (Promised => Reading(pc', tok'.text, text, tokens', Pos(in')))
BY DEF MeaningInv, Promised, Pos

(* What is known where an action begins.                                   *)
LEMMA Here ==
  ASSUME text \in Texts, Good(in), TokenInv, MeaningInv, Promised
  PROVE  /\ text \in Strings /\ NulFree /\ Len(text) \in Nat
         /\ Pos(in) \in 1 .. Len(text) + 1
         /\ in.c = Nul <=> Pos(in) = Len(text) + 1
         /\ in.c # Nul => in.c = text[Pos(in)] /\ Pos(in) \in 1 .. Len(text)
         /\ Reading(pc, tok.text, text, tokens, Pos(in))
<1>1. text \in Strings  BY TextIsStrings
<1>2. NulFree  BY DEF Promised, Legal, NulFree
<1> QED  BY <1>1, <1>2, PosIs DEF MeaningInv

(* The piece that is read.                                                 *)
PieceFacts(t, i, w) ==
  /\ Promising(t, i) /\ w \in Strings /\ IsLexeme(w)
  /\ Len(w) \in Nat /\ Len(w) >= 1 /\ w[1] = t[i] /\ Tells(t[i], w)
  /\ i + Len(w) \in 1 .. Len(t) + 1
  /\ \A k \in 1 .. Len(w) : w[k] = t[i + k - 1] /\ i + k - 1 \in 1 .. Len(t)
  /\ ~IsBlank(w) /\ ~IsComment(w) => IsKept(w)

(* All of what is known of the piece where the list ends.                  *)
LEMMA PieceAt ==
  ASSUME text \in Strings, Promised, NEW list, NEW i \in 1 .. Len(text),
         Reached(text, list, i)
  PROVE  PieceFacts(text, i, Piece(text, i))
<1> DEFINE w == Piece(text, i)
<1>3. Promising(text, i) /\ \A k \in 1 .. Len(text) : text[k] # Nul  BY PieceGood
<1>4. IsLexeme(w)  BY <1>3 DEF Promising
<1>5. /\ w \in Strings /\ Len(w) \in Nat /\ i + Len(w) \in 1 .. Len(text) + 1 /\ Len(text) \in Nat
      /\ \A k \in 1 .. Len(w) : w[k] = text[i + k - 1]
  BY AfterPiece
<1> HIDE DEF w
<1>6. Len(w) >= 1 /\ Tells(w[1], w)  BY <1>4, <1>5, FirstTells
<1>7. w[1] = text[i]
  <2>1. 1 \in 1 .. Len(w) /\ i + 1 - 1 = i  BY <1>5, <1>6
  <2> QED  BY <1>5, <2>1
<1>8. \A k \in 1 .. Len(w) : i + k - 1 \in 1 .. Len(text)  BY <1>5
<1>9. \A k \in 1 .. Len(w) : w[k] # Nul  BY <1>3, <1>5, <1>8
<1>10. ~IsBlank(w) /\ ~IsComment(w) => IsKept(w)  BY <1>4, <1>5, <1>9 DEF IsKept
<1>11. PieceFacts(text, i, w)
  BY <1>3, <1>4, <1>5, <1>6, <1>7, <1>8, <1>10 DEF PieceFacts
<1> QED  BY <1>11 DEF w

(* At the beginning of a piece.                                            *)
LEMMA AtPiece ==
  ASSUME text \in Texts, Good(in), TokenInv, MeaningInv, Promised, pc = "token", in.c # Nul
  PROVE  LET i == Pos(in)
         IN  /\ i \in 1 .. Len(text) /\ Reached(text, tokens, i) /\ in.c = text[i]
             /\ PieceFacts(text, i, Piece(text, i))
<1> DEFINE i == Pos(in)
<1>1. i \in 1 .. Len(text) /\ in.c = text[i] /\ text \in Strings  BY Here
<1>2. Reached(text, tokens, i)
  <2>1. Reading(pc, tok.text, text, tokens, i)  BY Here
  <2> QED  BY <2>1 DEF Reading, Loops
<1> HIDE DEF i
<1>3. PieceFacts(text, i, Piece(text, i))  BY <1>1, <1>2, PieceAt
<1> QED  BY <1>1, <1>2, <1>3 DEF i

(* Sequences of one element, and of two put together.                      *)
LEMMA SingleIs ==
  ASSUME NEW S, NEW x \in S
  PROVE  <<x>> \in Seq(S) /\ Len(<<x>>) = 1 /\ <<x>>[1] = x
OBVIOUS

LEMMA TwoIs ==
  ASSUME NEW x, NEW y
  PROVE  <<x>> \o <<y>> = <<x, y>>
<1> DEFINE S == {x, y}
           a == <<x>>
           b == <<y>>
           c == <<x, y>>
<1>1. a \in Seq(S) /\ Len(a) = 1 /\ a[1] = x  OBVIOUS
<1>2. b \in Seq(S) /\ Len(b) = 1 /\ b[1] = y  OBVIOUS
<1>3. c \in Seq(S) /\ Len(c) = 2 /\ c[1] = x /\ c[2] = y  OBVIOUS
<1> HIDE DEF S, a, b, c
<1>4. /\ a \o b \in Seq(S) /\ Len(a \o b) = Len(a) + Len(b)
      /\ \A i \in 1 .. Len(a) + Len(b) : (a \o b)[i] = IF i <= Len(a) THEN a[i] ELSE b[i - Len(a)]
  BY <1>1, <1>2, ConcatProperties
<1> DEFINE z == a \o b
<1>5. z \in Seq(S) /\ Len(z) = 2 /\ z[1] = x /\ z[2] = y  BY <1>1, <1>2, <1>4
<1> HIDE DEF z
<1>6. Len(z) = Len(c) /\ \A i \in 1 .. Len(z) : z[i] = c[i]  BY <1>3, <1>5
<1>7. z = c  BY <1>3, <1>5, <1>6, SeqEqual
<1> QED  BY <1>7 DEF a, b, c, z

(* The first character of a piece, and the first two.                      *)
LEMMA OnePart ==
  ASSUME NEW t \in Strings, NEW i \in 1 .. Len(t)
  PROVE  SubSeq(t, i, i) = <<t[i]>>
<1> DEFINE u == SubSeq(t, i, i)
           c == t[i]
<1>1. Len(t) \in Nat /\ c \in Characters  BY LenProperties, ElementOfSeq DEF Strings
<1>2. i \in i .. Len(t) /\ i - i + 1 = 1 /\ i + 1 - 1 = i /\ 1 \in 1 .. 1  BY <1>1
<1>3. u \in Seq(Characters) /\ Len(u) = 1 /\ u[1] = c
  <2>1. /\ u \in Strings /\ Len(u) = i - i + 1
        /\ \A k \in 1 .. i - i + 1 : u[k] = t[i + k - 1]
    BY <1>2, PartIs
  <2> QED  BY <1>2, <2>1 DEF Strings
<1> HIDE DEF u, c
<1>4. <<c>> \in Seq(Characters) /\ Len(<<c>>) = 1 /\ <<c>>[1] = c  BY <1>1, SingleIs
<1> DEFINE z == <<c>>
<1> HIDE DEF z
<1>5. Len(u) = Len(z) /\ \A k \in 1 .. Len(u) : u[k] = z[k]  BY <1>3, <1>4 DEF z
<1>6. u = z  BY <1>3, <1>4, <1>5, SeqEqual DEF z
<1> QED  BY <1>6 DEF u, c, z

LEMMA TwoPart ==
  ASSUME NEW t \in Strings, NEW i \in 1 .. Len(t), i + 1 \in 1 .. Len(t)
  PROVE  SubSeq(t, i, i + 1) = <<t[i], t[i + 1]>>
<1>1. Len(t) \in Nat  BY LenProperties DEF Strings
<1>2. i + 1 \in i .. Len(t) /\ i + 1 - 1 = i  BY <1>1
<1>3. SubSeq(t, i, i + 1) = SubSeq(t, i, i) \o <<t[i + 1]>>
  BY <1>2, SubSeqRecursiveSecond DEF Strings
<1>4. SubSeq(t, i, i) = <<t[i]>>  BY OnePart
<1> DEFINE c == t[i]
           d == t[i + 1]
<1> HIDE DEF c, d
<1>5. <<c>> \o <<d>> = <<c, d>>  BY TwoIs
<1> QED  BY <1>3, <1>4, <1>5 DEF c, d

-----------------------------------------------------------------------------
(* What an action leaves to be shown.                                      *)
LEMMA EmitMeans ==
  ASSUME NEW x, NEW r, Emit(x, r),
         Promised => Reached(text, Append(tokens, x), Pos(r))
  PROVE  MeaningInv'
<1>1. /\ pc' = "token" /\ tokens' = Append(tokens, x) /\ in' = r /\ text' = text
  BY DEF Emit
<1>2. Promised => Reading(pc', tok'.text, text, tokens', Pos(in'))
  BY <1>1 DEF Reading
<1> QED  BY <1>1, <1>2, SameMeaning

LEMMA BeginMeans ==
  ASSUME NEW loop, NEW x, NEW r, Begin(loop, x, r),
         Promised => Reading(loop, x.text, text, tokens, Pos(r))
  PROVE  MeaningInv'
<1>1. /\ pc' = loop /\ tokens' = tokens /\ tok' = x /\ in' = r /\ text' = text
  BY DEF Begin
<1>2. Promised => Reading(pc', tok'.text, text, tokens', Pos(in'))
  BY <1>1
<1> QED  BY <1>1, <1>2, SameMeaning

Ready == text \in Texts /\ Good(in) /\ TokenInv /\ MeaningInv

(* One character further.                                                  *)
LEMMA StepOn ==
  ASSUME Ready, Promised
  PROVE  /\ Good(NextChar(in))
         /\ Pos(in) <= Len(text) => Pos(NextChar(in)) = Pos(in) + 1
         /\ Pos(in) = Len(text) + 1 => Pos(NextChar(in)) = Len(text) + 1
BY Here, PosNext DEF Ready

(* A loop after its first character.                                       *)
LEMMA OneRead ==
  ASSUME NEW t \in Strings, NEW i \in 1 .. Len(t), NEW S, t[i] \in S, NEW q, q = <<t[i]>>
  PROVE  ReadsWord(S, q, t, i, i + 1)
<1> DEFINE n == Len(t)
           e == i + 1
<1>1. n \in Nat  BY LenProperties DEF Strings
<1>2. e \in i + 1 .. n + 1 /\ e - 1 = i /\ \A k \in i .. i : k = i  BY <1>1
<1>3. q = SubSeq(t, i, i)  BY OnePart
<1> HIDE DEF e, n
<1>4. q = SubSeq(t, i, e - 1) /\ \A k \in i .. e - 1 : t[k] \in S  BY <1>2, <1>3
<1>5. ReadsWord(S, q, t, i, e)  BY <1>2, <1>4 DEF ReadsWord, n
<1> QED  BY <1>5 DEF e

(* The loop that begins or goes on has read up to p.                       *)
LEMMA NumberMeans ==
  ASSUME Ready, StartNumber \/ MoreNumber \/ EndNumber
  PROVE  MeaningInv'
<1>0. text \in Texts /\ Good(in) /\ TokenInv /\ MeaningInv  BY DEF Ready
<1> DEFINE p == Pos(in)
           n == Len(text)
           r == NextChar(in)
<1>1. Promised => /\ text \in Strings /\ n \in Nat /\ p \in 1 .. n + 1
                  /\ in.c # Nul => in.c = text[p] /\ p \in 1 .. n /\ Pos(r) = p + 1
                  /\ in.c = Nul <=> p = n + 1
  BY <1>0, Here, StepOn
<1>2. Nul \notin Digits  BY Classes DEF Marks
<1>3. CASE StartNumber
  <2> DEFINE x == OneChar("NUMBER", in.c, in)
  <2>1. pc = "token" /\ in.c \in Digits /\ Begin("number", x, r)
    BY <1>3 DEF StartNumber
  <2>2. x.text = <<in.c>>  BY <1>2, <2>1 DEF OneChar, Token
  <2> HIDE DEF x
  <2>3. ASSUME Promised PROVE Reading("number", x.text, text, tokens, Pos(r))
    <3>1. p \in 1 .. n /\ Reached(text, tokens, p)  BY <1>0, <1>2, <2>1, <2>3, AtPiece
    <3>2. in.c = text[p] /\ Pos(r) = p + 1 /\ text \in Strings /\ n \in Nat
      BY <1>1, <1>2, <2>1, <2>3
    <3> HIDE DEF p, n, r
    <3>5. ReadsWord(Digits, x.text, text, p, p + 1)
      <4>1. p \in 1 .. Len(text)  BY <3>1 DEF n
      <4> QED  BY <2>1, <2>2, <3>2, <4>1, OneRead
    <3> QED  BY <3>1, <3>2, <3>5 DEF Reading, Loops, n
  <2> QED  BY <2>1, <2>3, BeginMeans
<1>4. CASE MoreNumber
  <2> DEFINE x == TokenAppend(tok, in.c)
  <2>1. pc = "number" /\ in.c \in Digits /\ Begin("number", x, r)
    BY <1>4 DEF MoreNumber
  <2>2. tok \in LoopToken  BY <1>0, <2>1 DEF TokenInv, Shape, NoToken, Growing
  <2>3. ASSUME Promised PROVE Reading("number", x.text, text, tokens, Pos(r))
    <3>1. Reading(pc, tok.text, text, tokens, p)  BY <1>0, <2>3, Here
    <3>2. PICK i \in 1 .. n : Reached(text, tokens, i) /\ ReadsWord(Digits, tok.text, text, i, p)
      BY <2>1, <3>1 DEF Reading
    <3>3. in.c = text[p] /\ Pos(r) = p + 1 /\ text \in Strings /\ n \in Nat /\ p \in 1 .. n
      BY <1>1, <1>2, <2>1, <2>3
    <3>4. p \in i + 1 .. n + 1 /\ tok.text = SubSeq(text, i, p - 1)
          /\ \A k \in i .. p - 1 : text[k] \in Digits
      BY <3>2 DEF ReadsWord
    <3> HIDE DEF p, x, r
    <3>5. p + 1 \in i + 1 .. n + 1 /\ p \in i .. n /\ p + 1 - 1 = p /\ p \in i + 1 .. n
      BY <3>2, <3>3, <3>4
    <3>6. \A k \in i .. p : text[k] \in Digits
      <4>1. \A k \in i .. p : k = p \/ k \in i .. p - 1  BY <3>2, <3>5
      <4> QED  BY <2>1, <3>3, <3>4, <4>1
    <3>7. p - i < LenMod
      <4> DEFINE w == Piece(text, i)
      <4>1. PieceFacts(text, i, w)  BY <2>3, <3>2, <3>3, PieceAt
      <4>2. Len(w) \in Nat  BY <4>1 DEF PieceFacts
      <4>3. IsNumber(w)
        <5>1. text[i] \in Digits  BY <3>5, <3>6
        <5> QED  BY <4>1, <5>1 DEF PieceFacts, Tells
      <4>4. Len(w) <= LenMod  BY <4>1, <4>3 DEF PieceFacts, Promising
      <4> PICK e : e = p + 1  OBVIOUS
      <4>5. Len(w) >= e - i
        <5>1. IsLexeme(SubSeq(text, i, e - 1))  BY <3>2, <3>3, <3>5, <3>6, NumberPart
        <5>2. All(Digits, Piece(text, i))  BY <4>3 DEF IsNumber
        <5>3. text \in Strings /\ i \in 1 .. Len(text) /\ e \in i + 1 .. Len(text) + 1
          BY <3>2, <3>3, <3>5
        <5>4. Len(Piece(text, i)) >= e - i  BY <5>1, <5>2, <5>3, WordEnds
        <5> QED  BY <5>4
      <4> HIDE DEF w
      <4> QED  BY <3>2, <3>3, <4>2, <4>4, <4>5, Sizes
    <3>8. x.text = SubSeq(text, i, p)
      BY <2>2, <3>2, <3>3, <3>4, <3>5, <3>7, TextGrows DEF x
    <3>9. ReadsWord(Digits, x.text, text, i, p + 1)
      BY <3>5, <3>6, <3>8 DEF ReadsWord
    <3> QED  BY <3>2, <3>3, <3>9 DEF Reading, Loops
  <2> QED  BY <2>1, <2>3, BeginMeans
<1>5. CASE EndNumber
  <2>1. pc = "number" /\ in.c \notin Digits /\ Emit(tok, in)
    BY <1>5 DEF EndNumber
  <2>2. tok.kind = "NUMBER"  BY <1>0, <2>1 DEF TokenInv, Shape
  <2>3. ASSUME Promised PROVE Reached(text, Append(tokens, tok), p)
    <3>1. Reading(pc, tok.text, text, tokens, p)  BY <1>0, <2>3, Here
    <3>2. PICK i \in 1 .. n : Reached(text, tokens, i) /\ ReadsWord(Digits, tok.text, text, i, p)
      BY <2>1, <3>1 DEF Reading
    <3>3. text \in Strings /\ n \in Nat /\ (p = n + 1 \/ text[p] \notin Digits)
      BY <1>1, <2>1, <2>3
    <3>4. p \in i + 1 .. n + 1 /\ tok.text = SubSeq(text, i, p - 1)
          /\ \A k \in i .. p - 1 : text[k] \in Digits
      BY <3>2 DEF ReadsWord
    <3> DEFINE w == Piece(text, i)
    <3>5. PieceFacts(text, i, w)  BY <2>3, <3>2, <3>3, PieceAt
    <3> HIDE DEF p
    <3>6. i \in i .. p - 1 /\ p - 1 \in i .. n  BY <3>2, <3>3, <3>4
    <3>7. IsLexeme(w) /\ IsNumber(w) /\ w \in Strings
      <4>1. text[i] \in Digits  BY <3>4, <3>6
      <4> QED  BY <3>5, <4>1 DEF PieceFacts, Tells
    <3>8. i + Len(w) = p
      <4>1. IsLexeme(SubSeq(text, i, p - 1))  BY <3>2, <3>3, <3>4, <3>6, NumberPart
      <4>2. All(Digits, w)  BY <3>7 DEF IsNumber
      <4> QED  BY <3>2, <3>3, <3>4, <4>1, <4>2, WordEnds
    <3>9. w = tok.text  BY <3>2, <3>3, <3>4, <3>8, PieceIsPart
    <3>10. Meant(w) = [kind |-> "NUMBER", text |-> w]  BY <3>7, MeantIs
    <3>11. IsKept(w)
      <4>1. text[i] \in Digits  BY <3>4, <3>6
      <4>2. ~IsBlank(w) /\ ~IsComment(w)
        BY <3>5, <4>1, Classes DEF PieceFacts, Tells, Marks
      <4> QED  BY <3>5, <4>2 DEF PieceFacts
    <3>12. Bare(tok) = Meant(w)  BY <2>2, <3>9, <3>10 DEF Bare
    <3> HIDE DEF w
    <3>13. Reached(text, Append(tokens, tok), i + Len(w))
      BY <3>2, <3>3, <3>11, <3>12, Taken DEF w
    <3> QED  BY <3>8, <3>13
  <2> QED  BY <2>1, <2>3, EmitMeans
<1> QED  BY <1>3, <1>4, <1>5

(* The piece that is a word ends where its characters do.                  *)
LEMMA WordAt ==
  ASSUME text \in Strings, Promised, NEW list, NEW i \in 1 .. Len(text),
         Reached(text, list, i), text[i] \in Letters,
         NEW q, NEW p, ReadsWord(Letters \union Digits, q, text, i, p)
  PROVE  /\ p \in i + 1 .. Len(text) + 1 /\ q = SubSeq(text, i, p - 1)
         /\ \A k \in i .. p - 1 : text[k] \in Letters \union Digits
         /\ IsWord(Piece(text, i)) /\ PieceFacts(text, i, Piece(text, i))
         /\ Len(Piece(text, i)) \in Nat /\ Len(Piece(text, i)) <= LenMod
         /\ Len(Piece(text, i)) >= p - i
         /\ p = Len(text) + 1 \/ text[p] \notin Letters \union Digits =>
              /\ i + Len(Piece(text, i)) = p /\ Piece(text, i) = q
              /\ IsKept(q)
              /\ Meant(q) = [kind |-> IF q \in Keywords THEN "ONLY_TYPE" ELSE "IDENTIFIER",
                             text |-> q]
<1> DEFINE w == Piece(text, i)
           W == Letters \union Digits
           n == Len(text)
<1>1. p \in i + 1 .. n + 1 /\ q = SubSeq(text, i, p - 1) /\ \A k \in i .. p - 1 : text[k] \in W
  BY DEF ReadsWord
<1>2. n \in Nat  BY LenProperties DEF Strings
<1>3. p - 1 \in i .. n  BY <1>1, <1>2
<1>4. PieceFacts(text, i, w)  BY PieceAt
<1>5. IsWord(w) /\ w \in Strings /\ IsLexeme(w) /\ Len(w) \in Nat /\ Len(w) <= LenMod
  BY <1>4 DEF PieceFacts, Tells, Promising
<1>6. All(W, w)  BY <1>5 DEF IsWord
<1>7. IsLexeme(SubSeq(text, i, p - 1))
  <2> HIDE DEF w
  <2> QED  BY <1>1, <1>2, <1>3, WordPart
<1>8. Len(w) >= p - i /\ (p = n + 1 \/ text[p] \notin W => i + Len(w) = p)
  <2> HIDE DEF W
  <2> QED  BY <1>1, <1>6, <1>7, WordEnds
<1>9. ASSUME p = n + 1 \/ text[p] \notin W
      PROVE  i + Len(w) = p /\ w = q
  <2>1. i + Len(w) = p  BY <1>8, <1>9
  <2> QED  BY <1>1, <2>1, PieceIsPart
<1>10. IsKept(w)
  <2>1. ~IsBlank(w) /\ ~IsComment(w)
    BY <1>4, Classes DEF PieceFacts, Tells, Marks
  <2> QED  BY <1>4, <2>1 DEF PieceFacts
<1>11. Meant(w) = [kind |-> IF w \in Keywords THEN "ONLY_TYPE" ELSE "IDENTIFIER", text |-> w]
  BY <1>5, MeantIs
<1> HIDE DEF w
<1>12. p = n + 1 \/ text[p] \notin W =>
         /\ i + Len(w) = p /\ w = q /\ IsKept(q)
         /\ Meant(q) = [kind |-> IF q \in Keywords THEN "ONLY_TYPE" ELSE "IDENTIFIER",
                        text |-> q]
  BY <1>9, <1>10, <1>11
<1> QED  BY <1>1, <1>4, <1>5, <1>8, <1>12 DEF w

(* Names and keywords.                                                     *)
LEMMA IdentMeans ==
  ASSUME Ready, StartIdent \/ MoreIdent \/ EndIdent \/ Keyword
  PROVE  MeaningInv'
<1>0. text \in Texts /\ Good(in) /\ TokenInv /\ MeaningInv  BY DEF Ready
<1> DEFINE p == Pos(in)
           n == Len(text)
           r == NextChar(in)
           W == Letters \union Digits
<1>1. Promised => /\ text \in Strings /\ n \in Nat /\ p \in 1 .. n + 1
                  /\ in.c # Nul => in.c = text[p] /\ p \in 1 .. n /\ Pos(r) = p + 1
                  /\ in.c = Nul <=> p = n + 1
                  /\ Reading(pc, tok.text, text, tokens, p)
  BY <1>0, Here, StepOn
<1>2. Nul \notin W  BY Classes DEF Marks
<1>3. CASE StartIdent
  <2> DEFINE x == OneChar("IDENTIFIER", in.c, in)
  <2>1. pc = "token" /\ in.c \in Letters /\ Begin("ident", x, r)
    BY <1>3 DEF StartIdent
  <2>2. x.text = <<in.c>>  BY <1>2, <2>1 DEF OneChar, Token
  <2> HIDE DEF x
  <2>3. ASSUME Promised PROVE Reading("ident", x.text, text, tokens, Pos(r))
    <3>1. p \in 1 .. n /\ Reached(text, tokens, p)  BY <1>0, <1>2, <2>1, <2>3, AtPiece
    <3>2. in.c = text[p] /\ Pos(r) = p + 1 /\ text \in Strings /\ n \in Nat
      BY <1>1, <1>2, <2>1, <2>3
    <3>3. text[p] \in W /\ text[p] \in Letters  BY <2>1, <3>2
    <3> HIDE DEF p, n, r, W
    <3>5. ReadsWord(W, x.text, text, p, p + 1)
      <4>1. p \in 1 .. Len(text)  BY <3>1 DEF n
      <4> QED  BY <2>2, <3>2, <3>3, <4>1, OneRead
    <3> QED  BY <3>1, <3>2, <3>3, <3>5 DEF Reading, Loops, n, W
  <2> QED  BY <2>1, <2>3, BeginMeans
<1>4. CASE MoreIdent
  <2> DEFINE x == TokenAppend(tok, in.c)
  <2>1. pc = "ident" /\ in.c \in W /\ Begin("ident", x, r)
    BY <1>4 DEF MoreIdent
  <2>2. tok \in LoopToken  BY <1>0, <2>1 DEF TokenInv, Shape, NoToken, Growing
  <2>3. ASSUME Promised PROVE Reading("ident", x.text, text, tokens, Pos(r))
    <3>1. Reading(pc, tok.text, text, tokens, p)  BY <1>1, <2>3
    <3>2. PICK i \in 1 .. n : /\ Reached(text, tokens, i) /\ text[i] \in Letters
                              /\ ReadsWord(W, tok.text, text, i, p)
      BY <2>1, <3>1 DEF Reading
    <3>3. in.c = text[p] /\ Pos(r) = p + 1 /\ text \in Strings /\ n \in Nat /\ p \in 1 .. n
      BY <1>1, <1>2, <2>1, <2>3
    <3> HIDE DEF p, x, r
    <3>4. p \in i + 1 .. n + 1 /\ tok.text = SubSeq(text, i, p - 1)
          /\ \A k \in i .. p - 1 : text[k] \in W
      BY <3>2 DEF ReadsWord
    <3>5. p + 1 \in i + 1 .. n + 1 /\ p \in i .. n /\ p + 1 - 1 = p /\ p \in i + 1 .. n
      BY <3>2, <3>3, <3>4
    <3>6. \A k \in i .. p : text[k] \in W
      <4>1. \A k \in i .. p : k = p \/ k \in i .. p - 1  BY <3>2, <3>5
      <4> QED  BY <2>1, <3>3, <3>4, <4>1
    <3>7. p - i < LenMod
      <4>1. PICK e : e = p + 1  OBVIOUS
      <4>2. PICK z : z = SubSeq(text, i, p)  OBVIOUS
      <4>3. ReadsWord(W, z, text, i, e)  BY <3>5, <3>6, <4>1, <4>2 DEF ReadsWord
      <4>4. PICK l : l = Len(Piece(text, i))  OBVIOUS
      <4>5. l \in Nat /\ l <= LenMod /\ l >= e - i
        BY <2>3, <3>2, <3>3, <4>3, <4>4, WordAt
      <4>6. p \in Nat /\ i \in Nat  BY <3>2, <3>3
      <4> QED  BY <4>1, <4>5, <4>6, Sizes
    <3>8. x.text = SubSeq(text, i, p)
      BY <2>2, <3>2, <3>3, <3>4, <3>5, <3>7, TextGrows DEF x
    <3>9. ReadsWord(W, x.text, text, i, p + 1)
      BY <3>5, <3>6, <3>8 DEF ReadsWord
    <3> QED  BY <3>2, <3>3, <3>9 DEF Reading, Loops
  <2> QED  BY <2>1, <2>3, BeginMeans
<1>5. CASE EndIdent \/ Keyword
  <2> DEFINE y == [OnlyType(tok.text, in) EXCEPT !.begin = tok.begin]
             x == IF EndIdent THEN tok ELSE y
  <2>1. pc = "ident" /\ in.c \notin W /\ Emit(x, in)
        /\ (tok.text \in Keywords <=> ~EndIdent)
    BY <1>5 DEF EndIdent, Keyword
  <2>2. tok.kind = "IDENTIFIER"  BY <1>0, <2>1 DEF TokenInv, Shape
  <2>3. Bare(x) = [kind |-> IF tok.text \in Keywords THEN "ONLY_TYPE" ELSE "IDENTIFIER",
                   text |-> tok.text]
    <3>1. y.kind = "ONLY_TYPE" /\ y.text = tok.text  BY DEF OnlyType, Token
    <3> HIDE DEF y
    <3> QED  BY <2>1, <2>2, <3>1 DEF Bare
  <2> HIDE DEF x
  <2>4. ASSUME Promised PROVE Reached(text, Append(tokens, x), p)
    <3>1. Reading(pc, tok.text, text, tokens, p)  BY <1>1, <2>4
    <3>2. PICK i \in 1 .. n : /\ Reached(text, tokens, i) /\ text[i] \in Letters
                              /\ ReadsWord(W, tok.text, text, i, p)
      BY <2>1, <3>1 DEF Reading
    <3>3. text \in Strings /\ n \in Nat /\ (p = n + 1 \/ text[p] \notin W)
      BY <1>1, <2>1, <2>4
    <3> DEFINE w == Piece(text, i)
    <3> HIDE DEF p
    <3>4. /\ i + Len(w) = p /\ w = tok.text /\ IsKept(tok.text)
          /\ Meant(tok.text) = [kind |-> IF tok.text \in Keywords THEN "ONLY_TYPE"
                                         ELSE "IDENTIFIER",
                                text |-> tok.text]
      BY <2>4, <3>2, <3>3, WordAt
    <3>5. IsKept(w) /\ Bare(x) = Meant(w)  BY <2>3, <3>4
    <3> HIDE DEF w
    <3>6. Reached(text, Append(tokens, x), i + Len(w))
      BY <3>2, <3>3, <3>5, Taken DEF w
    <3> QED  BY <3>4, <3>6
  <2> QED  BY <2>1, <2>4, EmitMeans
<1> QED  BY <1>3, <1>4, <1>5

(* The reader one character further than j.                                *)
LEMMA StepFrom ==
  ASSUME text \in Texts, NulFree, NEW r, Good(r), NEW j \in 1 .. Len(text), Pos(r) = j
  PROVE  LET s == NextChar(r)
         IN  /\ Good(s) /\ Pos(s) = j + 1 /\ j + 1 \in 1 .. Len(text) + 1 /\ Len(text) \in Nat
             /\ j + 1 \in 1 .. Len(text) => s.c = text[j + 1] /\ s.c # Nul
             /\ j + 1 = Len(text) + 1 <=> s.c = Nul
<1> DEFINE s == NextChar(r)
           n == Len(text)
<1>1. n \in Nat  BY PosIs
<1>2. j <= n  BY <1>1
<1>3. Good(s) /\ Pos(s) = j + 1  BY <1>2, PosNext
<1>4. s.c = Nul <=> Pos(s) = n + 1  BY <1>3, PosIs
<1>5. s.c # Nul => s.c = text[Pos(s)]  BY <1>3, PosIs
<1> HIDE DEF s, n
<1>6. j + 1 \in 1 .. n + 1 /\ (j + 1 \in 1 .. n => j + 1 # n + 1)  BY <1>1, <1>2 DEF n
<1> QED  BY <1>1, <1>3, <1>4, <1>5, <1>6 DEF s, n

(* The position of the reader at a piece, and of the reader after it.      *)
Stands(i, list) ==
  /\ i \in 1 .. Len(text) /\ Reached(text, list, i) /\ in.c = text[i] /\ Pos(in) = i
  /\ PieceFacts(text, i, Piece(text, i))
  /\ text \in Strings /\ NulFree /\ text \in Texts /\ Good(in)

LEMMA Standing ==
  ASSUME Ready, Promised, pc = "token", in.c # Nul
  PROVE  Stands(Pos(in), tokens)
<1>1. text \in Texts /\ Good(in) /\ TokenInv /\ MeaningInv  BY DEF Ready
<1>2. text \in Strings /\ NulFree  BY <1>1, Here
<1>3. LET i == Pos(in)
      IN  /\ i \in 1 .. Len(text) /\ Reached(text, tokens, i) /\ in.c = text[i]
          /\ PieceFacts(text, i, Piece(text, i))
  BY <1>1, AtPiece
<1> DEFINE i == Pos(in)
<1> HIDE DEF i
<1>4. /\ i \in 1 .. Len(text) /\ Reached(text, tokens, i) /\ in.c = text[i] /\ Pos(in) = i
      /\ PieceFacts(text, i, Piece(text, i))
  BY <1>3 DEF i
<1> QED  BY <1>1, <1>2, <1>4 DEF Stands, i

(* The end of the file: nothing is left to be meant.                       *)
LEMMA EndMeans == Ready /\ EndOfFile => MeaningInv'
<1> SUFFICES ASSUME Ready, EndOfFile PROVE MeaningInv'
  OBVIOUS
<1>1. /\ pc = "token" /\ pc' = "done" /\ text' = text /\ tok' = tok /\ tokens' = tokens
      /\ in' = in /\ in.c = Nul
  BY DEF EndOfFile
<1>2. text \in Texts /\ Good(in) /\ TokenInv /\ MeaningInv  BY DEF Ready
<1>3. ASSUME Promised PROVE Reading(pc', tok'.text, text, tokens', Pos(in'))
  <2>1. Reading(pc, tok.text, text, tokens, Pos(in)) /\ Pos(in) = Len(text) + 1
    BY <1>1, <1>2, <1>3, Here
  <2>2. Reached(text, tokens, Len(text) + 1)  BY <1>1, <2>1 DEF Reading, Loops
  <2> QED  BY <1>1, <2>2 DEF Reading
<1> QED  BY <1>1, <1>3, SameMeaning

(* A blank is a piece that is dropped.                                     *)
LEMMA BlankMeans == Ready /\ Blank => MeaningInv'
<1> SUFFICES ASSUME Ready, Blank PROVE MeaningInv'
  OBVIOUS
<1> DEFINE r == NextChar(in)
<1>1. pc = "token" /\ in.c \in Spaces /\ Begin("token", tok, r)  BY DEF Blank
<1>2. in.c # Nul  BY <1>1, Classes DEF Marks
<1>3. ASSUME Promised PROVE Reading("token", tok.text, text, tokens, Pos(r))
  <2> PICK i : i = Pos(in)  OBVIOUS
  <2>1. Stands(i, tokens)  BY <1>1, <1>2, <1>3, Standing
  <2>2. Pos(r) = i + 1  BY <2>1, StepFrom DEF Stands
  <2> DEFINE w == Piece(text, i)
  <2>3. IsBlank(w) /\ IsLexeme(w) /\ w \in Strings
    BY <1>1, <2>1 DEF Stands, PieceFacts, Tells
  <2>4. Len(w) = 1  BY <2>3 DEF IsBlank
  <2>5. Kept(w) = <<>>  BY <2>3, MeantIs
  <2>6. Reached(text, tokens, i + Len(w))
    <3>1. Kept(Piece(text, i)) = <<>>  BY <2>5
    <3> QED  BY <2>1, <3>1, Passed DEF Stands
  <2> HIDE DEF w, r
  <2>7. Reached(text, tokens, Pos(r))  BY <2>2, <2>4, <2>6
  <2> QED  BY <2>7 DEF Reading
<1> QED  BY <1>1, <1>3, BeginMeans

(* A symbol.                                                               *)
LEMMA SymbolShown ==
  ASSUME NEW i, NEW list, Stands(i, list), NEW w, w = Piece(text, i), w \in Symbols, NEW r
  PROVE  /\ IsKept(w) /\ Bare(OnlyType(w, r)) = Meant(w) /\ w[1] = text[i]
         /\ \A e : e = i + Len(w) => Reached(text, Append(list, OnlyType(w, r)), e)
<1> DEFINE x == OnlyType(w, r)
<1>1. PieceFacts(text, i, w) /\ w \in Strings /\ IsLexeme(w) /\ Tells(text[i], w)
      /\ w[1] = text[i]
  BY DEF Stands, PieceFacts
<1>2. Single \union MayBeDouble \union {"/", "!"} \subseteq Marks  BY DEF Marks
<1>3. ~IsBlank(w) /\ ~IsComment(w)  BY <1>1, <1>2, Classes DEF Tells
<1>4. IsKept(w)  BY <1>1, <1>3 DEF PieceFacts
<1>5. Meant(w) = [kind |-> "ONLY_TYPE", text |-> w]  BY <1>1, MeantIs
<1>6. x.kind = "ONLY_TYPE" /\ x.text = w  BY DEF OnlyType, Token
<1> HIDE DEF x
<1>7. Bare(x) = Meant(w)  BY <1>5, <1>6 DEF Bare
<1>8. ASSUME NEW e, e = i + Len(w) PROVE Reached(text, Append(list, x), e)
  <2>1. text \in Strings /\ i \in 1 .. Len(text) /\ Reached(text, list, i)  BY DEF Stands
  <2> QED  BY <1>4, <1>7, <1>8, <2>1, Taken
<1> QED  BY <1>1, <1>4, <1>7, <1>8 DEF x

(* A symbol of one character is a piece.                                   *)
LEMMA SymbolMeans == Ready /\ Symbol => MeaningInv'
<1> SUFFICES ASSUME Ready, Symbol PROVE MeaningInv'
  OBVIOUS
<1> DEFINE r == NextChar(in)
           x == OnlyType(<<in.c>>, in)
<1>1. pc = "token" /\ in.c \in Single /\ Emit(x, r)  BY DEF Symbol
<1>2. in.c # Nul  BY <1>1 DEF Single, Nul
<1>3. ASSUME Promised PROVE Reached(text, Append(tokens, x), Pos(r))
  <2> PICK i : i = Pos(in)  OBVIOUS
  <2>1. Stands(i, tokens)  BY <1>1, <1>2, <1>3, Standing
  <2>2. Pos(r) = i + 1  BY <2>1, StepFrom DEF Stands
  <2> PICK w : w = Piece(text, i)  OBVIOUS
  <2>3. w \in Symbols /\ w[1] = in.c
    BY <1>1, <2>1 DEF Stands, PieceFacts, Tells
  <2>4. w = <<in.c>>  BY <1>1, <2>3, SymbolFirst
  <2>5. Len(w) = 1  BY <2>4, ShortIs
  <2> HIDE DEF r
  <2>6. Pos(r) = i + Len(w)  BY <2>2, <2>5
  <2> QED  BY <2>1, <2>3, <2>4, <2>6, SymbolShown
<1> QED  BY <1>1, <1>3, EmitMeans

(* With a character after the first one.                                   *)
LEMMA TwoTell ==
  ASSUME NEW i, NEW list, Stands(i, list), NEW w, w = Piece(text, i), NEW next, next = NextChar(in)
  PROVE  /\ Len(w) \in Nat /\ Len(w) >= 1
         /\ Len(w) > 1 => /\ i + 1 \in 1 .. Len(text) /\ w[2] = text[i + 1] /\ w[2] = next.c
                         /\ next.c # Nul
         /\ next.c # Nul /\ IsLexeme(<<text[i], next.c>>) => Len(w) > 1
         /\ Good(next) /\ Pos(next) = i + 1 /\ i + 1 \in 1 .. Len(text) + 1
         /\ next.c # Nul => i + 1 \in 1 .. Len(text) /\ next.c = text[i + 1]
<1> DEFINE n == Len(text)
           l == Len(w)
<1>0. text \in Strings /\ i \in 1 .. n /\ text \in Texts /\ NulFree /\ Good(in) /\ Pos(in) = i
  BY DEF Stands
<1>1. /\ Good(next) /\ Pos(next) = i + 1 /\ i + 1 \in 1 .. n + 1 /\ n \in Nat
      /\ i + 1 \in 1 .. n => next.c = text[i + 1] /\ next.c # Nul
      /\ i + 1 = n + 1 <=> next.c = Nul
  BY <1>0, StepFrom
<1>2. l \in Nat /\ l >= 1 /\ \A k \in 1 .. l : w[k] = text[i + k - 1] /\ i + k - 1 \in 1 .. n
  BY DEF Stands, PieceFacts
<1>3. \A k \in i .. n : IsLexeme(SubSeq(text, i, k)) => k <= i + l - 1
  BY <1>0, PieceIs
<1> HIDE DEF n, l
<1>4. l > 1 => i + 1 \in 1 .. n /\ w[2] = text[i + 1]
  <2>1. l > 1 => 2 \in 1 .. l  BY <1>2
  <2>2. i + 2 - 1 = i + 1  BY <1>0, <1>1
  <2> QED  BY <1>2, <2>1, <2>2
<1>5. next.c # Nul => i + 1 \in 1 .. n  BY <1>0, <1>1
<1>6. next.c # Nul /\ IsLexeme(<<text[i], next.c>>) => l > 1
  <2> SUFFICES ASSUME next.c # Nul, IsLexeme(<<text[i], next.c>>) PROVE l > 1
    OBVIOUS
  <2>1. i + 1 \in 1 .. n /\ next.c = text[i + 1]  BY <1>1, <1>5
  <2>2. SubSeq(text, i, i + 1) = <<text[i], text[i + 1]>>  BY <1>0, <2>1, TwoPart DEF n
  <2>3. i + 1 \in i .. n  BY <1>0, <1>1, <2>1
  <2>4. i + 1 <= i + l - 1  BY <1>3, <2>1, <2>2, <2>3
  <2> QED  BY <1>0, <1>1, <1>2, <2>4
<1> QED  BY <1>1, <1>2, <1>4, <1>5, <1>6 DEF n, l

(* A symbol that `=` follows is one symbol with it.                        *)
LEMMA DoubleMeans == Ready /\ SymbolOrEqual => MeaningInv'
<1> SUFFICES ASSUME Ready, SymbolOrEqual PROVE MeaningInv'
  OBVIOUS
<1> DEFINE next == NextChar(in)
           after == NextChar(next)
           r == IF next.c = "=" THEN after ELSE next
           s == IF next.c = "=" THEN <<in.c, "=">> ELSE <<in.c>>
           x == OnlyType(s, r)
<1>1. pc = "token" /\ in.c \in MayBeDouble /\ Emit(x, r)  BY DEF SymbolOrEqual
<1>2. in.c # Nul  BY <1>1 DEF MayBeDouble, Nul
<1>3. ASSUME Promised PROVE Reached(text, Append(tokens, x), Pos(r))
  <2> PICK i : i = Pos(in)  OBVIOUS
  <2>1. Stands(i, tokens)  BY <1>1, <1>2, <1>3, Standing
  <2> PICK w : w = Piece(text, i)  OBVIOUS
  <2>2. w \in Symbols /\ w[1] = in.c /\ in.c = text[i]
    BY <1>1, <2>1 DEF Stands, PieceFacts, Tells
  <2>3. w \in {<<in.c>>, <<in.c, "=">>}  BY <1>1, <2>2, SymbolFirst
  <2>4. /\ Len(w) > 1 => w[2] = next.c
        /\ next.c # Nul /\ IsLexeme(<<in.c, next.c>>) => Len(w) > 1
        /\ Good(next) /\ Pos(next) = i + 1
        /\ next.c # Nul => i + 1 \in 1 .. Len(text)
    BY <2>1, <2>2, TwoTell
  <2>5. IsLexeme(<<in.c, "=">>)
    <3>1. <<in.c, "=">> \in Symbols  BY <1>1 DEF Symbols, MayBeDouble
    <3> QED  BY <3>1 DEF IsLexeme
  <2>6. /\ Len(<<in.c>>) = 1 /\ Len(<<in.c, "=">>) = 2 /\ <<in.c, "=">>[2] = "="
    BY ShortIs
  <2>7. next.c = "=" <=> w = <<in.c, "=">>
    <3>1. "=" # Nul  BY DEF Nul
    <3> HIDE DEF next
    <3>2. ASSUME next.c = "=" PROVE Len(w) > 1  BY <2>4, <2>5, <3>1, <3>2
    <3>3. Len(w) > 1 => w = <<in.c, "=">>  BY <2>3, <2>6
    <3>4. w = <<in.c, "=">> => next.c = "="  BY <2>4, <2>6
    <3> QED  BY <3>2, <3>3, <3>4
  <2>8. w = s  BY <2>3, <2>7
  <2>9. Pos(r) = i + Len(w)
    <3>1. CASE next.c = "="
      <4>1. Len(w) = 2  BY <2>6, <2>7, <3>1
      <4>2. i + 1 \in 1 .. Len(text) /\ Good(next) /\ Pos(next) = i + 1
        <5>1. "=" # Nul  BY DEF Nul
        <5> HIDE DEF next
        <5> QED  BY <2>4, <3>1, <5>1
      <4>3. Pos(after) = i + 1 + 1
        <5> HIDE DEF next
        <5>1. text \in Texts /\ NulFree  BY <2>1 DEF Stands
        <5> QED  BY <4>2, <5>1, StepFrom
      <4>4. i \in Int  BY <2>1 DEF Stands
      <4> HIDE DEF after, next
      <4> QED  BY <3>1, <4>1, <4>3, <4>4
    <3>2. CASE next.c # "="
      <4>1. Len(w) = 1  BY <2>3, <2>6, <2>7, <3>2
      <4> HIDE DEF after, next
      <4> QED  BY <2>4, <3>2, <4>1
    <3> QED  BY <3>1, <3>2
  <2> HIDE DEF r, s
  <2> QED  BY <2>1, <2>2, <2>8, <2>9, SymbolShown
<1> QED  BY <1>1, <1>3, EmitMeans

(* Of a legal text, `!` is read with the `=` after it.                     *)
LEMMA BangMeans == Ready /\ Bang => MeaningInv'
<1> SUFFICES ASSUME Ready, Bang PROVE MeaningInv'
  OBVIOUS
<1> DEFINE next == NextChar(in)
           after == NextChar(next)
           s == IF next.c = "=" THEN <<"!", "=">> ELSE <<"+">>
           r == IF next.c = "=" THEN after ELSE next
           x == OnlyType(s, r)
<1>1. pc = "token" /\ in.c = "!" /\ Emit(x, after)  BY DEF Bang
<1>2. in.c # Nul  BY <1>1 DEF Nul
<1>3. ASSUME Promised PROVE Reached(text, Append(tokens, x), Pos(after))
  <2> PICK i : i = Pos(in)  OBVIOUS
  <2>1. Stands(i, tokens)  BY <1>1, <1>2, <1>3, Standing
  <2> PICK w : w = Piece(text, i)  OBVIOUS
  <2>2. w \in Symbols /\ w[1] = "!"
    BY <1>1, <2>1 DEF Stands, PieceFacts, Tells
  <2>3. w = <<"!", "=">>  BY <2>2, SymbolFirst
  <2>4. Len(w) = 2 /\ w[2] = "="  BY <2>3, ShortIs
  <2>5. next.c = "=" /\ Good(next) /\ Pos(next) = i + 1 /\ i + 1 \in 1 .. Len(text)
    <3>1. /\ Len(w) > 1 => w[2] = next.c
          /\ Good(next) /\ Pos(next) = i + 1
          /\ next.c # Nul => i + 1 \in 1 .. Len(text)
      BY <2>1, TwoTell
    <3>2. Len(w) > 1 /\ "=" # Nul  BY <2>4 DEF Nul
    <3> HIDE DEF next
    <3> QED  BY <2>4, <3>1, <3>2
  <2>6. Pos(after) = i + 1 + 1
    <3> HIDE DEF next
    <3>1. text \in Texts /\ NulFree  BY <2>1 DEF Stands
    <3> QED  BY <2>5, <3>1, StepFrom
  <2>7. Pos(after) = i + Len(w)
    <3>1. i \in Int  BY <2>1 DEF Stands
    <3> HIDE DEF after
    <3> QED  BY <2>4, <2>6, <3>1
  <2>8. s = w  BY <2>3, <2>5
  <2> HIDE DEF s, r, after
  <2> QED  BY <2>1, <2>2, <2>7, <2>8, SymbolShown
<1> QED  BY <1>1, <1>3, EmitMeans

(* `/` is a symbol, or the first character of a comment.                   *)
LEMMA SlashMeans == Ready /\ Slash => MeaningInv'
<1> SUFFICES ASSUME Ready, Slash PROVE MeaningInv'
  OBVIOUS
<1> DEFINE next == NextChar(in)
           x == OnlyType(<<"/">>, next)
<1>1. /\ pc = "token" /\ in.c = "/"
      /\ IF next.c = "/" THEN Begin("comment", tok, next) ELSE Emit(x, next)
  BY DEF Slash
<1>2. in.c # Nul  BY <1>1 DEF Nul
<1>3. CASE next.c = "/"
  <2>1. Begin("comment", tok, next)  BY <1>1, <1>3
  <2>2. ASSUME Promised PROVE Reading("comment", tok.text, text, tokens, Pos(next))
    <3> PICK i : i = Pos(in)  OBVIOUS
    <3>1. Stands(i, tokens)  BY <1>1, <1>2, <2>2, Standing
    <3>2. /\ Pos(next) = i + 1 /\ i + 1 \in 1 .. Len(text) + 1
          /\ next.c # Nul => i + 1 \in 1 .. Len(text) /\ next.c = text[i + 1]
      BY <3>1, TwoTell
    <3> HIDE DEF next
    <3>3. next.c # Nul /\ "/" # Newline  BY <1>3 DEF Nul, Newline
    <3>4. i + 1 \in 1 .. Len(text) /\ text[i + 1] = "/" /\ text[i] = "/" /\ i \in 1 .. Len(text)
          /\ Reached(text, tokens, i)
      BY <1>1, <1>3, <3>1, <3>2, <3>3 DEF Stands
    <3>5. \A k \in i .. i + 1 : k = i \/ k = i + 1  BY <3>4
    <3>6. i + 1 \in i + 1 .. Len(text) + 1
      <4> PICK n : n = Len(text)  OBVIOUS
      <4>1. i + 1 \in 1 .. n /\ i \in 1 .. n  BY <3>4
      <4>2. i + 1 \in i + 1 .. n + 1  BY <4>1
      <4> QED  BY <4>2
    <3>7. ReadsComment(text, i, i + 1)  BY <3>3, <3>4, <3>5, <3>6 DEF ReadsComment
    <3> QED  BY <3>2, <3>4, <3>7 DEF Reading, Loops
  <2> QED  BY <2>1, <2>2, BeginMeans
<1>4. CASE next.c # "/"
  <2>1. Emit(x, next)  BY <1>1, <1>4
  <2>2. ASSUME Promised PROVE Reached(text, Append(tokens, x), Pos(next))
    <3> PICK i : i = Pos(in)  OBVIOUS
    <3>1. Stands(i, tokens)  BY <1>1, <1>2, <2>2, Standing
    <3> PICK w : w = Piece(text, i)  OBVIOUS
    <3>2. Pos(next) = i + 1 /\ (Len(w) > 1 => w[2] = next.c)  BY <3>1, TwoTell
    <3>3. IsComment(w) \/ w = <<"/">>  BY <1>1, <3>1 DEF Stands, PieceFacts, Tells
    <3> HIDE DEF next
    <3>4. w = <<"/">>  BY <1>4, <3>2, <3>3 DEF IsComment
    <3>5. w \in Symbols  BY <3>4 DEF Symbols
    <3>6. Len(w) = 1  BY <3>4, ShortIs
    <3>7. Pos(next) = i + Len(w)  BY <3>2, <3>6
    <3> QED  BY <3>1, <3>4, <3>5, <3>7, SymbolShown
  <2> QED  BY <2>1, <2>2, EmitMeans
<1> QED  BY <1>3, <1>4

(* A part of the text that is a comment.                                   *)
LEMMA CommentPart ==
  ASSUME NEW t \in Strings, NEW i \in 1 .. Len(t), NEW j \in i + 1 .. Len(t),
         t[i] = "/", t[i + 1] = "/", \A k \in i .. j : t[k] # Newline
  PROVE  IsComment(SubSeq(t, i, j)) /\ IsLexeme(SubSeq(t, i, j))
<1> DEFINE w == SubSeq(t, i, j)
           l == j - i + 1
<1>0. Len(t) \in Nat  BY LenProperties DEF Strings
<1>1. j \in i .. Len(t)  BY <1>0
<1>2. w \in Strings /\ Len(w) = l
      /\ \A k \in 1 .. l : w[k] = t[i + k - 1]
  BY <1>1, PartIs
<1>3. \A k \in 1 .. l : i + k - 1 \in i .. j  BY <1>0
<1>4. l > 1 /\ 1 \in 1 .. l /\ 2 \in 1 .. l /\ i + 1 - 1 = i /\ i + 2 - 1 = i + 1  BY <1>0
<1> HIDE DEF w, l
<1>5. DOMAIN w = 1 .. l  BY <1>2, LenProperties DEF Strings
<1>6. w[1] = "/" /\ w[2] = "/"
  <2>1. w[1] = t[i + 1 - 1] /\ w[2] = t[i + 2 - 1]  BY <1>2, <1>4
  <2> QED  BY <1>4, <2>1
<1>7. \A k \in DOMAIN w : w[k] # Newline  BY <1>2, <1>3, <1>5
<1>8. IsComment(w)  BY <1>2, <1>4, <1>6, <1>7 DEF IsComment
<1> QED  BY <1>8 DEF IsLexeme, w

(* A comment that a newline ends is a piece that is dropped.               *)
LEMMA CommentAt ==
  ASSUME text \in Strings, Promised, NEW list, NEW i \in 1 .. Len(text),
         Reached(text, list, i), NEW p, ReadsComment(text, i, p), p + 1 \in 1 .. Len(text),
         text[p + 1] = Newline
  PROVE  Reached(text, list, p + 1)
<1> PICK w : w = Piece(text, i)  OBVIOUS
<1> PICK n : n = Len(text)  OBVIOUS
<1> PICK l : l = Len(w)  OBVIOUS
<1>0. n \in Nat  BY LenProperties DEF Strings
<1>1. /\ p \in i + 1 .. n + 1 /\ i + 1 \in 1 .. n
      /\ text[i] = "/" /\ text[i + 1] = "/"
      /\ \A k \in i .. p : k <= n => text[k] # Newline
  BY DEF ReadsComment
<1>2. p \in i + 1 .. n /\ p \in i .. n /\ \A k \in i .. p : k <= n  BY <1>0, <1>1
<1>3. IsLexeme(SubSeq(text, i, p))  BY <1>1, <1>2, CommentPart
<1>4. PieceFacts(text, i, w)  BY PieceAt
<1>5. /\ IsComment(w) \/ w = <<"/">>
      /\ l \in Nat /\ l >= 1 /\ w \in Strings /\ IsLexeme(w)
      /\ \A k \in 1 .. l : w[k] = text[i + k - 1]
  BY <1>1, <1>4 DEF PieceFacts, Tells
<1>6. p <= i + l - 1  BY <1>2, <1>3, PieceIs
<1>7. l > 1  BY <1>0, <1>1, <1>2, <1>5, <1>6
<1>8. w # <<"/">>  BY <1>7, ShortIs
<1>9. IsComment(w)  BY <1>5, <1>8
<1>10. DOMAIN w = 1 .. l  BY <1>5, LenProperties DEF Strings
<1>11. \A k \in 1 .. l : w[k] # Newline  BY <1>9, <1>10 DEF IsComment
<1>12. i + l = p + 1
  <2> SUFFICES ASSUME i + l # p + 1 PROVE FALSE
    OBVIOUS
  <2>1. p + 1 - i + 1 \in 1 .. l /\ i + (p + 1 - i + 1) - 1 = p + 1
    BY <1>0, <1>1, <1>2, <1>5, <1>6
  <2>2. w[p + 1 - i + 1] = text[p + 1]  BY <1>5, <2>1
  <2> QED  BY <1>11, <2>1, <2>2
<1>13. Kept(w) = <<>>  BY <1>5, <1>9, MeantIs
<1>14. Reached(text, list, i + l)  BY <1>13, Passed
<1> QED  BY <1>12, <1>14

(* A comment goes on to its newline, and is dropped.                       *)
LEMMA CommentMeans == Ready /\ CommentTurn => MeaningInv'
<1> SUFFICES ASSUME Ready, CommentTurn PROVE MeaningInv'
  OBVIOUS
<1> PICK r : r = NextChar(in)  OBVIOUS
<1> PICK loop : loop = IF r.c = Newline THEN "token" ELSE "comment"  OBVIOUS
<1>1. pc = "comment" /\ Begin(loop, tok, r)  BY DEF CommentTurn
<1>2. text \in Texts /\ Good(in) /\ TokenInv /\ MeaningInv  BY DEF Ready
<1>3. ASSUME Promised PROVE Reading(loop, tok.text, text, tokens, Pos(r))
  <2> PICK p : p = Pos(in)  OBVIOUS
  <2> PICK n : n = Len(text)  OBVIOUS
  <2>1. /\ text \in Strings /\ NulFree /\ n \in Nat /\ p \in 1 .. n + 1
        /\ Reading(pc, tok.text, text, tokens, p)
    BY <1>2, <1>3, Here
  <2>2. PICK i \in 1 .. n : Reached(text, tokens, i) /\ ReadsComment(text, i, p)
    BY <1>1, <2>1 DEF Reading
  <2>3. /\ p \in i + 1 .. n + 1 /\ i + 1 \in 1 .. n /\ text[i] = "/" /\ text[i + 1] = "/"
        /\ \A k \in i .. p : k <= n => text[k] # Newline
    BY <2>2 DEF ReadsComment
  <2>4. CASE p \in 1 .. n
    <3>1. /\ Pos(r) = p + 1 /\ p + 1 \in 1 .. n + 1
          /\ p + 1 \in 1 .. n => r.c = text[p + 1]
          /\ p + 1 = n + 1 <=> r.c = Nul
      BY <1>2, <2>1, <2>4, StepFrom
    <3>2. CASE r.c = Newline
      <4>1. p + 1 \in 1 .. n
        <5>1. r.c # Nul  BY <3>2 DEF Newline, Nul
        <5> QED  BY <2>1, <3>1, <5>1
      <4>2. Reached(text, tokens, p + 1)  BY <1>3, <2>1, <2>2, <3>1, <3>2, <4>1, CommentAt
      <4> QED  BY <3>1, <3>2, <4>2 DEF Reading
    <3>3. CASE r.c # Newline
      <4>1. p + 1 \in i + 1 .. n + 1 /\ \A k \in i .. p + 1 : k \in i .. p \/ k = p + 1
        BY <2>1, <2>3, <3>1
      <4>2. p + 1 <= n => text[p + 1] # Newline  BY <2>4, <3>1, <3>3
      <4>3. \A k \in i .. p + 1 : k <= n => text[k] # Newline  BY <2>3, <4>1, <4>2
      <4>4. ReadsComment(text, i, p + 1)  BY <2>3, <4>1, <4>3 DEF ReadsComment
      <4> QED  BY <2>2, <3>1, <3>3, <4>4 DEF Reading, Loops
    <3> QED  BY <3>2, <3>3
  <2>5. CASE p = n + 1
    <3>1. Pos(r) = n + 1 /\ Good(r)  BY <1>2, <2>1, <2>5, PosNext
    <3>2. r.c = Nul  BY <1>2, <2>1, <3>1, PosIs
    <3>3. loop = "comment" /\ Pos(r) = p  BY <2>5, <3>1, <3>2 DEF Newline, Nul
    <3> QED  BY <2>2, <3>3 DEF Reading, Loops
  <2> QED  BY <2>1, <2>4, <2>5
<1> QED  BY <1>1, <1>3, BeginMeans

(* Nothing fails on what is promised.                                      *)
LEMMA FailMeans ==
  ASSUME NEW r, Fails(r), ~Promised
  PROVE  MeaningInv'
BY SameMeaning DEF Fails

(* No lexeme begins with any other character.                              *)
LEMMA UnknownMeans == Ready /\ Unknown => MeaningInv'
<1> SUFFICES ASSUME Ready, Unknown PROVE MeaningInv'
  OBVIOUS
<1> PICK l \in StrayPos, m \in StrayPos :
       Emit([Token("UNKNOWN", Void, in) EXCEPT !.line = l, !.column = m], NextChar(in))
  BY DEF Unknown
<1> DEFINE r == NextChar(in)
           x == [Token("UNKNOWN", Void, in) EXCEPT !.line = l, !.column = m]
<1>1. /\ pc = "token" /\ Emit(x, r)
      /\ in.c \notin Spaces \union Digits \union Letters \union Single \union MayBeDouble
                       \union {Nul, "/", "!", Tick, Quote}
  BY DEF Unknown
<1>2. ASSUME Promised PROVE FALSE
  <2> PICK i : i = Pos(in)  OBVIOUS
  <2>1. Stands(i, tokens)  BY <1>1, <1>2, Standing
  <2>2. Tells(in.c, Piece(text, i))  BY <2>1 DEF Stands, PieceFacts
  <2> QED  BY <1>1, <2>2 DEF Tells
<1> QED  BY <1>1, <1>2, EmitMeans

(* The characters of a piece, one after the other.                         *)
LEMMA ReadsOn ==
  ASSUME NEW i, NEW list, Stands(i, list), NEW w, w = Piece(text, i),
         NEW k \in 1 .. Len(w), NEW r, Good(r), Pos(r) = i + k - 1
  PROVE  /\ Good(NextChar(r)) /\ Pos(NextChar(r)) = i + k
         /\ k + 1 \in 1 .. Len(w) => NextChar(r).c = w[k + 1] /\ NextChar(r).c # Nul
<1> PICK n : n = Len(text)  OBVIOUS
<1> PICK l : l = Len(w)  OBVIOUS
<1> PICK s : s = NextChar(r)  OBVIOUS
<1>1. /\ text \in Texts /\ NulFree /\ i \in 1 .. n
      /\ l \in Nat /\ \A h \in 1 .. l : w[h] = text[i + h - 1] /\ i + h - 1 \in 1 .. n
  BY DEF Stands, PieceFacts
<1>2. k \in 1 .. l /\ i + k - 1 \in 1 .. n  BY <1>1
<1>3. /\ Good(s) /\ Pos(s) = i + k - 1 + 1 /\ n \in Nat
      /\ i + k - 1 + 1 \in 1 .. n => s.c = text[i + k - 1 + 1] /\ s.c # Nul
  BY <1>1, <1>2, StepFrom
<1>4. i + k - 1 + 1 = i + k /\ i + (k + 1) - 1 = i + k  BY <1>1, <1>2
<1>5. Pos(s) = i + k /\ (i + k \in 1 .. n => s.c = text[i + k] /\ s.c # Nul)
  BY <1>3, <1>4
<1>6. k + 1 \in 1 .. l => w[k + 1] = text[i + k] /\ i + k \in 1 .. n
  <2> SUFFICES ASSUME k + 1 \in 1 .. l
               PROVE  w[k + 1] = text[i + k] /\ i + k \in 1 .. n
    OBVIOUS
  <2>1. w[k + 1] = text[i + (k + 1) - 1] /\ i + (k + 1) - 1 \in 1 .. n  BY <1>1
  <2> QED  BY <1>4, <2>1
<1> QED  BY <1>3, <1>5, <1>6

(* A character literal.                                                    *)
LEMMA CharMeans == Ready /\ CharLiteral => MeaningInv'
<1> SUFFICES ASSUME Ready, CharLiteral PROVE MeaningInv'
  OBVIOUS
<1> PICK first : first = NextChar(in)  OBVIOUS
<1> PICK second : second = NextChar(first)  OBVIOUS
<1> PICK last : last = IF first.c = Backslash THEN second ELSE first  OBVIOUS
<1> PICK value : value = IF first.c = Backslash THEN Newline ELSE first.c  OBVIOUS
<1> PICK x : x = OneChar("CHAR_LITERAL", value, last)  OBVIOUS
<1> PICK after : after = NextChar(last)  OBVIOUS
<1> PICK r : r = NextChar(after)  OBVIOUS
<1> DEFINE wrong == first.c = Tick \/ (first.c = Backslash /\ second.c # "n")
<1>1. /\ pc = "token" /\ in.c = Tick
      /\ IF wrong THEN Fails(last) ELSE Emit(x, r)
  BY DEF CharLiteral
<1>2. in.c # Nul  BY <1>1 DEF Nul, Tick
<1>3. ASSUME Promised PROVE ~wrong /\ Reached(text, Append(tokens, x), Pos(r))
  <2> PICK i : i = Pos(in)  OBVIOUS
  <2>1. Stands(i, tokens)  BY <1>1, <1>2, <1>3, Standing
  <2> PICK w : w = Piece(text, i)  OBVIOUS
  <2>2. PieceFacts(text, i, w) /\ IsChar(w) /\ IsLexeme(w) /\ w \in Strings
    BY <1>1, <2>1 DEF Stands, PieceFacts, Tells
  <2>3. Tick # Backslash /\ Newline # Nul /\ Backslash # Nul /\ {Tick} \subseteq Marks
    BY DEF Tick, Backslash, Newline, Nul, Marks
  <2>4. IsKept(w)
    <3>1. ~IsBlank(w)  BY <1>1, <2>1, <2>2, <2>3, Classes DEF PieceFacts, Tells, Stands
    <3>2. ~IsComment(w)
      <4>1. Tick # "/"  BY DEF Tick
      <4> QED  BY <1>1, <2>1, <2>2, <4>1 DEF PieceFacts, Tells, Stands
    <3> QED  BY <2>2, <3>1, <3>2 DEF PieceFacts
  <2>5. Meant(w) = [kind |-> "CHAR_LITERAL", text |-> IF Len(w) = 4 THEN <<Newline>> ELSE <<w[2]>>]
    BY <2>2, MeantIs
  <2>6. i \in Nat /\ text \in Texts /\ NulFree /\ Good(in) /\ Pos(in) = i
    BY <2>1 DEF Stands
  <2>7. x.kind = "CHAR_LITERAL" /\ (value # Nul => x.text = <<value>>)
    BY DEF OneChar, Token
  <2>8. ~wrong /\ Bare(x) = Meant(w) /\ Pos(r) = i + Len(w)
    <3>1. CASE w = <<Tick, Backslash, "n", Tick>>
      <4>1. Len(w) = 4 /\ w[2] = Backslash /\ w[3] = "n"  BY <3>1
      <4>2. Good(first) /\ Pos(first) = i + 1 /\ first.c = Backslash
        <5>1. Len(w) > 1  BY <4>1
        <5>2. /\ Len(w) > 1 => w[2] = first.c /\ first.c # Nul
              /\ Good(first) /\ Pos(first) = i + 1
          BY <2>1, TwoTell
        <5> QED  BY <4>1, <5>1, <5>2
      <4>3. Good(second) /\ Pos(second) = i + 2 /\ second.c = "n"
        <5>1. 2 \in 1 .. Len(w) /\ 2 + 1 \in 1 .. Len(w) /\ 2 + 1 = 3 /\ i + 2 - 1 = i + 1
          BY <2>6, <4>1
        <5> QED  BY <2>1, <4>1, <4>2, <5>1, ReadsOn
      <4>4. last = second /\ value = Newline /\ ~wrong  BY <2>3, <4>2, <4>3
      <4>5. Good(after) /\ Pos(after) = i + 3
        <5>1. 3 \in 1 .. Len(w) /\ i + 3 - 1 = i + 2  BY <2>6, <4>1
        <5> QED  BY <2>1, <4>3, <4>4, <5>1, ReadsOn
      <4>6. Pos(r) = i + 4
        <5>1. 4 \in 1 .. Len(w) /\ i + 4 - 1 = i + 3  BY <2>6, <4>1
        <5> QED  BY <2>1, <4>5, <5>1, ReadsOn
      <4>7. Bare(x) = Meant(w)  BY <2>3, <2>5, <2>7, <4>1, <4>4 DEF Bare
      <4> QED  BY <4>1, <4>4, <4>6, <4>7
    <3>2. CASE w # <<Tick, Backslash, "n", Tick>>
      <4>1. Len(w) = 3 /\ w[2] \notin {Tick, Backslash}  BY <2>2, <3>2 DEF IsChar
      <4>2. Good(first) /\ Pos(first) = i + 1 /\ first.c = w[2] /\ first.c # Nul
        <5>1. Len(w) > 1  BY <4>1
        <5>2. /\ Len(w) > 1 => w[2] = first.c /\ first.c # Nul
              /\ Good(first) /\ Pos(first) = i + 1
          BY <2>1, TwoTell
        <5> QED  BY <4>1, <5>1, <5>2
      <4>3. last = first /\ value = w[2] /\ ~wrong /\ value # Nul  BY <4>1, <4>2
      <4>4. Good(after) /\ Pos(after) = i + 2
        <5>1. 2 \in 1 .. Len(w) /\ i + 2 - 1 = i + 1  BY <2>6, <4>1
        <5> QED  BY <2>1, <4>2, <4>3, <5>1, ReadsOn
      <4>5. Pos(r) = i + 3
        <5>1. 3 \in 1 .. Len(w) /\ i + 3 - 1 = i + 2  BY <2>6, <4>1
        <5> QED  BY <2>1, <4>4, <5>1, ReadsOn
      <4>6. Bare(x) = Meant(w)  BY <2>5, <2>7, <4>1, <4>3 DEF Bare
      <4> QED  BY <4>1, <4>3, <4>5, <4>6
    <3> QED  BY <3>1, <3>2
  <2>9. Reached(text, Append(tokens, x), i + Len(w))
    <3>1. text \in Strings /\ i \in 1 .. Len(text) /\ Reached(text, tokens, i)
      BY <2>1 DEF Stands
    <3>2. IsKept(w) /\ Bare(x) = Meant(w)  BY <2>4, <2>8
    <3> QED  BY <3>1, <3>2, Taken
  <2> QED  BY <2>8, <2>9
<1>4. CASE wrong
  <2>1. Fails(last) /\ ~Promised  BY <1>1, <1>3, <1>4
  <2> QED  BY <2>1, FailMeans
<1>5. CASE ~wrong
  <2>1. Emit(x, r)  BY <1>1, <1>5
  <2> QED  BY <1>3, <2>1, EmitMeans
<1> QED  BY <1>4, <1>5

(* A string literal: what is between the quotes.                           *)
Quoted(t, i, w, e) ==
  /\ e \in i + 2 .. Len(t)
  /\ SubSeq(w, 2, Len(w) - 1) = SubSeq(t, i + 1, e - 1)
  /\ w[1] = t[i] /\ w[Len(w)] = t[e]
  /\ \A k \in i + 1 .. e - 1 : k - i + 1 \in 2 .. Len(w) - 1 /\ w[k - i + 1] = t[k]

(* What stands between the quotes.                                         *)
LEMMA Inside ==
  ASSUME NEW t \in Strings, NEW i \in 1 .. Len(t), NEW w, w = Piece(t, i), Len(w) > 2,
         NEW e, e = i + Len(w) - 1
  PROVE  Quoted(t, i, w, e)
<1> PICK n : n = Len(t)  OBVIOUS
<1> PICK l : l = Len(w)  OBVIOUS
<1>1. /\ l \in Nat /\ n \in Nat /\ i + l \in 1 .. n + 1 /\ w \in Strings
      /\ \A k \in 1 .. l : w[k] = t[i + k - 1]
  BY AfterPiece
<1>2. i \in 1 .. n /\ l > 2 /\ e = i + l - 1  OBVIOUS
<1>3. e \in i + 2 .. n /\ i + 1 \in 1 .. n /\ e - 1 \in i + 1 .. n /\ i + 1 - 1 = i
      /\ 2 \in 1 .. l /\ l - 1 \in 2 .. l /\ 1 \in 1 .. l /\ l \in 1 .. l
  BY <1>1, <1>2
<1> DEFINE a == SubSeq(w, 2, l - 1)
           b == SubSeq(t, i + 1, e - 1)
<1>4. /\ a \in Strings /\ Len(a) = l - 1 - 2 + 1
      /\ \A k \in 1 .. l - 1 - 2 + 1 : a[k] = w[2 + k - 1]
  BY <1>1, <1>3, PartIs
<1>5. /\ b \in Strings /\ Len(b) = e - 1 - (i + 1) + 1
      /\ \A k \in 1 .. e - 1 - (i + 1) + 1 : b[k] = t[i + 1 + k - 1]
  BY <1>1, <1>3, PartIs
<1> HIDE DEF a, b
<1>6. l - 1 - 2 + 1 = l - 2 /\ e - 1 - (i + 1) + 1 = l - 2  BY <1>1, <1>2
<1>7. Len(a) = l - 2 /\ Len(b) = l - 2  BY <1>4, <1>5, <1>6
<1>8. \A k \in 1 .. l - 2 : a[k] = b[k]
  <2> SUFFICES ASSUME NEW k \in 1 .. l - 2 PROVE a[k] = b[k]
    OBVIOUS
  <2>1. a[k] = w[2 + k - 1]  BY <1>4, <1>6
  <2>2. b[k] = t[i + 1 + k - 1]  BY <1>5, <1>6
  <2>3. 2 + k - 1 \in 1 .. l /\ i + (2 + k - 1) - 1 = i + 1 + k - 1  BY <1>1, <1>2
  <2>4. w[2 + k - 1] = t[i + (2 + k - 1) - 1]  BY <1>1, <2>3
  <2> QED  BY <2>1, <2>2, <2>3, <2>4
<1>9. a = b
  <2>1. a \in Seq(Characters) /\ b \in Seq(Characters)  BY <1>4, <1>5 DEF Strings
  <2>2. Len(a) = Len(b) /\ \A k \in 1 .. Len(a) : a[k] = b[k]  BY <1>7, <1>8
  <2> QED  BY <2>1, <2>2, SeqEqual
<1>10. \A k \in i + 1 .. e - 1 :
         k - i + 1 \in 2 .. l - 1 /\ k - i + 1 \in 1 .. l /\ i + (k - i + 1) - 1 = k
  BY <1>1, <1>2
<1>11. \A k \in i + 1 .. e - 1 : k - i + 1 \in 2 .. l - 1 /\ w[k - i + 1] = t[k]
  <2> SUFFICES ASSUME NEW k \in i + 1 .. e - 1
               PROVE  k - i + 1 \in 2 .. l - 1 /\ w[k - i + 1] = t[k]
    OBVIOUS
  <2>1. k - i + 1 \in 2 .. l - 1 /\ k - i + 1 \in 1 .. l /\ i + (k - i + 1) - 1 = k
    BY <1>10
  <2>2. w[k - i + 1] = t[i + (k - i + 1) - 1]  BY <1>1, <2>1
  <2> QED  BY <2>1, <2>2
<1>12. w[1] = t[i] /\ w[l] = t[e]
  <2>1. w[1] = t[i + 1 - 1] /\ w[l] = t[i + l - 1]  BY <1>1, <1>3
  <2> QED  BY <1>2, <1>3, <2>1
<1> QED  BY <1>3, <1>9, <1>11, <1>12 DEF a, b, Quoted

(* The reader in a string literal, and the next character.                 *)
StringFacts(i, w, e, p, next) ==
  /\ i \in 1 .. Len(text) /\ Reached(text, tokens, i) /\ text \in Strings
  /\ w = Piece(text, i) /\ PieceFacts(text, i, w) /\ IsString(w)
  /\ e = i + Len(w) - 1 /\ e \in i + 2 .. Len(text) /\ e - i - 1 <= LenMod
  /\ p \in i .. e - 1 /\ text[i] = Quote
  /\ Good(next) /\ Pos(next) = p + 1 /\ next.c = text[p + 1] /\ next.c # Nul
  /\ next.c = Quote <=> p + 1 = e

(* The piece at a quote is a string literal.                               *)
LEMMA StringAt ==
  ASSUME text \in Texts, NulFree, Promised, text \in Strings, NEW i \in 1 .. Len(text),
         Reached(text, tokens, i), text[i] = Quote, NEW r, Good(r), NEW p, p = Pos(r),
         p = i \/ p \in i + 1 .. Len(text),
         NEW w, w = Piece(text, i), NEW e, e = i + Len(w) - 1, p < e, NEW next, next = NextChar(r)
  PROVE  StringFacts(i, w, e, p, next)
<1> PICK n : n = Len(text)  OBVIOUS
<1> PICK l : l = Len(w)  OBVIOUS
<1>1. PieceFacts(text, i, w)  BY PieceAt
<1>2. IsString(w) /\ l \in Nat /\ Promising(text, i)  BY <1>1 DEF PieceFacts, Tells
<1>3. l > 2 /\ l - 2 <= LenMod /\ w[l] = Quote /\ \A k \in 2 .. l - 1 : w[k] # Quote
  BY <1>2 DEF IsString, Promising
<1>4. /\ e \in i + 2 .. n /\ w[l] = text[e]
      /\ \A k \in i + 1 .. e - 1 : k - i + 1 \in 2 .. l - 1 /\ w[k - i + 1] = text[k]
  <2>1. Len(w) > 2  BY <1>3
  <2>2. /\ e \in i + 2 .. Len(text) /\ w[Len(w)] = text[e]
        /\ \A k \in i + 1 .. e - 1 : k - i + 1 \in 2 .. Len(w) - 1 /\ w[k - i + 1] = text[k]
    <3>1. Quoted(text, i, w, e)  BY <2>1, Inside
    <3> QED  BY <3>1 DEF Quoted
  <2> QED  BY <2>2
<1>5. n \in Nat /\ i \in 1 .. n /\ e = i + l - 1  BY LenProperties DEF Strings
<1>6. p \in 1 .. n /\ p \in i .. e - 1 /\ p + 1 \in 1 .. n /\ p + 1 # n + 1 /\ p + 1 \in i + 1 .. e
  BY <1>4, <1>5, SMTT(30)
<1>7. Good(next) /\ Pos(next) = p + 1 /\ next.c = text[p + 1] /\ next.c # Nul
  <2>1. p \in 1 .. Len(text) /\ Pos(r) = p /\ p + 1 \in 1 .. Len(text)  BY <1>6
  <2> QED  BY <2>1, StepFrom
<1>8. p + 1 = e => next.c = Quote  BY <1>3, <1>4, <1>7
<1>9. p + 1 # e => next.c # Quote
  <2> SUFFICES ASSUME p + 1 # e PROVE next.c # Quote
    OBVIOUS
  <2> PICK k : k = p + 1  OBVIOUS
  <2>1. k \in i + 1 .. e - 1
    <3>1. p \in Int /\ e \in Int /\ i \in Int  BY <1>4, <1>5, <1>6
    <3> QED  BY <1>6, <2>1, <3>1, SMTT(30)
  <2>2. w[k - i + 1] = text[k] /\ k - i + 1 \in 2 .. l - 1  BY <1>4, <2>1
  <2> QED  BY <1>3, <1>7, <2>2
<1>10. e - i - 1 <= LenMod  BY <1>2, <1>3, <1>5
<1> QED  BY <1>1, <1>2, <1>4, <1>6, <1>7, <1>8, <1>9, <1>10 DEF StringFacts

(* The first character of a string literal is no quote.                    *)
LEMMA StartStringMeans == Ready /\ StartString => MeaningInv'
<1> SUFFICES ASSUME Ready, StartString PROVE MeaningInv'
  OBVIOUS
<1> PICK next : next = NextChar(in)  OBVIOUS
<1> PICK x : x = OneChar("STRING_LITERAL", next.c, next)  OBVIOUS
<1>1. pc = "token" /\ in.c = Quote /\ Begin("string", x, next)  BY DEF StartString
<1>2. in.c # Nul  BY <1>1 DEF Nul, Quote
<1>3. ASSUME Promised PROVE Reading("string", x.text, text, tokens, Pos(next))
  <2> PICK i : i = Pos(in)  OBVIOUS
  <2>1. Stands(i, tokens)  BY <1>1, <1>2, <1>3, Standing
  <2> PICK w : w = Piece(text, i)  OBVIOUS
  <2> PICK e : e = i + Len(w) - 1  OBVIOUS
  <2>2. /\ text \in Texts /\ NulFree /\ text \in Strings /\ i \in 1 .. Len(text)
        /\ Reached(text, tokens, i) /\ text[i] = Quote /\ Good(in) /\ Pos(in) = i
        /\ IsString(w) /\ Len(w) \in Nat
    BY <1>1, <2>1 DEF Stands, PieceFacts, Tells
  <2>3. i < e  BY <2>2 DEF IsString
  <2>4. StringFacts(i, w, e, i, next)  BY <1>3, <2>2, <2>3, StringAt
  <2>5. /\ e \in i + 2 .. Len(text) /\ Pos(next) = i + 1 /\ next.c = text[i + 1] /\ next.c # Nul
    BY <2>4 DEF StringFacts
  <2> PICK n : n = Len(text)  OBVIOUS
  <2> PICK p : p = i + 1  OBVIOUS
  <2>6. n \in Nat  BY <2>2, LenProperties DEF Strings
  <2>7. p \in i + 1 .. n /\ p \in 1 .. n /\ p < e  BY <2>2, <2>5, <2>6
  <2>8. x.text = <<text[p]>>  BY <2>5 DEF OneChar, Token
  <2>9. SubSeq(text, p, p) = <<text[p]>>  BY <2>2, <2>7, OnePart
  <2>10. ReadsString(x.text, text, i, p)
    BY <2>2, <2>7, <2>8, <2>9 DEF ReadsString
  <2> QED  BY <2>2, <2>5, <2>10 DEF Reading, Loops
<1> QED  BY <1>1, <1>3, BeginMeans

(* In the loop of a string literal.                                        *)
LEMMA StringHere ==
  ASSUME Ready, Promised, pc = "string", NEW next, next = NextChar(in)
  PROVE  \E i, w, e :
           /\ StringFacts(i, w, e, Pos(in), next) /\ Pos(in) \in i + 1 .. e - 1
           /\ tok.text = SubSeq(text, i + 1, Pos(in))
<1> PICK p : p = Pos(in)  OBVIOUS
<1> PICK n : n = Len(text)  OBVIOUS
<1>1. text \in Texts /\ Good(in) /\ TokenInv /\ MeaningInv  BY DEF Ready
<1>2. /\ text \in Strings /\ NulFree /\ n \in Nat
      /\ Reading(pc, tok.text, text, tokens, p)
  BY <1>1, Here
<1>3. PICK i \in 1 .. n : Reached(text, tokens, i) /\ ReadsString(tok.text, text, i, p)
  BY <1>2 DEF Reading
<1> PICK w : w = Piece(text, i)  OBVIOUS
<1> PICK e : e = i + Len(w) - 1  OBVIOUS
<1>4. p \in i + 1 .. n /\ text[i] = Quote /\ tok.text = SubSeq(text, i + 1, p) /\ p < e
  BY <1>3 DEF ReadsString
<1>5. StringFacts(i, w, e, p, next)  BY <1>1, <1>2, <1>3, <1>4, StringAt
<1>6. p \in i + 1 .. e - 1
  <2>1. p \in i .. e - 1 /\ p \in i + 1 .. n /\ e \in Int
    BY <1>2, <1>4, <1>5 DEF StringFacts
  <2> QED  BY <1>2, <2>1
<1> QED  BY <1>4, <1>5, <1>6

(* A string literal that does not end is not legal.                        *)
LEMMA OpenStringMeans == Ready /\ OpenString => MeaningInv'
<1> SUFFICES ASSUME Ready, OpenString PROVE MeaningInv'
  OBVIOUS
<1> PICK next : next = NextChar(in)  OBVIOUS
<1>1. pc = "string" /\ next.c = Nul /\ Fails(next)  BY DEF OpenString
<1>2. ~Promised
  <2> SUFFICES ASSUME Promised PROVE FALSE
    OBVIOUS
  <2>1. PICK i, w, e : StringFacts(i, w, e, Pos(in), next)  BY <1>1, StringHere
  <2> QED  BY <1>1, <2>1 DEF StringFacts
<1> QED  BY <1>1, <1>2, FailMeans

(* A character more of a string literal.                                   *)
LEMMA MoreStringMeans == Ready /\ MoreString => MeaningInv'
<1> SUFFICES ASSUME Ready, MoreString PROVE MeaningInv'
  OBVIOUS
<1> PICK next : next = NextChar(in)  OBVIOUS
<1> PICK x : x = TokenAppend(tok, next.c)  OBVIOUS
<1>1. pc = "string" /\ next.c \notin {Nul, Quote} /\ Begin("string", x, next)
  BY DEF MoreString
<1>2. tok \in LoopToken  BY <1>1 DEF Ready, TokenInv, Shape, NoToken, Growing
<1>3. ASSUME Promised PROVE Reading("string", x.text, text, tokens, Pos(next))
  <2> PICK p : p = Pos(in)  OBVIOUS
  <2>1. PICK i, w, e :
          /\ StringFacts(i, w, e, p, next) /\ p \in i + 1 .. e - 1
          /\ tok.text = SubSeq(text, i + 1, p)
    BY <1>1, <1>3, StringHere
  <2> PICK n : n = Len(text)  OBVIOUS
  <2>2. /\ i \in 1 .. n /\ Reached(text, tokens, i) /\ text \in Strings /\ n \in Nat
        /\ w = Piece(text, i)
        /\ e = i + Len(w) - 1 /\ e \in i + 2 .. n /\ e - i - 1 <= LenMod
        /\ text[i] = Quote /\ Pos(next) = p + 1 /\ next.c = text[p + 1] /\ p + 1 # e
    BY <1>1, <2>1, LenProperties DEF StringFacts, Strings
  <2> PICK m : m = i + 1  OBVIOUS
  <2> PICK q : q = p + 1  OBVIOUS
  <2>3. p \in Int /\ e \in Int /\ i \in Int  BY <2>1, <2>2
  <2>a. /\ p >= i + 1 /\ p <= e - 1 /\ p + 1 # e /\ e <= n /\ i >= 1 /\ n \in Nat
    BY <2>1, <2>2
  <2>b. p + 1 < e /\ p + 1 <= n  BY <2>3, <2>a
  <2>4. m \in 1 .. n /\ q \in m + 1 .. n /\ q - 1 = p /\ q < e /\ q \in i + 1 .. n
    BY <2>3, <2>a, <2>b
  <2>5. q - m < LenMod  BY <2>2, <2>3, <2>4, Sizes, SMTT(30)
  <2>6. x.text = SubSeq(text, m, q)
    <3>1. tok.text = SubSeq(text, m, q - 1) /\ next.c = text[q]  BY <2>1, <2>2, <2>4
    <3> QED  BY <1>2, <2>2, <2>4, <2>5, <3>1, TextGrows
  <2>7. ReadsString(x.text, text, i, q)  BY <2>2, <2>4, <2>6 DEF ReadsString
  <2> QED  BY <2>2, <2>7 DEF Reading, Loops
<1> QED  BY <1>1, <1>3, BeginMeans

(* The character after the quote is dropped: it is the blank that was      *)
(* promised, which is a piece that is dropped too.                         *)
LEMMA EndStringMeans == Ready /\ EndString => MeaningInv'
<1> SUFFICES ASSUME Ready, EndString PROVE MeaningInv'
  OBVIOUS
<1> PICK next : next = NextChar(in)  OBVIOUS
<1> PICK after : after = NextChar(next)  OBVIOUS
<1> PICK r : r = NextChar(after)  OBVIOUS
<1>1. pc = "string" /\ next.c = Quote /\ Emit(tok, r)  BY DEF EndString
<1>2. tok.kind = "STRING_LITERAL" /\ text \in Texts  BY <1>1 DEF Ready, TokenInv, Shape
<1>3. ASSUME Promised PROVE Reached(text, Append(tokens, tok), Pos(r))
  <2> PICK p : p = Pos(in)  OBVIOUS
  <2> PICK list : list = Append(tokens, tok)  OBVIOUS
  <2>1. PICK i, w, e :
          /\ StringFacts(i, w, e, p, next) /\ p \in i + 1 .. e - 1
          /\ tok.text = SubSeq(text, i + 1, p)
    BY <1>1, <1>3, StringHere
  <2> PICK n : n = Len(text)  OBVIOUS
  <2>2. /\ i \in 1 .. n /\ Reached(text, tokens, i) /\ text \in Strings /\ n \in Nat
        /\ w = Piece(text, i) /\ PieceFacts(text, i, w) /\ IsString(w)
        /\ e = i + Len(w) - 1 /\ e \in i + 2 .. n
        /\ text[i] = Quote /\ Good(next) /\ Pos(next) = p + 1 /\ p + 1 = e
    BY <1>1, <2>1, LenProperties DEF StringFacts, Strings
  <2>3. NulFree  BY <1>3 DEF Promised, Legal, NulFree
  <2>4. e \in 1 .. n /\ p = e - 1
    <3>1. e \in i + 2 .. n /\ i \in 1 .. n /\ n \in Nat /\ p \in i + 1 .. e - 1 /\ p + 1 = e
      BY <2>1, <2>2
    <3> QED  BY <3>1
  <2>5. /\ Good(after) /\ Pos(after) = e + 1 /\ e + 1 \in 1 .. n + 1
    BY <1>2, <2>2, <2>3, <2>4, StepFrom
  <2>6. Len(w) > 2 /\ w \in Strings /\ IsLexeme(w) /\ Len(w) \in Nat
    BY <2>2 DEF IsString, PieceFacts
  <2>7. Bare(tok) = Meant(w)
    <3>1. Quoted(text, i, w, e)  BY <2>2, <2>6, Inside
    <3>2. tok.text = SubSeq(w, 2, Len(w) - 1)  BY <2>1, <2>4, <3>1 DEF Quoted
    <3>3. Meant(w) = [kind |-> "STRING_LITERAL", text |-> SubSeq(w, 2, Len(w) - 1)]
      BY <2>2, <2>6, MeantIs
    <3> QED  BY <1>2, <3>2, <3>3 DEF Bare
  <2>8. IsKept(w)
    <3>1. Quote \in Marks /\ Quote # "/"  BY DEF Marks, Quote
    <3>2. ~IsBlank(w)  BY <2>2, <3>1, Classes DEF PieceFacts, Tells
    <3>3. ~IsComment(w)  BY <2>2, <3>1 DEF PieceFacts, Tells
    <3> QED  BY <2>2, <3>2, <3>3 DEF PieceFacts
  <2>9. Reached(text, list, e + 1)
    <3>1. Reached(text, list, i + Len(w))
      <4>1. IsKept(Piece(text, i)) /\ Bare(tok) = Meant(Piece(text, i))  BY <2>2, <2>7, <2>8
      <4>2. Reached(text, Append(tokens, tok), i + Len(Piece(text, i)))
        BY <2>2, <4>1, Taken
      <4> QED  BY <2>2, <4>2
    <3>2. i + Len(w) = e + 1  BY <2>2, <2>6
    <3> QED  BY <3>1, <3>2
  <2> PICK j : j = e + 1  OBVIOUS
  <2>10. j = n + 1 \/ (j \in 1 .. n /\ IsBlank(Piece(text, j)))
    <3>1. i + Len(w) = j  BY <2>2, <2>6
    <3>2. Promising(text, i)  BY <2>2 DEF PieceFacts
    <3>3. LET u == Piece(text, i)
              v == i + Len(u)
          IN  IsString(u) => v = Len(text) + 1 \/ (v \in 1 .. Len(text) /\ IsBlank(Piece(text, v)))
      BY <3>2 DEF Promising
    <3>4. IsString(w) => LET v == i + Len(w)
          IN  v = n + 1 \/ (v \in 1 .. n /\ IsBlank(Piece(text, v)))
      BY <2>2, <3>3
    <3> QED  BY <2>2, <3>1, <3>4
  <2>11. CASE j = n + 1
    <3>1. Pos(after) = Len(text) + 1  BY <2>5, <2>11
    <3>2. Pos(r) = Len(text) + 1  BY <1>2, <2>3, <2>5, <3>1, PosNext
    <3> QED  BY <2>9, <2>11, <3>2
  <2>12. CASE j \in 1 .. n /\ IsBlank(Piece(text, j))
    <3>1. Pos(r) = j + 1
      <4>1. j \in 1 .. Len(text) /\ Pos(after) = j  BY <2>5, <2>12
      <4> QED  BY <1>2, <2>3, <2>5, <4>1, StepFrom
    <3> PICK v : v = Piece(text, j)  OBVIOUS
    <3>2. Len(v) = 1 /\ IsBlank(v)  BY <2>12 DEF IsBlank
    <3>3. v \in Strings /\ IsLexeme(v)
      <4>1. v \in Strings  BY <2>2, <2>12, AfterPiece
      <4> QED  BY <3>2, <4>1 DEF IsLexeme
    <3>4. Kept(v) = <<>>  BY <3>2, <3>3, MeantIs
    <3>5. Reached(text, list, j + Len(v))  BY <2>2, <2>9, <2>12, <3>4, Passed
    <3> QED  BY <3>1, <3>2, <3>5
  <2> QED  BY <2>10, <2>11, <2>12
<1> QED  BY <1>1, <1>3, EmitMeans

-----------------------------------------------------------------------------
(* The first character is read before anything is decided.                 *)
LEMMA ReaderAtOne ==
  ASSUME Init, NulFree
  PROVE  Pos(in) = 1
<1> DEFINE r == [rest |-> text, buff |-> <<Nul>>, pos |-> 0, line |-> 1 % PosMod,
                 column |-> 0, c |-> Nul, read |-> 0]
           n == Len(text)
<1>1. text \in Texts /\ in = NextChar(r) /\ Good(in)  BY ReaderStarts DEF Init
<1>2. Nul \in Alphabet  BY DEF Alphabet
<1>3. <<Nul>> \in Seq(Alphabet) /\ Len(<<Nul>>) = 1  BY <1>2
<1>4. r.rest = text /\ Len(r.buff) = 1 /\ r.pos = 0 /\ r.read = 0 /\ r \in Reader
  BY <1>1, <1>2, <1>3, Sizes, TextIs DEF Reader
<1>5. n \in Nat /\ \A k \in 1 .. n : text[k] # Nul  BY <1>1, TextIs DEF NulFree
<1> HIDE DEF r
<1>6. Moves(r, in) \/ AtEnd(r, in)
  <2>1. r \in Reader /\ r.pos < Len(r.buff)  BY <1>4
  <2>2. in = NextChar(r)  BY <1>1 DEF r
  <2> QED  BY <2>1, <2>2, NextCharIs
<1>7. CASE Moves(r, in)
  <2>1. in.read = 1  BY <1>4, <1>7 DEF Moves
  <2>2. in.c # Nul
    <3> DEFINE l == LineEnd(r.rest)
    <3>1. \/ in.c # Nul
          \/ /\ in.c = in.buff[in.pos] /\ in.pos = 1 /\ l \in 1 .. n
             /\ \A k \in 1 .. l : in.buff[k] = text[k]
      BY <1>4, <1>7 DEF Moves
    <3> HIDE DEF l, n
    <3>2. l \in 1 .. n => 1 \in 1 .. l /\ 1 \in 1 .. n  BY <1>5
    <3> QED  BY <1>5, <3>1, <3>2
  <2> QED  BY <2>1, <2>2 DEF Pos
<1>8. CASE AtEnd(r, in)
  <2>1. text = <<>>  BY <1>4, <1>8 DEF AtEnd
  <2>2. in.c = Nul  BY <1>4, <1>8 DEF AtEnd, Reader
  <2>3. Len(text) = 0  BY <2>1, EmptySeq
  <2> QED  BY <2>2, <2>3 DEF Pos
<1> QED  BY <1>6, <1>7, <1>8

(* The pieces before i are all lexemes.                                    *)
WellCut(t, i) ==
  \E a \in Seq({w \in Strings : IsLexeme(w)}) : Pieces(t) = a \o PiecesFrom(t)[i]

(* Where nothing has been read yet.                                        *)
LEMMA ReadsFirst ==
  ASSUME NEW t \in Strings
  PROVE  Reached(t, <<>>, 1) /\ WellCut(t, 1)
<1> PICK n : n = Len(t)  OBVIOUS
<1> PICK p : p = PiecesFrom(t)[1]  OBVIOUS
<1>1. n \in Nat /\ 1 \in 1 .. n + 1
  <2>1. n \in Nat  BY LenProperties DEF Strings
  <2> QED  BY <2>1
<1>2. Pieces(t) = <<>> \o p
  <2>1. p \in Seq(Strings)  BY <1>1, PiecesFromIs
  <2> QED  BY <2>1, FromAre, ConcatEmptySeq
<1>3. \E a \in Seq(Strings) : Pieces(t) = a \o PiecesFrom(t)[1]
  <2>1. <<>> \in Seq(Strings)  BY EmptySeq
  <2> QED  BY <1>2, <2>1
<1>4. IsSeq(<<>>) /\ \A k \in DOMAIN <<>> : IsMeant(<<>>[k])  BY NoTexts
<1>5. Shown(<<>>) \o MeantFrom(t)[1] = TokensMeant(t)
  <2>1. Shown(<<>>) = <<>>  BY DEF Shown
  <2>2. MeantFrom(t)[1] \in Seq(Meanings)  BY <1>1, MeantFromIs
  <2> QED  BY <2>1, <2>2, FromAre, ConcatEmptySeq
<1>6. Reached(t, <<>>, 1)  BY <1>1, <1>3, <1>4, <1>5 DEF Reached
<1>7. WellCut(t, 1)
  <2>1. <<>> \in Seq({w \in Strings : IsLexeme(w)})  BY EmptySeq
  <2> QED  BY <1>2, <2>1 DEF WellCut
<1> QED  BY <1>6, <1>7

(* At first all of what is meant is still to be read.                      *)
LEMMA MeaningStarts == Init => MeaningInv
<1> SUFFICES ASSUME Init, Promised PROVE Reading(pc, tok.text, text, tokens, Pos(in))
  BY DEF MeaningInv
<1>1. pc = "token" /\ tokens = <<>> /\ text \in Texts  BY DEF Init
<1>2. text \in Strings /\ NulFree
  BY <1>1, TextIsStrings DEF Promised, Legal, NulFree
<1>3. Pos(in) = 1  BY <1>2, ReaderAtOne
<1>4. Reached(text, tokens, 1)  BY <1>1, <1>2, ReadsFirst
<1> QED  BY <1>1, <1>3, <1>4 DEF Reading

(* The list is the beginning of what is meant, whatever the lexer does     *)
(* next.                                                                   *)
LEMMA MeaningKept == LexInv /\ MeaningInv /\ [Next]_vars => MeaningInv'
<1>1. ASSUME LexInv, MeaningInv, Next PROVE MeaningInv'
  <2>1. Ready  BY <1>1 DEF LexInv, ReaderInv, Ready
  <2> QED  BY <1>1, <2>1, EndMeans, BlankMeans, NumberMeans, IdentMeans, SlashMeans,
              CommentMeans, SymbolMeans, DoubleMeans, BangMeans, CharMeans,
              StartStringMeans, MoreStringMeans, EndStringMeans, OpenStringMeans,
              UnknownMeans DEF Next
<1>2. ASSUME MeaningInv, UNCHANGED vars PROVE MeaningInv'
  <2>1. /\ text' = text /\ pc' = pc /\ tok' = tok /\ tokens' = tokens /\ in' = in
    BY <1>2 DEF vars
  <2>2. Promised => Reading(pc', tok'.text, text, tokens', Pos(in'))
    BY <1>2, <2>1 DEF MeaningInv
  <2> QED  BY <2>1, <2>2, SameMeaning
<1> QED  BY <1>1, <1>2

-----------------------------------------------------------------------------
(* The listing.  The spelling of a token, with a newline after it, is the  *)
(* piece it came from.                                                     *)
LEMMA NoLonger ==
  ASSUME NEW v, IsKept(v), NEW w \in Strings, IsLexeme(w), Len(w) > Len(v),
         \A h \in 1 .. Len(v) : w[h] = v[h], w[Len(v) + 1] = Newline
  PROVE  FALSE
<1> PICK l : l = Len(v)  OBVIOUS
<1> PICK m : m = Len(w)  OBVIOUS
<1> PICK c : c = v[1]  OBVIOUS
<1>1. /\ v \in Strings /\ IsLexeme(v) /\ ~IsBlank(v) /\ ~IsComment(v)
      /\ l \in Nat /\ m \in Nat /\ l < m
      /\ DOMAIN w = 1 .. m /\ w[l + 1] = Newline
  BY LenProperties DEF IsKept, Strings
<1>2. l >= 1 /\ Tells(c, v)  BY <1>1, FirstTells
<1>3. w[1] = c /\ m >= 1 /\ l + 1 \in 1 .. m /\ l \in 1 .. l  BY <1>1, <1>2
<1>4. Tells(c, w)  BY <1>3, FirstTells
<1>5. Newline \notin Digits \union Letters  BY Classes
<1>6. CASE IsNumber(v)
  <2>1. IsNumber(w)  BY <1>2, <1>4, <1>6 DEF Tells
  <2> QED  BY <1>1, <1>3, <1>5, <2>1 DEF IsNumber, All
<1>7. CASE IsWord(v)
  <2>1. IsWord(w)  BY <1>2, <1>4, <1>7 DEF Tells
  <2> QED  BY <1>1, <1>3, <1>5, <2>1 DEF IsWord, All
<1>8. CASE IsChar(v)
  <2>1. IsChar(w)  BY <1>2, <1>4, <1>8 DEF Tells
  <2>2. CASE v = <<Tick, Backslash, "n", Tick>>
    <3>1. l = 4  BY <2>2
    <3>2. m = 3 \/ m = 4  BY <2>1 DEF IsChar
    <3>3. l < m  BY <1>1
    <3> QED  BY <3>1, <3>2, <3>3
  <2>3. CASE v # <<Tick, Backslash, "n", Tick>>
    <3>1. l = 3 /\ v[2] # Backslash  BY <1>8, <2>3 DEF IsChar
    <3>2. w[2] = v[2]  BY <3>1
    <3>3. w = <<Tick, Backslash, "n", Tick>>  BY <1>1, <2>1, <3>1 DEF IsChar
    <3>4. w[2] = Backslash  BY <3>3
    <3> QED  BY <3>1, <3>2, <3>4
  <2> QED  BY <2>2, <2>3
<1>9. CASE IsString(v)
  <2>1. IsString(w)  BY <1>2, <1>4, <1>9 DEF Tells
  <2>2. v[l] = Quote /\ l > 2  BY <1>9 DEF IsString
  <2>3. w[l] = Quote  BY <1>3, <2>2
  <2>4. l \in 2 .. m - 1  BY <1>1, <2>2
  <2>5. \A k \in 2 .. m - 1 : w[k] # Quote  BY <2>1 DEF IsString
  <2> QED  BY <2>3, <2>4, <2>5
<1>10. CASE v \in Symbols
  <2>1. c \in Single \union MayBeDouble \union {"!", "/"}  BY <1>2, <1>10 DEF Tells
  <2>2. "=" # Newline /\ "/" # Newline  BY DEF Newline
  <2>3. CASE c = "/"
    <3>1. v = <<"/">>  BY <1>10, <2>3, SymbolFirst
    <3>2. l = 1 /\ m # 1  BY <1>1, <3>1, ShortIs
    <3>3. w # <<"/">>  BY <3>2, ShortIs
    <3>4. IsComment(w)  BY <1>4, <2>3, <3>3 DEF Tells
    <3>5. w[2] = "/"  BY <3>4 DEF IsComment
    <3>6. w[2] = Newline  BY <1>1, <3>2
    <3> QED  BY <2>2, <3>5, <3>6
  <2>4. CASE c # "/"
    <3>1. w \in Symbols  BY <1>4, <2>1, <2>4 DEF Tells
    <3>2. m \in 1 .. 2  BY <3>1, SymbolFirst
    <3>3. m = 2 /\ l = 1  BY <1>1, <1>2, <3>2
    <3>4. w # <<c>>
      <4>1. Len(<<c>>) = 1 /\ Len(w) = 2  BY <3>3, ShortIs
      <4> QED  BY <4>1
    <3>5. w = <<c, "=">>
      <4>1. c \notin Single  BY <1>3, <3>1, <3>4, SymbolFirst
      <4>2. c \in MayBeDouble \union {"!"}  BY <2>1, <2>4, <4>1
      <4>3. CASE c \in MayBeDouble  BY <1>3, <3>1, <3>4, <4>3, SymbolFirst
      <4>4. CASE c = "!"  BY <1>3, <3>1, <4>4, SymbolFirst
      <4> QED  BY <4>2, <4>3, <4>4
    <3>6. w[2] = "="  BY <3>5, ShortIs
    <3>7. w[2] = Newline  BY <1>1, <3>3
    <3> QED  BY <2>2, <3>6, <3>7
  <2> QED  BY <2>3, <2>4
<1> QED  BY <1>1, <1>6, <1>7, <1>8, <1>9, <1>10 DEF IsLexeme

(* Between two ticks or two quotes.                                        *)
Between(x, q) == <<x>> \o q \o <<x>>

Encloses(u, x, q) ==
  /\ u \in Strings /\ Len(u) = Len(q) + 2 /\ Len(q) \in Nat
  /\ u[1] = x /\ u[Len(q) + 2] = x
  /\ \A k \in 1 .. Len(q) : u[k + 1] = q[k]

LEMMA Enclosed ==
  ASSUME NEW q \in Strings, NEW x \in Characters, NEW u, u = Between(x, q)
  PROVE  Encloses(u, x, q)
<1> DEFINE z == <<x>>
           n == Len(q)
           a == z \o q
<1>1. z \in Seq(Characters) /\ Len(z) = 1 /\ z[1] = x  BY SingleIs
<1>2. q \in Seq(Characters) /\ n \in Nat  BY LenProperties DEF Strings
<1> HIDE DEF z
<1>3. /\ a \in Seq(Characters) /\ Len(a) = Len(z) + Len(q)
      /\ \A k \in 1 .. Len(z) + Len(q) : a[k] = IF k <= Len(z) THEN z[k] ELSE q[k - Len(z)]
  BY <1>1, <1>2, ConcatProperties
<1>4. u = a \o z  BY DEF z, a, Between
<1> HIDE DEF a, n
<1>5. Len(a) = n + 1 /\ \A k \in 1 .. n + 1 : a[k] = IF k <= 1 THEN z[k] ELSE q[k - 1]
  BY <1>1, <1>2, <1>3 DEF n
<1>6. /\ a \o z \in Seq(Characters) /\ Len(a \o z) = Len(a) + Len(z)
      /\ \A k \in 1 .. Len(a) + Len(z) : (a \o z)[k] = IF k <= Len(a) THEN a[k] ELSE z[k - Len(a)]
  <2>1. a \in Seq(Characters) /\ z \in Seq(Characters)  BY <1>1, <1>3
  <2> QED  BY <2>1, ConcatProperties
<1>7. /\ u \in Seq(Characters) /\ Len(u) = n + 2
      /\ \A k \in 1 .. n + 2 : u[k] = IF k <= n + 1 THEN a[k] ELSE z[k - (n + 1)]
  <2>1. Len(a) + Len(z) = n + 2 /\ Len(a) = n + 1  BY <1>1, <1>2, <1>5
  <2>2. /\ u \in Seq(Characters) /\ Len(u) = Len(a) + Len(z)
        /\ \A k \in 1 .. Len(a) + Len(z) : u[k] = IF k <= Len(a) THEN a[k] ELSE z[k - Len(a)]
    BY <1>4, <1>6
  <2> QED  BY <2>1, <2>2
<1>8. u[1] = x
  <2>1. 1 \in 1 .. n + 2 /\ 1 \in 1 .. n + 1 /\ 1 <= n + 1  BY <1>2
  <2>2. u[1] = a[1]  BY <1>7, <2>1
  <2>3. a[1] = z[1]  BY <1>5, <2>1
  <2> QED  BY <1>1, <2>2, <2>3
<1>9. u[n + 2] = x
  <2> PICK k : k = n + 2  OBVIOUS
  <2>1. k \in 1 .. n + 2 /\ ~(k <= n + 1) /\ k - (n + 1) = 1  BY <1>2
  <2>2. u[k] = z[k - (n + 1)]  BY <1>7, <2>1
  <2> QED  BY <1>1, <2>1, <2>2
<1>10. \A k \in 1 .. n : u[k + 1] = q[k]
  <2> SUFFICES ASSUME NEW k \in 1 .. n PROVE u[k + 1] = q[k]
    OBVIOUS
  <2>1. k + 1 \in 1 .. n + 2 /\ k + 1 \in 1 .. n + 1 /\ k + 1 <= n + 1 /\ ~(k + 1 <= 1) /\ k + 1 - 1 = k
    BY <1>2
  <2>2. u[k + 1] = a[k + 1]  BY <1>7, <2>1
  <2>3. a[k + 1] = q[k + 1 - 1]  BY <1>5, <2>1
  <2> QED  BY <2>1, <2>2, <2>3
<1> QED  BY <1>2, <1>7, <1>8, <1>9, <1>10 DEF n, Strings, Encloses

(* A newline is spelled as a backslash and an n.                           *)
LEMMA NewlineSpelled ==
  LET u == <<Tick>> \o <<Backslash, "n">> \o <<Tick>>
  IN  /\ u = <<Tick, Backslash, "n", Tick>>
      /\ IsKept(u) /\ Meant(u) = [kind |-> "CHAR_LITERAL", text |-> <<Newline>>]
<1> PICK v : v = <<Tick, Backslash, "n", Tick>>  OBVIOUS
<1> PICK q : q = <<Backslash, "n">>  OBVIOUS
<1> PICK u : u = <<Tick>> \o q \o <<Tick>>  OBVIOUS
<1>1. /\ v \in Strings /\ Len(v) = 4
      /\ v[1] = Tick /\ v[2] = Backslash /\ v[3] = "n" /\ v[4] = Tick
  BY DEF Strings, Characters
<1>2. q \in Strings /\ Len(q) = 2 /\ q[1] = Backslash /\ q[2] = "n"
  BY DEF Strings, Characters
<1>3. Tick \in Characters  BY DEF Characters
<1>4. /\ u \in Strings /\ Len(u) = 4 /\ u[1] = Tick /\ u[4] = Tick
      /\ \A k \in 1 .. 2 : u[k + 1] = q[k]
  <2>1. /\ u \in Strings /\ Len(u) = Len(q) + 2 /\ u[1] = Tick /\ u[Len(q) + 2] = Tick
        /\ \A k \in 1 .. Len(q) : u[k + 1] = q[k]
    <3>1. u = Between(Tick, q)  BY DEF Between
    <3>2. Encloses(u, Tick, q)  BY <1>2, <1>3, <3>1, Enclosed
    <3> QED  BY <3>2 DEF Encloses
  <2> QED  BY <1>2, <2>1
<1>5. u[2] = Backslash /\ u[3] = "n"
  <2>1. u[1 + 1] = q[1] /\ u[2 + 1] = q[2]  BY <1>4
  <2> QED  BY <1>2, <2>1
<1>6. \A k \in 1 .. 4 : u[k] = v[k]
  <2>1. \A k \in 1 .. 4 : k = 1 \/ k = 2 \/ k = 3 \/ k = 4  OBVIOUS
  <2> QED  BY <1>1, <1>4, <1>5, <2>1
<1>7. u = v
  <2>1. u \in Seq(Characters) /\ v \in Seq(Characters)  BY <1>1, <1>4 DEF Strings
  <2>2. Len(u) = Len(v) /\ \A k \in 1 .. Len(u) : u[k] = v[k]  BY <1>1, <1>4, <1>6
  <2> QED  BY <2>1, <2>2, SeqEqual
<1>8. IsChar(v) /\ IsLexeme(v)  BY DEF IsChar, IsLexeme
<1>9. ~IsBlank(v) /\ ~IsComment(v)
  <2>1. Tick # "/"  BY DEF Tick
  <2> QED  BY <1>1, <2>1 DEF IsBlank, IsComment
<1>10. IsKept(v)
  <2>1. Tick # Nul /\ Backslash # Nul /\ "n" # Nul  BY DEF Tick, Backslash, Nul
  <2>2. \A k \in 1 .. 4 : k = 1 \/ k = 2 \/ k = 3 \/ k = 4  OBVIOUS
  <2>3. \A k \in 1 .. Len(v) : v[k] # Nul  BY <1>1, <2>1, <2>2
  <2> QED  BY <1>1, <1>8, <1>9, <2>3 DEF IsKept
<1>11. Meant(v) = [kind |-> "CHAR_LITERAL", text |-> <<Newline>>]
  BY <1>1, <1>8, MeantIs
<1> QED  BY <1>7, <1>10, <1>11

(* What a token is printed as is a lexeme, and means the token: but for a  *)
(* character literal that holds a newline itself, the one it was read from.*)
LEMMA Spelled ==
  ASSUME NEW x, IsMeant(x)
  PROVE  IsKept(fprintf_token(x)) /\ Meant(fprintf_token(x)) = Bare(x)
<1> PICK s : s = fprintf_token(x)  OBVIOUS
<1>1. PICK w : IsKept(w) /\ Bare(x) = Meant(w)  BY DEF IsMeant
<1>2. w \in Strings /\ IsLexeme(w) /\ ~IsBlank(w) /\ ~IsComment(w)  BY <1>1 DEF IsKept
<1>3. x.kind = Meant(w).kind /\ x.text = Meant(w).text
  <2>1. Bare(x).kind = x.kind /\ Bare(x).text = x.text  BY DEF Bare
  <2> QED  BY <1>1, <2>1
<1>4. CASE IsNumber(w)
  <2>1. x.kind = "NUMBER" /\ x.text = w  BY <1>2, <1>3, <1>4, MeantIs
  <2>2. s = w  BY <2>1 DEF fprintf_token
  <2> QED  BY <1>1, <2>2
<1>5. CASE IsWord(w)
  <2>1. x.kind \in {"ONLY_TYPE", "IDENTIFIER"} /\ x.text = w  BY <1>2, <1>3, <1>5, MeantIs
  <2>2. s = w  BY <2>1 DEF fprintf_token
  <2> QED  BY <1>1, <2>2
<1>6. CASE w \in Symbols
  <2>1. x.kind = "ONLY_TYPE" /\ x.text = w  BY <1>2, <1>3, <1>6, MeantIs
  <2>2. s = w  BY <2>1 DEF fprintf_token
  <2> QED  BY <1>1, <2>2
<1>7. CASE IsChar(w)
  <2>1. x.kind = "CHAR_LITERAL" /\ x.text = IF Len(w) = 4 THEN <<Newline>> ELSE <<w[2]>>
    BY <1>2, <1>3, <1>7, MeantIs
  <2>2. s = <<Tick>> \o (IF x.text = <<Newline>> THEN <<Backslash, "n">> ELSE x.text) \o <<Tick>>
    BY <2>1 DEF fprintf_token
  <2>3. CASE x.text = <<Newline>>
    <3>1. s = <<Tick>> \o <<Backslash, "n">> \o <<Tick>>  BY <2>2, <2>3
    <3>2. Bare(x) = [kind |-> "CHAR_LITERAL", text |-> <<Newline>>]  BY <2>1, <2>3 DEF Bare
    <3>3. IsKept(s) /\ Meant(s) = [kind |-> "CHAR_LITERAL", text |-> <<Newline>>]
      BY <3>1, NewlineSpelled
    <3> QED  BY <3>2, <3>3
  <2>4. CASE x.text # <<Newline>>
    <3> PICK c : c = w[2]  OBVIOUS
    <3> PICK q : q = <<c>>  OBVIOUS
    <3>1. Len(w) # 4  BY <2>1, <2>4
    <3>2. Len(w) = 3 /\ w[1] = Tick /\ w[3] = Tick
      <4>1. w # <<Tick, Backslash, "n", Tick>>
        <5>1. Len(<<Tick, Backslash, "n", Tick>>) = 4  OBVIOUS
        <5> QED  BY <3>1, <5>1
      <4> QED  BY <1>7, <4>1 DEF IsChar
    <3>3. x.text = q  BY <2>1, <3>1
    <3>4. s = <<Tick>> \o q \o <<Tick>>  BY <2>2, <2>4, <3>3
    <3>5. c \in Characters /\ Tick \in Characters
      <4>1. 2 \in 1 .. Len(w)  BY <3>2
      <4> QED  BY <1>2, <4>1, ElementOfSeq DEF Strings, Characters
    <3>6. q \in Strings /\ Len(q) = 1 /\ q[1] = c  BY <3>5, SingleIs DEF Strings
    <3>7. /\ s \in Strings /\ Len(s) = 3 /\ s[1] = Tick /\ s[3] = Tick /\ s[2] = c
      <4>1. /\ s \in Strings /\ Len(s) = Len(q) + 2 /\ s[1] = Tick /\ s[Len(q) + 2] = Tick
            /\ \A k \in 1 .. Len(q) : s[k + 1] = q[k]
        <5>1. s = Between(Tick, q)  BY <3>4 DEF Between
        <5>2. Encloses(s, Tick, q)  BY <3>5, <3>6, <5>1, Enclosed
        <5> QED  BY <5>2 DEF Encloses
      <4>2. s[1 + 1] = q[1]  BY <3>6, <4>1
      <4> QED  BY <3>6, <4>1, <4>2
    <3>8. \A k \in 1 .. 3 : s[k] = w[k]
      <4>1. \A k \in 1 .. 3 : k = 1 \/ k = 2 \/ k = 3  OBVIOUS
      <4> QED  BY <3>2, <3>7, <4>1
    <3>9. s = w
      <4>1. s \in Seq(Characters) /\ w \in Seq(Characters)  BY <1>2, <3>7 DEF Strings
      <4>2. Len(s) = Len(w) /\ \A k \in 1 .. Len(s) : s[k] = w[k]  BY <3>2, <3>7, <3>8
      <4> QED  BY <4>1, <4>2, SeqEqual
    <3> QED  BY <1>1, <3>9
  <2> QED  BY <2>3, <2>4
<1>8. CASE IsString(w)
  <2> PICK l : l = Len(w)  OBVIOUS
  <2> PICK q : q = SubSeq(w, 2, l - 1)  OBVIOUS
  <2>1. x.kind = "STRING_LITERAL" /\ x.text = q  BY <1>2, <1>3, <1>8, MeantIs
  <2>2. s = <<Quote>> \o q \o <<Quote>>  BY <2>1 DEF fprintf_token
  <2>3. l > 2 /\ w[1] = Quote /\ w[l] = Quote /\ l \in Nat
    BY <1>2, <1>8, LenProperties DEF IsString, Strings
  <2>4. /\ q \in Strings /\ Len(q) = l - 2
        /\ \A k \in 2 .. l - 1 : q[k - 1] = w[k] /\ k - 1 \in 1 .. l - 2
    <3> PICK j : j = l - 1  OBVIOUS
    <3>1. 2 \in 1 .. l /\ j \in 2 .. l  BY <2>3
    <3>2. /\ q \in Strings /\ Len(q) = j - 2 + 1
          /\ \A k \in 2 .. j : q[k - 2 + 1] = w[k] /\ k - 2 + 1 \in 1 .. j - 2 + 1
      BY <1>2, <3>1, PartIs
    <3>3. j - 2 + 1 = l - 2 /\ \A k \in 2 .. j : k - 2 + 1 = k - 1  BY <2>3
    <3> QED  BY <3>2, <3>3
  <2>5. Quote \in Characters  BY DEF Characters
  <2>6. /\ s \in Strings /\ Len(s) = l /\ s[1] = Quote /\ s[l] = Quote
        /\ \A k \in 1 .. l - 2 : s[k + 1] = q[k]
    <3>1. /\ s \in Strings /\ Len(s) = Len(q) + 2 /\ s[1] = Quote /\ s[Len(q) + 2] = Quote
          /\ \A k \in 1 .. Len(q) : s[k + 1] = q[k]
      <4>1. s = Between(Quote, q)  BY <2>2 DEF Between
      <4>2. Encloses(s, Quote, q)  BY <2>4, <2>5, <4>1, Enclosed
      <4> QED  BY <4>2 DEF Encloses
    <3>2. l - 2 + 2 = l  BY <2>3
    <3> QED  BY <2>4, <3>1, <3>2
  <2>7. \A k \in 1 .. l : s[k] = w[k]
    <3>1. \A k \in 1 .. l : k = 1 \/ k = l \/ (k \in 2 .. l - 1 /\ k - 1 + 1 = k)  BY <2>3
    <3>2. \A k \in 2 .. l - 1 : s[k - 1 + 1] = w[k]  BY <2>4, <2>6
    <3>3. \A k \in 2 .. l - 1 : s[k] = w[k]  BY <3>1, <3>2
    <3> QED  BY <2>3, <2>6, <3>1, <3>3
  <2>8. s = w
    <3>1. s \in Seq(Characters) /\ w \in Seq(Characters)  BY <1>2, <2>6 DEF Strings
    <3>2. Len(s) = Len(w) /\ \A k \in 1 .. Len(s) : s[k] = w[k]  BY <2>6, <2>7
    <3> QED  BY <3>1, <3>2, SeqEqual
  <2> QED  BY <1>1, <2>8
<1> QED  BY <1>2, <1>4, <1>5, <1>6, <1>7, <1>8 DEF IsLexeme

(* Where v stands in a text with a newline after it, v is the piece, and   *)
(* the newline is one that is dropped.                                     *)
StandsAt(t, v, i) ==
  /\ i \in 1 .. Len(t) /\ i + Len(v) \in 1 .. Len(t)
  /\ \A h \in 1 .. Len(v) : t[i + h - 1] = v[h]
  /\ t[i + Len(v)] = Newline

LEMMA PieceThere ==
  ASSUME NEW t \in Strings, NEW v, IsKept(v), NEW i, StandsAt(t, v, i)
  PROVE  Piece(t, i) = v
<1> PICK n : n = Len(t)  OBVIOUS
<1> PICK l : l = Len(v)  OBVIOUS
<1> PICK w : w = Piece(t, i)  OBVIOUS
<1> PICK m : m = Len(w)  OBVIOUS
<1> PICK j : j = i + l - 1  OBVIOUS
<1> PICK u : u = SubSeq(t, i, j)  OBVIOUS
<1>1. v \in Strings /\ IsLexeme(v)  BY DEF IsKept
<1>2. l \in Nat /\ n \in Nat /\ l >= 1
  BY <1>1, LenProperties, FirstTells DEF Strings
<1>3. /\ i \in 1 .. n /\ i + l \in 1 .. n /\ t[i + l] = Newline
      /\ \A h \in 1 .. l : t[i + h - 1] = v[h]
  BY DEF StandsAt
<1>4. j \in i .. n /\ j - i + 1 = l  BY <1>2, <1>3
<1>5. u \in Strings /\ Len(u) = l /\ \A h \in 1 .. l : u[h] = t[i + h - 1]
  <2>1. /\ u \in Strings /\ Len(u) = j - i + 1
        /\ \A h \in 1 .. j - i + 1 : u[h] = t[i + h - 1]
    BY <1>3, <1>4, PartIs
  <2> QED  BY <1>4, <2>1
<1>6. u = v
  <2>1. u \in Seq(Characters) /\ v \in Seq(Characters)  BY <1>1, <1>5 DEF Strings
  <2>2. Len(u) = Len(v) /\ \A h \in 1 .. Len(u) : u[h] = v[h]  BY <1>3, <1>5
  <2> QED  BY <2>1, <2>2, SeqEqual
<1>7. /\ w \in Strings /\ m >= 1 /\ m \in Nat /\ i + m \in 1 .. n + 1
      /\ \A h \in 1 .. m : w[h] = t[i + h - 1]
  BY <1>3, AfterPiece
<1>8. IsLexeme(w) /\ j <= i + m - 1 /\ w = SubSeq(t, i, i + m - 1)
  <2>1. i \in 1 .. Len(t) /\ j \in i .. Len(t) /\ IsLexeme(SubSeq(t, i, j))
    BY <1>1, <1>3, <1>4, <1>6
  <2>2. /\ Piece(t, i) = SubSeq(t, i, i + Len(Piece(t, i)) - 1)
        /\ IsLexeme(Piece(t, i)) /\ j <= i + Len(Piece(t, i)) - 1
    BY <2>1, PieceIs
  <2> QED  BY <2>2
<1>a. i \in Int /\ l \in Int /\ m \in Int  BY <1>2, <1>3, <1>7
<1>9. m >= l
  <2>1. i + l - 1 <= i + m - 1  BY <1>8
  <2> QED  BY <1>a, <2>1
<1>10. ~(m > l)
  <2> SUFFICES ASSUME m > l PROVE FALSE
    OBVIOUS
  <2>1. \A h \in 1 .. l : w[h] = v[h]
    <3>1. \A h \in 1 .. l : h \in 1 .. m  BY <1>2, <1>7
    <3> QED  BY <1>3, <1>7, <3>1
  <2>2. w[l + 1] = Newline
    <3>1. l + 1 \in 1 .. m /\ i + (l + 1) - 1 = i + l  BY <1>2, <1>3, <1>7
    <3>2. w[l + 1] = t[i + (l + 1) - 1]  BY <1>7, <3>1
    <3> QED  BY <1>3, <3>1, <3>2
  <2> QED  BY <1>7, <1>8, <2>1, <2>2, NoLonger
<1>11. i + m - 1 = j
  <2>1. m = l  BY <1>a, <1>9, <1>10
  <2> QED  BY <2>1
<1> QED  BY <1>6, <1>8, <1>11

(* The newline after a token is a piece that is dropped.                   *)
LEMMA NewlineThere ==
  ASSUME NEW t \in Strings, NEW i \in 1 .. Len(t), t[i] = Newline
  PROVE  IsLexeme(Piece(t, i)) /\ Len(Piece(t, i)) = 1 /\ Kept(Piece(t, i)) = <<>>
<1> PICK w : w = Piece(t, i)  OBVIOUS
<1> PICK u : u = SubSeq(t, i, i)  OBVIOUS
<1>1. Len(t) \in Nat  BY LenProperties DEF Strings
<1>2. u = <<Newline>>  BY OnePart
<1>3. IsLexeme(u)
  <2>1. Len(u) = 1 /\ u[1] = Newline  BY <1>2, ShortIs
  <2> QED  BY <2>1, Classes DEF IsLexeme, IsBlank
<1>4. IsLexeme(w)
  <2>1. i \in i .. Len(t)  BY <1>1
  <2> QED  BY <1>3, <2>1, PieceIs
<1>5. /\ w \in Strings /\ Len(w) >= 1 /\ Len(w) \in Nat
      /\ \A k \in 1 .. Len(w) : w[k] = t[i + k - 1]
  BY AfterPiece
<1>6. w[1] = Newline
  <2>1. 1 \in 1 .. Len(w) /\ i + 1 - 1 = i  BY <1>1, <1>5
  <2> QED  BY <1>5, <2>1
<1>7. IsBlank(w)  BY <1>4, <1>5, <1>6, FirstTells, Classes DEF Tells
<1> QED  BY <1>4, <1>5, <1>7, MeantIs DEF IsBlank

(* One more piece that is a lexeme.                                        *)
LEMMA WellCutOn ==
  ASSUME NEW t \in Strings, NEW i \in 1 .. Len(t), WellCut(t, i), IsLexeme(Piece(t, i))
  PROVE  WellCut(t, i + Len(Piece(t, i)))
<1> PICK S : S = {w \in Strings : IsLexeme(w)}  OBVIOUS
<1> PICK w : w = Piece(t, i)  OBVIOUS
<1>1. PICK a \in Seq(S) : Pieces(t) = a \o PiecesFrom(t)[i]  BY DEF WellCut
<1>2. a \in Seq(Strings)
  <2>1. S \subseteq Strings  OBVIOUS
  <2> QED  BY <1>1, <2>1, SeqMonotonic
<1>3. w \in S  BY AfterPiece
<1>4. Pieces(t) = (a \o <<w>>) \o PiecesFrom(t)[i + Len(w)]  BY <1>1, <1>2, PiecesGoOn
<1> PICK b : b = <<w>>  OBVIOUS
<1>5. b \in Seq(S)  BY <1>3, SingleIs
<1>6. a \o b \in Seq(S)  BY <1>1, <1>5, ConcatProperties
<1> QED  BY <1>4, <1>6 DEF WellCut

(* A text of lexemes is legal.                                             *)
LEMMA AllCut ==
  ASSUME NEW t \in Strings, WellCut(t, Len(t) + 1), \A k \in 1 .. Len(t) : t[k] # Nul
  PROVE  Legal(t)
<1> PICK S : S = {w \in Strings : IsLexeme(w)}  OBVIOUS
<1> PICK p : p = Pieces(t)  OBVIOUS
<1>1. PICK a \in Seq(S) : p = a \o PiecesFrom(t)[Len(t) + 1]  BY DEF WellCut
<1>2. p = a  BY <1>1, PiecesFromIs, ConcatEmptySeq
<1>3. \A k \in DOMAIN p : IsLexeme(p[k])
  <2>1. DOMAIN p = 1 .. Len(p) /\ p \in Seq(S)  BY <1>1, <1>2, LenProperties
  <2>2. \A k \in 1 .. Len(p) : p[k] \in S  BY <2>1, ElementOfSeq
  <2> QED  BY <2>1, <2>2
<1>4. DOMAIN t = 1 .. Len(t)  BY LenProperties DEF Strings
<1> QED  BY <1>3, <1>4 DEF Legal

(* What is printed of a list from its k-th token on.                       *)
PrintedFrom(list) ==
  CHOOSE f : f = [k \in 1 .. Len(list) + 1 |->
                    IF k > Len(list) THEN <<>>
                    ELSE Append(fprintf_token(list[k]), Newline) \o f[k + 1]]

(* The listing is what is printed from the first token on.                 *)
LEMMA PrintedIs == \A list : fprintf_tokens(list) = PrintedFrom(list)[1]
BY DEF fprintf_tokens, PrintedFrom

Visible == Characters \ {Nul}

(* A line of the listing.                                                  *)
LEMMA LineIs ==
  ASSUME NEW v, IsKept(v), NEW z, z = Append(v, Newline)
  PROVE  /\ z \in Seq(Visible) /\ Len(v) \in Nat /\ Len(z) = Len(v) + 1 /\ Len(v) >= 1
         /\ \A k \in 1 .. Len(v) : z[k] = v[k]
         /\ z[Len(v) + 1] = Newline
<1>1. v \in Strings /\ IsLexeme(v) /\ \A k \in 1 .. Len(v) : v[k] # Nul  BY DEF IsKept
<1>2. Len(v) \in Nat /\ DOMAIN v = 1 .. Len(v) /\ v \in Seq(Characters)
  BY <1>1, LenProperties DEF Strings
<1>3. Newline \in Visible  BY DEF Visible, Characters, Newline, Nul
<1>4. \A k \in 1 .. Len(v) : v[k] \in Visible  BY <1>1, <1>2, ElementOfSeq DEF Visible
<1>5. v \in Seq(Visible)  BY <1>2, <1>4
<1>6. Len(v) >= 1  BY <1>1, FirstTells
<1> QED  BY <1>2, <1>3, <1>5, <1>6, AppendProperties

(* The equations of the listing.                                           *)
LEMMA PrintedFromIs ==
  ASSUME NEW list, IsSeq(list), \A k \in DOMAIN list : IsMeant(list[k])
  PROVE  LET f == PrintedFrom(list)
             n == Len(list)
         IN  /\ n \in Nat
             /\ \A k \in 1 .. n + 1 : f[k] \in Seq(Visible)
             /\ f[n + 1] = <<>>
             /\ \A k \in 1 .. n : f[k] = Append(fprintf_token(list[k]), Newline) \o f[k + 1]
<1> DEFINE n == Len(list)
           P == PrintedFrom(list)
           g == [k \in 1 .. n |-> k + 1]
           o == [k \in 1 .. n |-> Append(fprintf_token(list[k]), Newline)]
           Is(f) == f = [k \in 1 .. n + 1 |->
                           IF k > n THEN <<>>
                           ELSE Append(fprintf_token(list[k]), Newline) \o f[k + 1]]
<1>1. n \in Nat /\ DOMAIN list = 1 .. n  BY LenProperties DEF IsSeq
<1>2. Forward(n, g)
  <2>1. \A k \in 1 .. n : k + 1 \in 1 .. n + 1 /\ k + 1 > k  BY <1>1
  <2> HIDE DEF n
  <2> QED  BY <2>1 DEF Forward
<1>3. o \in [1 .. n -> Seq(Visible)]
  <2>1. \A k \in 1 .. n : Append(fprintf_token(list[k]), Newline) \in Seq(Visible)
    BY <1>1, Spelled, LineIs
  <2> HIDE DEF n
  <2> QED  BY <2>1
<1>4. /\ \A k \in 1 .. n : o[k] = Append(fprintf_token(list[k]), Newline) /\ g[k] = k + 1
      /\ P = CHOOSE f : Is(f)
  BY DEF PrintedFrom
<1> HIDE DEF n, g, P, o
<1>5. \A f : Is(f) <=> IsChain(n, o, g, f)
  <2>1. \A k \in 1 .. n + 1 : k > n \/ k \in 1 .. n  BY <1>1
  <2> QED  BY <1>4, <2>1 DEF IsChain
<1>6. IsChain(n, o, g, P)
  <2>1. \E f : IsChain(n, o, g, f)  BY <1>1, <1>2, <1>3, ChainExists
  <2>2. \E f : Is(f)  BY <1>5, <2>1
  <2> HIDE DEF Is
  <2>3. Is(P)  BY <1>4, <2>2
  <2> QED  BY <1>5, <2>3
<1> HIDE DEF Is
<1>7. Chained(Visible, n, o, g, P)  BY <1>1, <1>2, <1>3, <1>6, ChainIs
<1> QED  BY <1>1, <1>4, <1>7 DEF Chained, n, P

(* The first tokens of a list, and one more.                               *)
LEMMA OneMore ==
  ASSUME NEW list, IsSeq(list), NEW k \in 1 .. Len(list)
  PROVE  SubSeq(list, 1, k) = Append(SubSeq(list, 1, k - 1), list[k])
<1> PICK S : S = {list[j] : j \in DOMAIN list}  OBVIOUS
<1>1. list \in Seq(S)  BY DEF IsSeq
<1>2. Len(list) \in Nat /\ DOMAIN list = 1 .. Len(list)  BY <1>1, LenProperties
<1>3. 1 \in 1 .. Len(list) /\ k \in 1 .. Len(list)  BY <1>2
<1>4. SubSeq(list, 1, k) = SubSeq(list, 1, k - 1) \o <<list[k]>>
  BY <1>1, <1>3, SubSeqRecursiveSecond
<1> PICK q : q = SubSeq(list, 1, k - 1)  OBVIOUS
<1>5. q \in Seq(S)
  <2>1. \A j \in 1 .. k - 1 : list[j] \in S
    <3>1. \A j \in 1 .. k - 1 : j \in 1 .. Len(list)  BY <1>2
    <3> QED  BY <1>2, <3>1
  <2>2. 1 \in Int /\ k - 1 \in Int  BY <1>2
  <2> QED  BY <2>1, <2>2, SubSeqProperties
<1>6. list[k] \in S  BY <1>2
<1>7. Append(q, list[k]) = q \o <<list[k]>>  BY <1>5, <1>6, AppendIsConcat
<1> QED  BY <1>4, <1>7

(* Three sequences one after the other.                                    *)
InTheMiddle(t, a, z, b) ==
  /\ t = (a \o z) \o b /\ a \o z \in Seq(Visible)
  /\ Len(a) \in Nat /\ Len(a \o z) = Len(a) + Len(z)
  /\ \A h \in 1 .. Len(z) : t[Len(a) + h] = z[h] /\ Len(a) + h \in 1 .. Len(t)

LEMMA Middle ==
  ASSUME NEW a \in Seq(Visible), NEW z \in Seq(Visible), NEW b \in Seq(Visible),
         NEW t, t = a \o (z \o b)
  PROVE  InTheMiddle(t, a, z, b)
<1> DEFINE d == a \o z
           m == Len(a)
           l == Len(z)
           x == Len(b)
<1>1. m \in Nat /\ l \in Nat /\ x \in Nat  BY LenProperties
<1>2. /\ d \in Seq(Visible) /\ Len(d) = m + l
      /\ \A h \in 1 .. m + l : d[h] = IF h <= m THEN a[h] ELSE z[h - m]
  BY ConcatProperties
<1>3. t = d \o b
  <2>1. a \in Seq(Visible) /\ z \in Seq(Visible) /\ b \in Seq(Visible)  OBVIOUS
  <2>2. (a \o z) \o b = a \o (z \o b)  BY <2>1, ConcatAssociative
  <2> QED  BY <2>2
<1> HIDE DEF d, m, l, x
<1>4. /\ Len(t) = Len(d) + Len(b)
      /\ \A h \in 1 .. Len(d) + Len(b) : t[h] = IF h <= Len(d) THEN d[h] ELSE b[h - Len(d)]
  BY <1>2, <1>3, ConcatProperties
<1>5. /\ Len(t) = m + l + x
      /\ \A h \in 1 .. m + l + x : h <= m + l => t[h] = d[h]
  BY <1>2, <1>4 DEF x
<1>6. ASSUME NEW h \in 1 .. l PROVE t[m + h] = z[h] /\ m + h \in 1 .. m + l + x
  <2> PICK y : y = m + h  OBVIOUS
  <2>1. y \in 1 .. m + l + x /\ y <= m + l /\ y \in 1 .. m + l /\ ~(y <= m) /\ y - m = h
    BY <1>1
  <2>2. t[y] = d[y]  BY <1>5, <2>1
  <2>3. d[y] = z[y - m]  BY <1>2, <2>1
  <2> QED  BY <2>1, <2>2, <2>3
<1> QED  BY <1>1, <1>2, <1>3, <1>5, <1>6 DEF InTheMiddle, d, m, l

(* How far the text t that is printed of a list has been read again: up to *)
(* its k-th token, after what was printed before it.                       *)
ReadAgain(t, list, k) ==
  \E a \in Seq(Visible) :
    /\ t = a \o PrintedFrom(list)[k]
    /\ Reached(t, SubSeq(list, 1, k - 1), Len(a) + 1)
    /\ WellCut(t, Len(a) + 1)

(* One more token of the listing is read again.                            *)
LEMMA ReadsAgain ==
  ASSUME NEW list, IsSeq(list), \A k \in DOMAIN list : IsMeant(list[k]),
         NEW t \in Strings, NEW k \in 1 .. Len(list), ReadAgain(t, list, k)
  PROVE  ReadAgain(t, list, k + 1)
<1> PICK next : next = k + 1  OBVIOUS
<1> SUFFICES \E e \in Seq(Visible) :
               /\ t = e \o PrintedFrom(list)[next]
               /\ Reached(t, SubSeq(list, 1, next - 1), Len(e) + 1)
               /\ WellCut(t, Len(e) + 1)
  BY DEF ReadAgain
<1> PICK n : n = Len(list)  OBVIOUS
<1> PICK f : f = PrintedFrom(list)  OBVIOUS
<1> PICK v : v = fprintf_token(list[k])  OBVIOUS
<1> PICK z : z = Append(v, Newline)  OBVIOUS
<1> PICK l : l = Len(v)  OBVIOUS
<1> PICK q : q = SubSeq(list, 1, k - 1)  OBVIOUS
<1>1. PICK a \in Seq(Visible) :
        t = a \o f[k] /\ Reached(t, q, Len(a) + 1) /\ WellCut(t, Len(a) + 1)
  BY DEF ReadAgain
<1> PICK m : m = Len(a)  OBVIOUS
<1> PICK i : i = m + 1  OBVIOUS
<1> PICK b : b = f[k + 1]  OBVIOUS
<1>2. n \in Nat /\ DOMAIN list = 1 .. n /\ k \in 1 .. n /\ k + 1 \in 1 .. n + 1
  <2>1. n \in Nat /\ DOMAIN list = 1 .. n  BY LenProperties DEF IsSeq
  <2> QED  BY <2>1
<1>3. IsKept(v) /\ Meant(v) = Bare(list[k])  BY <1>2, Spelled
<1>4. f[k] = z \o b /\ b \in Seq(Visible)  BY <1>2, PrintedFromIs
<1>5. /\ z \in Seq(Visible) /\ l \in Nat /\ Len(z) = l + 1 /\ l >= 1
      /\ \A h \in 1 .. l : z[h] = v[h]
      /\ z[l + 1] = Newline
  BY <1>3, LineIs
<1>6. t = a \o (z \o b)  BY <1>1, <1>4
<1>7. InTheMiddle(t, a, z, b)  BY <1>1, <1>4, <1>5, <1>6, Middle
<1> PICK d : d = a \o z  OBVIOUS
<1>8. t = d \o b /\ d \in Seq(Visible) /\ m \in Nat /\ Len(d) = m + (l + 1)
  BY <1>5, <1>7 DEF InTheMiddle
<1>10. \A h \in 1 .. l + 1 : t[m + h] = z[h] /\ m + h \in 1 .. Len(t)
  BY <1>5, <1>7 DEF InTheMiddle
<1>11. StandsAt(t, v, i)
  <2>1. 1 \in 1 .. l + 1 /\ l + 1 \in 1 .. l + 1 /\ i + l = m + (l + 1)  BY <1>5, <1>8
  <2>2. i \in 1 .. Len(t)  BY <1>10, <2>1
  <2>3. i + l \in 1 .. Len(t) /\ t[i + l] = Newline  BY <1>5, <1>10, <2>1
  <2>4. \A h \in 1 .. l : t[i + h - 1] = v[h]
    <3>1. \A h \in 1 .. l : h \in 1 .. l + 1 /\ i + h - 1 = m + h  BY <1>5, <1>8
    <3> QED  BY <1>5, <1>10, <3>1
  <2> QED  BY <2>2, <2>3, <2>4 DEF StandsAt
<1>12. Piece(t, i) = v /\ i \in 1 .. Len(t) /\ i + l \in 1 .. Len(t) /\ t[i + l] = Newline
  BY <1>3, <1>11, PieceThere DEF StandsAt
<1> PICK j : j = i + l  OBVIOUS
<1> PICK r : r = Append(q, list[k])  OBVIOUS
<1>13. Reached(t, r, j) /\ WellCut(t, j)
  <2>1. Reached(t, q, i) /\ WellCut(t, i)  BY <1>1
  <2>2. IsKept(Piece(t, i)) /\ Bare(list[k]) = Meant(Piece(t, i)) /\ IsLexeme(Piece(t, i))
    BY <1>3, <1>12 DEF IsKept
  <2>3. Reached(t, Append(q, list[k]), i + Len(Piece(t, i)))  BY <1>12, <2>1, <2>2, Taken
  <2>4. WellCut(t, i + Len(Piece(t, i)))  BY <1>12, <2>1, <2>2, WellCutOn
  <2> QED  BY <1>12, <2>3, <2>4
<1>14. Reached(t, r, j + 1) /\ WellCut(t, j + 1)
  <2>1. j \in 1 .. Len(t) /\ t[j] = Newline  BY <1>12
  <2>2. IsLexeme(Piece(t, j)) /\ Len(Piece(t, j)) = 1 /\ Kept(Piece(t, j)) = <<>>
    BY <2>1, NewlineThere
  <2>3. Reached(t, r, j + Len(Piece(t, j)))  BY <1>13, <2>1, <2>2, Passed
  <2>4. WellCut(t, j + Len(Piece(t, j)))  BY <1>13, <2>1, <2>2, WellCutOn
  <2> QED  BY <2>2, <2>3, <2>4
<1>15. r = SubSeq(list, 1, k)  BY <1>2, OneMore
<1>16. j + 1 = Len(d) + 1  BY <1>5, <1>8
<1>17. next - 1 = k  BY <1>2
<1>18. /\ t = d \o f[next]
       /\ Reached(t, SubSeq(list, 1, next - 1), Len(d) + 1) /\ WellCut(t, Len(d) + 1)
  BY <1>8, <1>14, <1>15, <1>16, <1>17
<1>19. d \in Seq(Visible) /\ t = d \o PrintedFrom(list)[next]
  BY <1>8, <1>18
<1> QED  BY <1>18, <1>19

(* A list that was read is read again from what is printed of it.          *)
LEMMA ReadBack ==
  ASSUME NEW list, IsSeq(list), \A k \in DOMAIN list : IsMeant(list[k])
  PROVE  Legal(fprintf_tokens(list)) /\ TokensMeant(fprintf_tokens(list)) = Shown(list)
<1> PICK n : n = Len(list)  OBVIOUS
<1> PICK t : t = fprintf_tokens(list)  OBVIOUS
<1>1. /\ n \in Nat /\ \A k \in 1 .. n + 1 : PrintedFrom(list)[k] \in Seq(Visible)
      /\ PrintedFrom(list)[n + 1] = <<>>
  BY PrintedFromIs
<1>2. t \in Seq(Visible) /\ t = PrintedFrom(list)[1]
  <2>1. 1 \in 1 .. n + 1  BY <1>1
  <2> QED  BY <1>1, <2>1, PrintedIs
<1>3. t \in Strings
  <2>1. Visible \subseteq Characters  BY DEF Visible
  <2>2. t \in Seq(Characters)  BY <1>2, <2>1, SeqMonotonic
  <2> QED  BY <2>2 DEF Strings
<1>4. \A k \in 1 .. Len(t) : t[k] # Nul  BY <1>2, ElementOfSeq DEF Visible
<1>5. ReadAgain(t, list, 1)
  <2> PICK e : e = <<>>  OBVIOUS
  <2>1. e \in Seq(Visible) /\ Len(e) = 0 /\ e \o t = t  BY <1>2, EmptySeq, ConcatEmptySeq
  <2> PICK h : h = 1  OBVIOUS
  <2> SUFFICES \E a \in Seq(Visible) :
                 /\ t = a \o PrintedFrom(list)[h]
                 /\ Reached(t, SubSeq(list, 1, h - 1), Len(a) + 1)
                 /\ WellCut(t, Len(a) + 1)
    BY DEF ReadAgain
  <2>2. SubSeq(list, 1, h - 1) = <<>>
    <3>1. h - 1 = 0  OBVIOUS
    <3>2. SubSeq(list, 1, 0) = <<>>  BY SubSeqEmpty
    <3> QED  BY <3>1, <3>2
  <2>3. Reached(t, <<>>, 1) /\ WellCut(t, 1)  BY <1>3, ReadsFirst
  <2>4. Len(e) + 1 = 1  BY <2>1
  <2>5. Reached(t, SubSeq(list, 1, h - 1), Len(e) + 1) /\ WellCut(t, Len(e) + 1)
    BY <2>2, <2>3, <2>4
  <2>6. t = e \o PrintedFrom(list)[h]  BY <1>2, <2>1
  <2> QED  BY <2>1, <2>5, <2>6
<1>6. ReadAgain(t, list, n + 1)
  <2> PICK T : T = {k \in 1 .. n + 1 : ~ReadAgain(t, list, k)}  OBVIOUS
  <2> SUFFICES ASSUME T # {} PROVE FALSE
    BY <1>1
  <2>1. T \subseteq Nat  BY <1>1
  <2>2. PICK k \in T : \A y \in T : k <= y  BY <2>1, Least
  <2>3. k \in 1 .. n + 1 /\ ~ReadAgain(t, list, k)  BY <2>2
  <2>4. k # 1  BY <1>5, <2>3
  <2> PICK j : j = k - 1  OBVIOUS
  <2>5. j \in 1 .. n /\ j \in 1 .. n + 1 /\ ~(k <= j) /\ j + 1 = k  BY <1>1, <2>3, <2>4
  <2>6. ReadAgain(t, list, j)  BY <2>2, <2>5
  <2>7. ReadAgain(t, list, j + 1)  BY <1>3, <2>5, <2>6, ReadsAgain
  <2> QED  BY <2>3, <2>5, <2>7
<1>7. Reached(t, list, Len(t) + 1) /\ WellCut(t, Len(t) + 1)
  <2> PICK h : h = n + 1  OBVIOUS
  <2>1. ReadAgain(t, list, h)  BY <1>6
  <2>2. PICK a \in Seq(Visible) :
          /\ t = a \o PrintedFrom(list)[h]
          /\ Reached(t, SubSeq(list, 1, h - 1), Len(a) + 1)
          /\ WellCut(t, Len(a) + 1)
    BY <2>1 DEF ReadAgain
  <2>3. t = a  BY <1>1, <2>2, ConcatEmptySeq
  <2>4. SubSeq(list, 1, h - 1) = list
    <3>1. h - 1 = Len(list)  BY <1>1
    <3>2. SubSeq(list, 1, Len(list)) = list  BY SubSeqFull DEF IsSeq
    <3> QED  BY <3>1, <3>2
  <2> QED  BY <2>2, <2>3, <2>4
<1>8. Legal(t)  BY <1>3, <1>4, <1>7, AllCut
<1>9. TokensMeant(t) = Shown(list)
  <2>1. Shown(list) \o MeantFrom(t)[Len(t) + 1] = TokensMeant(t)  BY <1>7 DEF Reached
  <2>2. MeantFrom(t)[Len(t) + 1] = <<>>  BY <1>3, MeantFromIs
  <2>3. Shown(list) \in Seq(Meanings)  BY ShownIs
  <2> QED  BY <2>1, <2>2, <2>3, ConcatEmptySeq
<1> QED  BY <1>8, <1>9

(* The list is the beginning of what is meant, and in the end all of it.   *)
LEMMA ReachedShows ==
  ASSUME NEW t \in Strings, NEW list, NEW i, Reached(t, list, i)
  PROVE  /\ Len(list) \in Nat /\ Len(TokensMeant(t)) \in Nat
         /\ Len(list) <= Len(TokensMeant(t))
         /\ \A k \in DOMAIN list :
              /\ list[k].kind = TokensMeant(t)[k].kind
              /\ list[k].text = TokensMeant(t)[k].text
         /\ i = Len(t) + 1 => TokensMeant(t) = Shown(list) /\ Len(TokensMeant(t)) = Len(list)
<1> PICK n : n = Len(list)  OBVIOUS
<1> PICK s : s = Shown(list)  OBVIOUS
<1> PICK m : m = MeantFrom(t)[i]  OBVIOUS
<1> PICK u : u = TokensMeant(t)  OBVIOUS
<1>1. /\ i \in 1 .. Len(t) + 1 /\ IsSeq(list) /\ u = s \o m
      /\ \A k \in DOMAIN list : IsMeant(list[k])
  BY DEF Reached
<1>2. /\ s \in Seq(Meanings) /\ Len(s) = n /\ n \in Nat /\ DOMAIN list = 1 .. n
      /\ \A k \in 1 .. n : s[k] = Bare(list[k])
  BY <1>1, ShownIs
<1>3. m \in Seq(Meanings)  BY <1>1, MeantFromIs
<1>4. /\ Len(u) = Len(s) + Len(m)
      /\ \A k \in 1 .. Len(s) + Len(m) : u[k] = IF k <= Len(s) THEN s[k] ELSE m[k - Len(s)]
  <2>1. s \in Seq(Meanings) /\ m \in Seq(Meanings)  BY <1>2, <1>3
  <2>2. /\ Len(s \o m) = Len(s) + Len(m)
        /\ \A k \in 1 .. Len(s) + Len(m) :
             (s \o m)[k] = IF k <= Len(s) THEN s[k] ELSE m[k - Len(s)]
    BY <2>1, ConcatProperties
  <2> QED  BY <1>1, <2>2
<1> PICK x : x = Len(m)  OBVIOUS
<1>5. x \in Nat /\ Len(u) = n + x  BY <1>2, <1>3, <1>4, LenProperties
<1>6. \A k \in 1 .. n : u[k] = s[k]
  <2>1. \A k \in 1 .. n : k \in 1 .. n + x /\ k <= n  BY <1>2, <1>5
  <2> QED  BY <1>2, <1>4, <2>1
<1>7. \A k \in DOMAIN list : list[k].kind = u[k].kind /\ list[k].text = u[k].text
  <2> SUFFICES ASSUME NEW k \in DOMAIN list
               PROVE  list[k].kind = u[k].kind /\ list[k].text = u[k].text
    OBVIOUS
  <2> PICK y : y = list[k]  OBVIOUS
  <2>1. u[k] = Bare(y)  BY <1>2, <1>6
  <2>2. Bare(y).kind = y.kind /\ Bare(y).text = y.text  BY DEF Bare
  <2> QED  BY <2>1, <2>2
<1>8. i = Len(t) + 1 => u = s
  <2> SUFFICES ASSUME i = Len(t) + 1 PROVE u = s
    OBVIOUS
  <2>1. m = <<>>  BY MeantFromIs
  <2> QED  BY <1>1, <1>2, <2>1, ConcatEmptySeq
<1>9. Len(u) \in Nat /\ n <= Len(u)  BY <1>2, <1>5
<1> QED  BY <1>2, <1>7, <1>8, <1>9

(* Whatever loop runs, the list is the beginning of what is meant.         *)
LEMMA ReadingReached ==
  ASSUME NEW loop, NEW q, NEW t, NEW list, NEW p, Reading(loop, q, t, list, p)
  PROVE  /\ \E i : Reached(t, list, i)
         /\ loop = "done" => Reached(t, list, Len(t) + 1)
         /\ loop \notin {"failed", "crashed"}
BY DEF Reading, Loops

(* The invariant says that the tokens are meant.                           *)
LEMMA MeaningShows == LexInv /\ MeaningInv => TokensAreMeant
<1> SUFFICES ASSUME LexInv, MeaningInv, Promised
             PROVE  LET meant == TokensMeant(text)
                    IN  /\ pc \notin {"failed", "crashed"}
                        /\ Len(tokens) <= Len(meant)
                        /\ pc = "done" => /\ Len(tokens) = Len(meant)
                                          /\ Legal(fprintf_tokens(tokens))
                                          /\ TokensMeant(fprintf_tokens(tokens)) = meant
                        /\ \A k \in DOMAIN tokens :
                             tokens[k].kind = meant[k].kind /\ tokens[k].text = meant[k].text
  BY DEF TokensAreMeant
<1>1. text \in Strings  BY TextIsStrings DEF LexInv, ReaderInv
<1>2. /\ \E i : Reached(text, tokens, i)
      /\ pc = "done" => Reached(text, tokens, Len(text) + 1)
      /\ pc \notin {"failed", "crashed"}
  BY ReadingReached DEF MeaningInv
<1> PICK meant : meant = TokensMeant(text)  OBVIOUS
<1>3. /\ Len(tokens) <= Len(meant)
      /\ \A k \in DOMAIN tokens :
           tokens[k].kind = meant[k].kind /\ tokens[k].text = meant[k].text
  BY <1>1, <1>2, ReachedShows
<1>4. ASSUME pc = "done"
      PROVE  /\ Len(tokens) = Len(meant)
             /\ Legal(fprintf_tokens(tokens))
             /\ TokensMeant(fprintf_tokens(tokens)) = meant
  <2>1. Reached(text, tokens, Len(text) + 1)  BY <1>2, <1>4
  <2>2. meant = Shown(tokens) /\ Len(tokens) = Len(meant)  BY <1>1, <2>1, ReachedShows
  <2>3. IsSeq(tokens) /\ \A k \in DOMAIN tokens : IsMeant(tokens[k])  BY <2>1 DEF Reached
  <2> QED  BY <2>2, <2>3, ReadBack
<1> QED  BY <1>2, <1>3, <1>4

-----------------------------------------------------------------------------
(* Of every file that is promised anything - every legal text in which no  *)
(* name, number or string is longer than the width of its length counts    *)
(* and a blank or nothing follows every string literal -, and for every    *)
(* size of the line buffer: lexify refuses nothing; the tokens it has put  *)
(* in the list are at any time the first of those the longest pieces of    *)
(* the text mean, and at the end of the file they are all of them; and     *)
(* fprintf_tokens prints of that list a text that is legal again and means *)
(* the same tokens.                                                        *)
THEOREM LexTokensAreMeant == Spec => []TokensAreMeant
<1>1. Init => LexInv /\ MeaningInv  BY LexStarts, MeaningStarts
<1>2. LexInv /\ MeaningInv /\ [Next]_vars => LexInv' /\ MeaningInv'  BY LexKept, MeaningKept
<1> QED  BY <1>1, <1>2, MeaningShows, PTL DEF Spec
=============================================================================
