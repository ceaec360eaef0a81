---------------------------- MODULE ShellProofs ----------------------------
(***************************************************************************)
(* What the line of the shell always shows, and what the game of Tron that *)
(* is played from it guarantees on every canvas.                           *)
(***************************************************************************)
EXTENDS Shell, FiniteSetTheorems, SequenceTheorems, TLAPS

\* Put, with a name for the space: the SMT backend knows no such string.
Place(t, c, font) ==
    LET x == t.posX % Mod16
        breaks == x + font * (FontWidth \div 2) > Width \/ c = NEWLINE
        start == IF breaks THEN Newline(t, font) ELSE [t EXCEPT !.posX = x]
        step == font * FontWidth
    IN  CASE c = NEWLINE -> start
          [] c = BACKSPACE -> Erase(start, start.posX - step, font)
          [] c = Space -> [start EXCEPT !.posX = @ + step]
          [] OTHER -> [start EXCEPT !.posX = @ + step,
                         !.shown = @ \cup {[x |-> start.posX, c |-> c]}]

\* The two are the same.
LEMMA PutIsPlace ==
    ASSUME NEW t, NEW c, NEW font
    PROVE  Put(t, c, font) = Place(t, c, font)
  BY Zenon DEF Put, Place, Space

-----------------------------------------------------------------------------
(***************************************************************************)
(* What printing a string does is a fold over its characters.  First, that *)
(* the fold is one Put after the other; then, what one Put does to a line  *)
(* in the smallest font.                                                   *)
(***************************************************************************)
Largest(s) == Max(s)

\* f gives what has been printed of str once the characters at the places of
\* a set in D are.
Draws(f, t, str, font, D) ==
    f = [s \in D |-> IF s = {} THEN t
                     ELSE Put(f[s \ {Largest(s)}], str[Largest(s)], font)]

Drawing(t, str, font) ==
    CHOOSE f : f = [s \in SUBSET (DOMAIN str) |->
                      IF s = {} THEN t
                      ELSE Put(f[s \ {Largest(s)}], str[Largest(s)], font)]

\* PrintString is that fold.
LEMMA PrintIsDrawing ==
    ASSUME NEW t, NEW str, NEW font
    PROVE  PrintString(t, str, font) = Drawing(t, str, font)[DOMAIN str]
  BY Zenon DEF PrintString, FoldLeft, MapThenFoldSet, Drawing, Largest

\* Every non-empty set of naturals has a least element.
LEMMA LeastNat ==
    ASSUME NEW T \in SUBSET Nat, T # {}
    PROVE  \E x \in T : \A y \in T : x <= y
<1>1. PICK R : IsWellFoundedOn(R, Nat) /\ R = OpToRel(<, Nat)
  BY NatLessThanWellFounded, Zenon
<1>2. R = {ss \in Nat \X Nat : ss[1] < ss[2]}
  BY <1>1, Zenon DEF OpToRel
<1>3. PICK x \in T : \A y \in T : ~(<<y, x>> \in R)
  BY <1>1, WFMin
<1>4. \A u, v \in Nat : <<u, v>> \in R <=> u < v
  BY <1>2
<1>5. \A y \in T : x \in Nat /\ y \in Nat /\ ~(y < x)
  BY <1>3, <1>4
<1>6. \A y \in T : x <= y
  BY <1>5
<1>7. QED
  BY <1>6

\* The largest of some places is one of them.
LEMMA LargestIs ==
    ASSUME NEW n \in Nat, NEW s \in SUBSET (1..n), s # {}
    PROVE  Largest(s) \in s /\ \A y \in s : y <= Largest(s)
<1> DEFINE T == {n - x : x \in s}
<1>1. T \in SUBSET Nat /\ T # {}
  <2>1. \A x \in s : n - x \in Nat
    OBVIOUS
  <2>2. PICK x \in s : TRUE
    OBVIOUS
  <2>3. n - x \in T
    BY <2>2
  <2>4. T \in SUBSET Nat
    BY <2>1
  <2>5. QED
    BY <2>3, <2>4
<1>2. PICK m \in T : \A y \in T : m <= y
  BY <1>1, LeastNat
<1>3. PICK x \in s : m = n - x
  OBVIOUS
<1>4. \A y \in s : y <= x
  <2> SUFFICES ASSUME NEW y \in s PROVE y <= x
    OBVIOUS
  <2>1. n - y \in T
    OBVIOUS
  <2>2. n - x <= n - y
    BY <1>2, <1>3, <2>1
  <2>3. x \in Nat /\ y \in Nat
    OBVIOUS
  <2>4. QED
    BY <2>2, <2>3
<1>5. \E z \in s : \A y \in s : z >= y
  BY <1>4
<1>6. Largest(s) \in s /\ \A y \in s : Largest(s) >= y
  BY <1>5 DEF Largest, Max
<1>7. QED
  BY <1>6

\* The fold over the first n characters exists.
LEMMA DrawingExists ==
    ASSUME NEW t, NEW str, NEW font, NEW n \in Nat
    PROVE  \E f : Draws(f, t, str, font, SUBSET (1..n))
<1> DEFINE P(m) == \E f : Draws(f, t, str, font, SUBSET (1..m))
           T == {m \in Nat : ~P(m)}
<1> SUFFICES ASSUME T # {} PROVE FALSE
  OBVIOUS
<1>1. T \in SUBSET Nat
  OBVIOUS
<1>2. PICK m \in T : \A y \in T : m <= y
  BY <1>1, LeastNat
<1>3. m \in Nat /\ ~P(m)
  OBVIOUS
<1>4. CASE m = 0
  <2> DEFINE f == [s \in SUBSET (1..m) |-> t]
  <2>1. \A s \in SUBSET (1..m) : s = {}
    BY <1>4
  <2>2. Draws(f, t, str, font, SUBSET (1..m))
    BY <2>1 DEF Draws
  <2>3. QED
    BY <1>3, <2>2
<1>5. CASE m # 0
  <2>1. m - 1 \in Nat /\ ~(m <= m - 1)
    BY <1>3, <1>5
  <2>2. PICK f : Draws(f, t, str, font, SUBSET (1..(m - 1)))
    BY <1>2, <2>1
  <2> DEFINE D == SUBSET (1..m)
             C == SUBSET (1..(m - 1))
             e == [s \in D |->
                     IF s = {} THEN t
                     ELSE Put(f[s \ {Largest(s)}], str[Largest(s)], font)]
  <2>3. \A s \in D : s # {} => s \ {Largest(s)} \in C
    <3> SUFFICES ASSUME NEW s \in D, s # {}, NEW y \in s, y # Largest(s)
                 PROVE  y \in 1..(m - 1)
      OBVIOUS
    <3>1. Largest(s) \in s /\ y <= Largest(s)
      BY <1>3, LargestIs
    <3>2. Largest(s) \in 1..m /\ y \in 1..m
      BY <3>1
    <3>3. QED
      BY <1>3, <3>1, <3>2
  <2>4. C \subseteq D
    BY <1>3, <2>1
  <2>5. \A s \in C :
           f[s] = IF s = {} THEN t
                  ELSE Put(f[s \ {Largest(s)}], str[Largest(s)], font)
    BY <2>2 DEF Draws
  <2> HIDE DEF C
  <2>6. \A s \in C : e[s] = f[s]
    BY <2>4, <2>5
  <2>7. e = [s \in D |->
               IF s = {} THEN t
               ELSE Put(e[s \ {Largest(s)}], str[Largest(s)], font)]
    BY <2>3, <2>6
  <2> HIDE DEF e
  <2>8. Draws(e, t, str, font, D)
    BY <2>7 DEF Draws
  <2>9. QED
    BY <1>3, <2>8
<1>6. QED
  BY <1>4, <1>5

\* f[k] is what the first k characters of str make of t.
Prints(f, t, str, font) ==
    /\ f[0] = t
    /\ \A k \in 1..Len(str) : f[k] = Put(f[k - 1], str[k], font)
    /\ PrintString(t, str, font) = f[Len(str)]

\* printStringAt prints one character after the other.
LEMMA Printed ==
    ASSUME NEW t, NEW S, NEW str \in Seq(S), NEW font
    PROVE  \E f : Prints(f, t, str, font)
<1> DEFINE n == Len(str)
           D == SUBSET (1..n)
           d == Drawing(t, str, font)
           f == [k \in 0..n |-> d[1..k]]
<1>1. n \in Nat /\ DOMAIN str = 1..n
  BY LenProperties
<1>2. PICK h : Draws(h, t, str, font, D)
  BY <1>1, DrawingExists
<1>3. d = [s \in D |-> IF s = {} THEN t
                       ELSE Put(d[s \ {Largest(s)}], str[Largest(s)], font)]
  <2>1. h = [s \in SUBSET (DOMAIN str) |->
               IF s = {} THEN t
               ELSE Put(h[s \ {Largest(s)}], str[Largest(s)], font)]
    BY <1>1, <1>2 DEF Draws
  <2>2. d = [s \in SUBSET (DOMAIN str) |->
               IF s = {} THEN t
               ELSE Put(d[s \ {Largest(s)}], str[Largest(s)], font)]
    BY <2>1, Zenon DEF Drawing
  <2> HIDE DEF d
  <2>3. QED
    BY <1>1, <2>2
<1>4. PrintString(t, str, font) = d[1..n]
  BY <1>1, PrintIsDrawing
<1> HIDE DEF d
<1>5. f[0] = t
  <2>1. 1..0 = {} /\ {} \in D /\ 0 \in 0..n
    BY <1>1
  <2>2. d[{}] = t
    BY <1>3, <2>1
  <2>3. f[0] = d[1..0]
    BY <2>1
  <2>4. QED
    BY <2>1, <2>2, <2>3
<1>6. ASSUME NEW k \in 1..n
      PROVE  f[k] = Put(f[k - 1], str[k], font)
  <2>0. /\ k \in 0..n /\ k - 1 \in 0..n /\ k \in 1..k /\ k \in Nat
    BY <1>1
  <2>1. 1..k \in D /\ 1..k # {} /\ (1..k) \ {k} = 1..(k - 1)
    <3>1. 1..k # {}
      BY <2>0
    <3>2. \A y \in 1..k : y \in 1..n
      BY <1>1
    <3>3. \A y \in Int : y \in 1..k /\ y # k <=> y \in 1..(k - 1)
      BY <2>0
    <3>4. \A y \in 1..k : y \in Int
      OBVIOUS
    <3>5. \A y \in 1..(k - 1) : y \in Int
      OBVIOUS
    <3>6. (1..k) \ {k} = 1..(k - 1)
      BY <3>3, <3>4, <3>5
    <3>7. QED
      BY <3>1, <3>2, <3>6
  <2>2. Largest(1..k) = k
    <3>1. Largest(1..k) \in 1..k /\ \A y \in 1..k : y <= Largest(1..k)
      BY <2>0, <2>1, LargestIs
    <3>2. QED
      BY <2>0, <3>1
  <2>3. d[1..k] = Put(d[(1..k) \ {Largest(1..k)}], str[Largest(1..k)], font)
    BY <1>3, <2>1
  <2>4. d[1..k] = Put(d[1..(k - 1)], str[k], font)
    BY <2>1, <2>2, <2>3
  <2>5. f[k] = d[1..k] /\ f[k - 1] = d[1..(k - 1)]
    BY <2>0
  <2>6. QED
    BY <2>4, <2>5
<1>7. f[n] = d[1..n]
  BY <1>1
<1> HIDE DEF f
<1>8. Prints(f, t, str, font)
  BY <1>4, <1>5, <1>6, <1>7 DEF Prints
<1>9. QED
  BY <1>8

\* The strings the shell prints, character by character.
LEMMA PrintNone ==
    ASSUME NEW t, NEW font PROVE PrintString(t, <<>>, font) = t
<1>1. <<>> \in Seq({}) /\ Len(<<>>) = 0
  OBVIOUS
<1>2. PICK f : Prints(f, t, <<>>, font)
  BY <1>1, Printed
<1>3. QED
  BY <1>1, <1>2 DEF Prints

\* A character and a newline, or a backspace and a newline.
LEMMA PrintTwo ==
    ASSUME NEW t, NEW a, NEW b, NEW font
    PROVE  PrintString(t, <<a, b>>, font) = Put(Put(t, a, font), b, font)
<1>1. <<a, b>> \in Seq({a, b}) /\ Len(<<a, b>>) = 2
      /\ <<a, b>>[1] = a /\ <<a, b>>[2] = b
  OBVIOUS
<1>2. PICK f : Prints(f, t, <<a, b>>, font)
  BY <1>1, Printed
<1>3. f[0] = t /\ f[1] = Put(f[0], a, font) /\ f[2] = Put(f[1], b, font)
      /\ PrintString(t, <<a, b>>, font) = f[2]
  BY <1>1, <1>2 DEF Prints
<1>4. QED
  BY <1>3

\* What inputRead prints for a key.
LEMMA PrintThree ==
    ASSUME NEW t, NEW a, NEW b, NEW c, NEW font
    PROVE  PrintString(t, <<a, b, c>>, font)
             = Put(Put(Put(t, a, font), b, font), c, font)
<1> DEFINE s == <<a, b, c>>
<1>1. s \in Seq({a, b, c}) /\ Len(s) = 3 /\ s[1] = a /\ s[2] = b /\ s[3] = c
  OBVIOUS
<1> HIDE DEF s
<1>2. PICK f : Prints(f, t, s, font)
  BY <1>1, Printed
<1>3. f[0] = t /\ f[1] = Put(f[0], a, font) /\ f[2] = Put(f[1], b, font)
      /\ f[3] = Put(f[2], c, font) /\ PrintString(t, s, font) = f[3]
  BY <1>1, <1>2 DEF Prints
<1>4. QED
  BY <1>3 DEF s

\* The prompt.
LEMMA PrintFour ==
    ASSUME NEW t, NEW a, NEW b, NEW c, NEW e, NEW font
    PROVE  PrintString(t, <<a, b, c, e>>, font)
             = Put(Put(Put(Put(t, a, font), b, font), c, font), e, font)
<1> DEFINE s == <<a, b, c, e>>
<1>1. s \in Seq({a, b, c, e}) /\ Len(s) = 4
      /\ s[1] = a /\ s[2] = b /\ s[3] = c /\ s[4] = e
  OBVIOUS
<1> HIDE DEF s
<1>2. PICK f : Prints(f, t, s, font)
  BY <1>1, Printed
<1>3. f[0] = t /\ f[1] = Put(f[0], a, font) /\ f[2] = Put(f[1], b, font)
      /\ f[3] = Put(f[2], c, font) /\ f[4] = Put(f[3], e, font)
      /\ PrintString(t, s, font) = f[4]
  BY <1>1, <1>2 DEF Prints
<1>4. QED
  BY <1>3 DEF s

-----------------------------------------------------------------------------
(***************************************************************************)
(* The line of the prompt in the smallest font: t stands behind the        *)
(* characters of h, and shows those that are not spaces.                   *)
(***************************************************************************)
Row(h) == {Glyph(i, h[i]) : i \in {j \in 1..Len(h) : h[j] # Space}}

Drawn(t, h) == t = [posX |-> Len(h) * FontWidth, y |-> t.y, shown |-> Row(h)]

Chars == Letters \cup {"$", ">", Space, Cursor}

\* A character is neither a newline nor a backspace.
LEMMA CharsArePlain ==
    ASSUME NEW c \in Chars PROVE c # NEWLINE /\ c # BACKSPACE
<1>1. Space # NEWLINE /\ Space # BACKSPACE
  BY Zenon DEF Space, NEWLINE, BACKSPACE
<1>2. \A d \in {"$", ">", Cursor} : d # NEWLINE /\ d # BACKSPACE
  BY DEF Cursor, NEWLINE, BACKSPACE
<1>3. \A d \in Letters : d # NEWLINE /\ d # BACKSPACE
  BY LettersAssumption
<1>4. QED
  BY <1>1, <1>2, <1>3 DEF Chars

\* What the widths of the code come to at the n-th place of the line.
InPlace(n) ==
    /\ n * FontWidth \in Nat
    /\ n * FontWidth + FontWidth \div 2 <= Width
    /\ n * FontWidth < Width
    /\ (n * FontWidth) % Mod16 = n * FontWidth
    /\ (n * FontWidth) % Mod32 = n * FontWidth
    /\ (n * FontWidth + 1) % Mod16 = n * FontWidth + 1

\* A longer line is not narrower.
LEMMA Product ==
    ASSUME NEW m \in Nat, NEW n \in Nat, m <= n, NEW w \in Nat
    PROVE  m * w <= n * w /\ m * w \in Nat /\ n * w \in Nat
  OBVIOUS

\* A number below the modulus stays as it is.
LEMMA Wraps ==
    ASSUME NEW m \in Nat, NEW x \in Nat, x < m PROVE x % m = x
  OBVIOUS

\* No column of the line of the prompt breaks the line or wraps a width.
LEMMA Position ==
    ASSUME NEW n \in Nat, n <= MaxChars + 3
    PROVE  InPlace(n)
<1>1. MaxChars \in Nat /\ FontWidth \in Nat /\ FontWidth > 1
      /\ Mod16 \in Nat /\ Mod32 \in Nat /\ Mod32 # 0
      /\ Mod32 % Mod16 = 0 /\ Mod16 > 4 * Width
      /\ Width = FontWidth * (MaxChars + 4)
  BY TerminalAssumption
<1>2. PICK k \in Nat : k = MaxChars + 3
  BY <1>1
<1>3. PICK x \in Nat, z \in Nat : x = n * FontWidth /\ z = k * FontWidth
                                  /\ x <= z
  BY <1>1, <1>2, Product
<1>4. Width = z + FontWidth
  <2>1. Width = FontWidth * (k + 1)
    BY <1>1, <1>2
  <2>2. FontWidth * (k + 1) = k * FontWidth + FontWidth
    BY <1>1, <1>2
  <2>3. QED
    BY <2>1, <2>2, <1>3
<1>5. x + FontWidth \div 2 <= Width /\ x < Width /\ x + 1 < Mod16
  BY <1>1, <1>3, <1>4
<1>6. Mod16 <= Mod32
  <2> SUFFICES ASSUME Mod32 < Mod16 PROVE FALSE
    BY <1>1
  <2>1. Mod32 % Mod16 = Mod32
    BY <1>1, Wraps
  <2>2. QED
    BY <2>1, <1>1
<1>7. x % Mod16 = x /\ x % Mod32 = x /\ (x + 1) % Mod16 = x + 1
  <2>1. x < Mod16 /\ x < Mod32 /\ x + 1 \in Nat
    BY <1>1, <1>3, <1>5, <1>6
  <2>2. QED
    BY <2>1, <1>1, <1>5, Wraps
<1>8. QED
  BY <1>3, <1>5, <1>7 DEF InPlace

\* One character more on the line.
LEMMA RowGrows ==
    ASSUME NEW h \in Seq(Chars), NEW c \in Chars
    PROVE  Row(Append(h, c)) =
             Row(h) \cup (IF c = Space THEN {} ELSE {Glyph(Len(h) + 1, c)})
<1> DEFINE n == Len(h)
           g == Append(h, c)
<1>1. n \in Nat /\ Len(g) = n + 1 /\ g[n + 1] = c
      /\ \A i \in 1..n : g[i] = h[i]
  OBVIOUS
<1> HIDE DEF n, g
<1>2. Row(g) = {Glyph(i, g[i]) : i \in {j \in 1..(n + 1) : g[j] # Space}}
  BY <1>1 DEF Row
<1>3. Row(h) = {Glyph(i, h[i]) : i \in {j \in 1..n : h[j] # Space}}
  BY DEF Row, n
<1>4. {j \in 1..(n + 1) : g[j] # Space} =
        {j \in 1..n : h[j] # Space} \cup (IF c = Space THEN {} ELSE {n + 1})
  <2>1. 1..(n + 1) = (1..n) \cup {n + 1}
    BY <1>1
  <2>2. QED
    BY <1>1, <2>1
<1>5. ASSUME NEW e PROVE
        e \in Row(g) <=> e \in Row(h) \cup
                           (IF c = Space THEN {} ELSE {Glyph(n + 1, c)})
  <2>1. \A i \in {j \in 1..n : h[j] # Space} : Glyph(i, g[i]) = Glyph(i, h[i])
    BY <1>1
  <2>2. QED
    BY <1>1, <1>2, <1>3, <1>4, <2>1
<1>6. Row(g) = Row(h) \cup (IF c = Space THEN {} ELSE {Glyph(n + 1, c)})
  BY <1>5
<1>7. QED
  BY <1>6 DEF n, g

\* A character is put behind the others: the line does not break.
LEMMA PutAdds ==
    ASSUME NEW t, NEW h \in Seq(Chars), Len(h) <= MaxChars + 3, Drawn(t, h),
           NEW c \in Chars
    PROVE  Drawn(Put(t, c, 1), Append(h, c))
<1>1. FontWidth \in Nat /\ Width \in Int
  BY TerminalAssumption
<1>2. Len(h) \in Nat /\ Len(Append(h, c)) = Len(h) + 1
  OBVIOUS
<1>3. PICK x, w : x = Len(h) * FontWidth /\ w = FontWidth
  OBVIOUS
<1>4. /\ x \in Nat /\ w \in Nat /\ x + w \div 2 <= Width /\ x % Mod16 = x
      /\ Len(Append(h, c)) * FontWidth = x + w
  BY <1>1, <1>2, <1>3, Position DEF InPlace
<1>5. t = [posX |-> x, y |-> t.y, shown |-> Row(h)]
  BY <1>3 DEF Drawn
<1>6. c # NEWLINE /\ c # BACKSPACE
  BY CharsArePlain
<1>7. Glyph(Len(h) + 1, c) = [x |-> x, c |-> c]
  BY <1>1, <1>2, <1>3 DEF Glyph
<1> DEFINE r == Row(h)
<1> HIDE DEF r
<1>8. PICK y : t = [posX |-> x, y |-> y, shown |-> r]
  BY <1>5 DEF r
<1>9. /\ t.posX % Mod16 = x /\ 1 * (FontWidth \div 2) = w \div 2
      /\ 1 * FontWidth = w
  BY <1>1, <1>3, <1>4, <1>8
<1>10. ~(x + w \div 2 > Width \/ c = NEWLINE)
  BY <1>1, <1>4, <1>6
<1>11. [t EXCEPT !.posX = x] = t
  BY <1>8
<1>12. Place(t, c, 1) = IF c = Space
                        THEN [t EXCEPT !.posX = @ + w]
                        ELSE [t EXCEPT !.posX = @ + w,
                                 !.shown = @ \cup {[x |-> t.posX, c |-> c]}]
  BY <1>6, <1>9, <1>10, <1>11 DEF Place
<1>13. Place(t, c, 1) =
         [posX |-> x + w, y |-> y,
          shown |-> r \cup (IF c = Space THEN {} ELSE {[x |-> x, c |-> c]})]
  BY <1>8, <1>12
<1>14. Row(Append(h, c)) =
         r \cup (IF c = Space THEN {} ELSE {[x |-> x, c |-> c]})
  BY <1>7, RowGrows DEF r
<1>15. QED
  BY <1>4, <1>13, <1>14, PutIsPlace DEF Drawn

\* A newline leaves the cursor at the left, on an empty line.
LEMMA PutNewline ==
    ASSUME NEW t PROVE Drawn(Put(t, NEWLINE, 1), <<>>)
<1>1. Put(t, NEWLINE, 1) = Newline(t, 1)
  <2>1. NEWLINE # BACKSPACE /\ NEWLINE # Space
    BY Zenon DEF NEWLINE, BACKSPACE, Space
  <2>2. Place(t, NEWLINE, 1) = Newline(t, 1)
    BY <2>1, Zenon DEF Place
  <2>3. QED
    BY <2>2, PutIsPlace
<1>2. Len(<<>>) = 0 /\ 0 * FontWidth = 0
  BY TerminalAssumption
<1>3. Row(<<>>) = {}
  BY <1>2 DEF Row
<1>4. QED
  BY <1>1, <1>2, <1>3 DEF Drawn, Newline

\* The last character and the cell it filled.
LEMMA Shorter ==
    ASSUME NEW w \in Nat, w > 1, NEW x \in Nat, x >= w,
           NEW n \in Nat, x = n * w, NEW i \in 1..n
    PROVE  /\ (i - 1) * w < x
           /\ x + w <= x + (x + 1)
<1>1. PICK k \in Nat : k = i - 1 /\ k + 1 <= n
  OBVIOUS
<1>2. (k + 1) * w <= n * w
  BY <1>1, Product
<1>3. (k + 1) * w = k * w + w /\ k * w \in Int
  OBVIOUS
<1>4. k * w < x
  BY <1>2, <1>3
<1>5. QED
  BY <1>1, <1>4

\* The cells to the left of a place are not cleared, the one there is.
LEMMA LeftStays ==
    ASSUME NEW h \in Seq(Chars), NEW x, x = Len(h) * FontWidth,
           Len(h) >= 1, NEW c
    PROVE  {g \in Row(h) \cup (IF c = Space THEN {} ELSE {[x |-> x, c |-> c]}) :
              ~(g.x >= x /\ g.x + FontWidth <= x + (x + 1))} = Row(h)
<1> DEFINE one == IF c = Space THEN {} ELSE {[x |-> x, c |-> c]}
<1>1. FontWidth \in Nat /\ FontWidth > 1
  BY TerminalAssumption
<1>2. PICK w \in Nat, n \in Nat : w = FontWidth /\ n = Len(h) /\ n >= 1 /\ w > 1
  BY <1>1
<1>3. x = n * w /\ x \in Nat
  BY <1>2
<1>4. x >= w
  <2>1. 1 * w <= n * w
    BY <1>2, Product
  <2>2. QED
    BY <2>1, <1>2, <1>3
<1>5. \A g \in Row(h) : g.x < x
  <2> SUFFICES ASSUME NEW i \in 1..n PROVE Glyph(i, h[i]).x < x
    BY <1>2 DEF Row
  <2>1. (i - 1) * w < x
    BY <1>2, <1>3, <1>4, Shorter
  <2>2. QED
    BY <2>1, <1>2 DEF Glyph
<1>6. \A g \in Row(h) : g.x \in Int
  <2> SUFFICES ASSUME NEW i \in 1..n PROVE Glyph(i, h[i]).x \in Int
    BY <1>2 DEF Row
  <2>1. (i - 1) * w \in Int
    BY <1>2
  <2>2. QED
    BY <2>1, <1>2 DEF Glyph
<1>7. \A g \in one : g.x = x
  OBVIOUS
<1> DEFINE r == Row(h)
<1> HIDE DEF r, one
<1>8. {g \in r \cup one : ~(g.x >= x /\ g.x + w <= x + (x + 1))} = r
  <2>1. \A g \in r : ~(g.x >= x)
    BY <1>3, <1>5, <1>6 DEF r
  <2>2. \A g \in one : g.x >= x /\ g.x + w <= x + (x + 1)
    BY <1>2, <1>3, <1>4, <1>7
  <2>3. QED
    BY <2>1, <2>2
<1>9. QED
  BY <1>2, <1>8 DEF r, one

\* A backspace takes the last character of the line away, in the smallest
\* font and behind another character.
LEMMA PutTakes ==
    ASSUME NEW t, NEW h \in Seq(Chars), NEW c \in Chars,
           Len(h) >= 1, Len(h) <= MaxChars + 2, Drawn(t, Append(h, c))
    PROVE  Drawn(Put(t, BACKSPACE, 1), h)
<1>1. FontWidth \in Nat /\ Width \in Int /\ MaxChars \in Nat
  BY TerminalAssumption
<1>2. Len(h) \in Nat /\ Len(Append(h, c)) = Len(h) + 1
  OBVIOUS
<1>3. PICK x, w : x = Len(h) * FontWidth /\ w = FontWidth
  OBVIOUS
<1>4. /\ x \in Nat /\ w \in Nat /\ x % Mod16 = x /\ x % Mod32 = x
      /\ (x + 1) % Mod16 = x + 1 /\ x < Width
  <2>1. InPlace(Len(h))
    BY <1>1, <1>2, Position
  <2>2. QED
    BY <2>1, <1>1, <1>3 DEF InPlace
<1>5. Len(Append(h, c)) * FontWidth = x + w
  BY <1>1, <1>2, <1>3
<1>6. /\ x + w + w \div 2 <= Width /\ (x + w) % Mod16 = x + w
  <2>1. InPlace(Len(Append(h, c)))
    BY <1>1, <1>2, Position
  <2>2. QED
    BY <2>1, <1>3, <1>5 DEF InPlace
<1> DEFINE one == IF c = Space THEN {} ELSE {[x |-> x, c |-> c]}
           r == Row(h) \cup one
<1>7. Row(Append(h, c)) = r
  <2>1. Glyph(Len(h) + 1, c) = [x |-> x, c |-> c]
    BY <1>1, <1>2, <1>3 DEF Glyph
  <2>2. QED
    BY <2>1, RowGrows
<1>8. t = [posX |-> x + w, y |-> t.y, shown |-> r]
  BY <1>5, <1>7 DEF Drawn
<1>9. {g \in r : ~(g.x >= x /\ g.x + w <= x + (x + 1))} = Row(h)
  BY <1>2, <1>3, LeftStays
<1> HIDE DEF r
<1>10. PICK y : t = [posX |-> x + w, y |-> y, shown |-> r]
  BY <1>8
<1>11. /\ t.posX % Mod16 = x + w /\ 1 * (FontWidth \div 2) = w \div 2
       /\ 1 * FontWidth = w /\ x + w - w = x
  BY <1>1, <1>3, <1>4, <1>6, <1>10
<1>12. BACKSPACE # NEWLINE
  BY DEF BACKSPACE, NEWLINE
<1>13. ~(x + w + w \div 2 > Width \/ BACKSPACE = NEWLINE)
  BY <1>1, <1>4, <1>6, <1>12
<1>14. [t EXCEPT !.posX = x + w] = t /\ t.posX = x + w /\ t.shown = r
  BY <1>10
<1>15. Place(t, BACKSPACE, 1) = Erase(t, x, 1)
  <2>1. BACKSPACE # Space
    BY Zenon DEF BACKSPACE, Space
  <2>2. Place(t, BACKSPACE, 1) = Erase(t, t.posX - 1 * FontWidth, 1)
    BY <2>1, <1>11, <1>12, <1>13, <1>14, Zenon DEF Place
  <2>3. t.posX - w = x
    BY <1>4, <1>14
  <2>4. 1 * FontWidth = w
    BY <1>11
  <2>5. QED
    BY <2>2, <2>3, <2>4, Zenon
<1>16. Erase(t, x, 1) =
         [t EXCEPT !.posX = x,
            !.shown = {g \in @ : ~(x < Width /\ g.x >= x
                                   /\ g.x + w <= x + (x + 1))}]
  BY <1>4, <1>11 DEF Erase
<1>17. {g \in r : ~(x < Width /\ g.x >= x /\ g.x + w <= x + (x + 1))}
         = Row(h)
  BY <1>4, <1>9
<1>18. Erase(t, x, 1) = [posX |-> x, y |-> y, shown |-> Row(h)]
  BY <1>10, <1>16, <1>17
<1>19. QED
  BY <1>3, <1>15, <1>18, PutIsPlace DEF Drawn

-----------------------------------------------------------------------------
(***************************************************************************)
(* The line editor: what stands on the line is the prompt, what is in the  *)
(* buffer, and the cursor.                                                 *)
(***************************************************************************)
Told(l) == <<"$", ">", Space>> \o l

\* The line of the prompt when l is in the buffer.
Shows(t, l) == Drawn(t, Append(Told(l), Cursor))

\* The first three characters belong to the characters of the screen.
LEMMA ToldType ==
    ASSUME NEW l \in Seq(Letters)
    PROVE  Told(l) \in Seq(Chars) /\ Len(Told(l)) = Len(l) + 3
<1>1. PICK p : p = <<"$", ">", Space>>
  OBVIOUS
<1>2. p \in Seq(Chars) /\ Len(p) = 3
  <2>1. "$" \in Chars /\ ">" \in Chars /\ Space \in Chars
    BY Zenon DEF Chars
  <2>2. \A a, b, c \in Chars :
           <<a, b, c>> \in Seq(Chars) /\ Len(<<a, b, c>>) = 3
    OBVIOUS
  <2>3. QED
    BY <1>1, <2>1, <2>2, Zenon
<1>3. l \in Seq(Chars)
  <2>1. Letters \subseteq Chars
    BY Zenon DEF Chars
  <2>2. QED
    BY <2>1, LenProperties, ElementOfSeq, IsASeq
<1>4. p \o l \in Seq(Chars) /\ Len(p \o l) = Len(l) + 3
  <2>1. p \o l \in Seq(Chars) /\ Len(p \o l) = Len(p) + Len(l)
    BY <1>2, <1>3, ConcatProperties, Zenon
  <2>2. Len(l) \in Nat
    BY LenProperties
  <2>3. QED
    BY <1>2, <2>1, <2>2
<1>5. QED
  BY <1>1, <1>4, Zenon DEF Told

\* What is told of a longer buffer is one character longer.
LEMMA ToldMore ==
    ASSUME NEW l \in Seq(Letters), NEW c \in Letters
    PROVE  Told(Append(l, c)) = Append(Told(l), c)
<1>1. PICK p : p = <<"$", ">", Space>>
  OBVIOUS
<1>2. p \in Seq({"$", ">", Space})
  BY <1>1
<1>3. p \o Append(l, c) = Append(p \o l, c)
  BY <1>2
<1>4. QED
  BY <1>1, <1>3, Zenon DEF Told

\* The characters of the prompt, one after the other.
LEMMA ThreeAppended ==
    ASSUME NEW a, NEW b, NEW c
    PROVE  Append(Append(Append(<<>>, a), b), c) = <<a, b, c>> \o <<>>
<1>1. Append(Append(Append(<<>>, a), b), c) = <<a, b, c>>
  <2>1. Append(<<>>, a) = <<a>>
    OBVIOUS
  <2>2. Append(<<a>>, b) = <<a, b>>
    <3>1. PICK s, r, u : s = <<a>> /\ r = <<a, b>> /\ u = Append(s, b)
      OBVIOUS
    <3>2. s \in Seq({a, b, c}) /\ Len(s) = 1 /\ s[1] = a
      BY <3>1
    <3>3. r \in Seq({a, b, c}) /\ Len(r) = 2
          /\ r[1] = a /\ r[2] = b
      BY <3>1
    <3>4. u \in Seq({a, b, c}) /\ Len(u) = 2
          /\ u[1] = a /\ u[2] = b
      BY <3>1, <3>2
    <3>5. u = r
      BY <3>3, <3>4
    <3>6. QED
      BY <3>1, <3>5, Zenon
  <2>3. Append(<<a, b>>, c) = <<a, b, c>>
    <3>1. PICK s, r, u : s = <<a, b>> /\ r = <<a, b, c>> /\ u = Append(s, c)
      OBVIOUS
    <3>2. s \in Seq({a, b, c}) /\ Len(s) = 2 /\ s[1] = a /\ s[2] = b
      BY <3>1
    <3>3. r \in Seq({a, b, c}) /\ Len(r) = 3
          /\ r[1] = a /\ r[2] = b /\ r[3] = c
      BY <3>1
    <3>4. u \in Seq({a, b, c}) /\ Len(u) = 3
          /\ u[1] = a /\ u[2] = b /\ u[3] = c
      BY <3>1, <3>2
    <3>5. u = r
      BY <3>3, <3>4
    <3>6. QED
      BY <3>1, <3>5, Zenon
  <2>4. QED
    BY <2>1, <2>2, <2>3, Zenon
<1>2. <<a, b, c>> \in Seq({a, b, c})
  OBVIOUS
<1>3. <<a, b, c>> \o <<>> = <<a, b, c>>
  BY <1>2, ConcatEmptySeq, Zenon
<1>4. QED
  BY <1>1, <1>3, Zenon

\* The prompt is printed on an empty line.
LEMMA PromptIsShown ==
    ASSUME NEW t, Drawn(t, <<>>)
    PROVE  Shows(PrintString(t, Prompt, 1), <<>>)
<1>1. PICK a, b, s, k : a = "$" /\ b = ">" /\ s = Space /\ k = Cursor
  OBVIOUS
<1>2. Prompt = <<a, b, s, k>> /\ a \in Chars /\ b \in Chars /\ s \in Chars
      /\ k \in Chars
  BY <1>1, Zenon DEF Prompt, Space, Cursor, Chars
<1>3. MaxChars \in Nat
  BY TerminalAssumption
<1>4. PICK h0, h1, h2, h3 : /\ h0 = <<>> /\ h1 = Append(h0, a)
                            /\ h2 = Append(h1, b) /\ h3 = Append(h2, s)
  OBVIOUS
<1>5. PICK t1, t2, t3 : /\ t1 = Put(t, a, 1) /\ t2 = Put(t1, b, 1)
                        /\ t3 = Put(t2, s, 1)
  OBVIOUS
<1>6. h0 \in Seq(Chars) /\ Len(h0) = 0
  BY <1>4
<1>7. h1 \in Seq(Chars) /\ Len(h1) = 1
  BY <1>2, <1>4, <1>6
<1>8. h2 \in Seq(Chars) /\ Len(h2) = 2
  BY <1>2, <1>4, <1>7
<1>9. h3 \in Seq(Chars) /\ Len(h3) = 3
  BY <1>2, <1>4, <1>8
<1>10. h3 = Told(<<>>)
  BY <1>1, <1>4, ThreeAppended, Zenon DEF Told
<1>11. PrintString(t, Prompt, 1) = Put(t3, k, 1)
  <2>1. PrintString(t, <<a, b, s, k>>, 1) =
          Put(Put(Put(Put(t, a, 1), b, 1), s, 1), k, 1)
    BY PrintFour
  <2>2. QED
    BY <1>2, <1>5, <2>1, Zenon
<1>12. Drawn(t1, h1)
  <2>1. Len(h0) <= MaxChars + 3 /\ Drawn(t, h0)
    BY <1>3, <1>4, <1>6
  <2>2. QED
    BY <1>2, <1>4, <1>5, <1>6, <2>1, PutAdds, Zenon
<1>13. Drawn(t2, h2)
  <2>1. Len(h1) <= MaxChars + 3
    BY <1>3, <1>7
  <2>2. QED
    BY <1>2, <1>4, <1>5, <1>7, <1>12, <2>1, PutAdds, Zenon
<1>14. Drawn(t3, h3)
  <2>1. Len(h2) <= MaxChars + 3
    BY <1>3, <1>8
  <2>2. QED
    BY <1>2, <1>4, <1>5, <1>8, <1>13, <2>1, PutAdds, Zenon
<1>15. Drawn(Put(t3, k, 1), Append(h3, k))
  <2>1. Len(h3) <= MaxChars + 3
    BY <1>3, <1>9
  <2>2. QED
    BY <1>2, <1>9, <1>14, <2>1, PutAdds, Zenon
<1>16. QED
  BY <1>1, <1>10, <1>11, <1>15, Zenon DEF Shows

\* A character is typed.
LEMMA TypedIsShown ==
    ASSUME NEW t, NEW l \in Seq(Letters), Len(l) < MaxChars - 1,
           NEW c \in Letters, Shows(t, l)
    PROVE  Shows(Typed(t, c, 1), Append(l, c))
<1>1. MaxChars \in Nat
  BY TerminalAssumption
<1>2. PICK h, k : h = Told(l) /\ k = Cursor
  OBVIOUS
<1>3. h \in Seq(Chars) /\ Len(h) = Len(l) + 3 /\ Len(l) \in Nat
  BY <1>2, ToldType
<1>4. c \in Chars /\ k \in Chars
  BY <1>2, Zenon DEF Chars
<1>5. PICK t1, t2, g : /\ t1 = Put(t, BACKSPACE, 1) /\ t2 = Put(t1, c, 1)
                       /\ g = Append(h, c)
  OBVIOUS
<1>6. Drawn(t1, h)
  BY <1>1, <1>2, <1>3, <1>4, <1>5, PutTakes DEF Shows
<1>7. Drawn(t2, g)
  <2>1. Len(h) <= MaxChars + 3
    BY <1>1, <1>3
  <2>2. QED
    BY <1>3, <1>4, <1>5, <1>6, <2>1, PutAdds, Zenon
<1>8. g \in Seq(Chars) /\ Len(g) = Len(l) + 4
  BY <1>3, <1>4, <1>5
<1>9. Drawn(Put(t2, k, 1), Append(g, k))
  <2>1. Len(g) <= MaxChars + 3
    BY <1>1, <1>3, <1>8
  <2>2. QED
    BY <1>4, <1>7, <1>8, <2>1, PutAdds, Zenon
<1>10. Typed(t, c, 1) = Put(t2, k, 1)
  <2>1. PrintString(t, <<BACKSPACE, c, k>>, 1) =
          Put(Put(Put(t, BACKSPACE, 1), c, 1), k, 1)
    BY PrintThree
  <2>2. QED
    BY <1>2, <1>5, <2>1, Zenon DEF Typed
<1>11. g = Told(Append(l, c))
  BY <1>2, <1>5, ToldMore
<1>12. QED
  BY <1>2, <1>9, <1>10, <1>11, Zenon DEF Shows

\* The buffer without its last character.
LEMMA LastTyped ==
    ASSUME NEW l \in Seq(Letters), l # <<>>
    PROVE  \E m \in Seq(Letters), c \in Letters :
              m = Front(l) /\ l = Append(m, c) /\ Len(m) < Len(l)
<1>1. Len(l) \in Nat /\ Len(l) > 0
  BY EmptySeq, LenProperties
<1>2. Front(l) = SubSeq(l, 1, Len(l) - 1)
  BY DEF Front
<1>3. PICK n \in Nat : n = Len(l) /\ n > 0
  BY <1>1
<1>4. PICK m, c : m = SubSeq(l, 1, n - 1) /\ c = l[n]
  OBVIOUS
<1>5. m \in Seq(Letters) /\ Len(m) = n - 1 /\ c \in Letters
  BY <1>3, <1>4
<1>6. \A i \in 1..(n - 1) : m[i] = l[i]
  BY <1>3, <1>4
<1>7. l = Append(m, c)
  BY <1>3, <1>4, <1>5, <1>6
<1>8. m = Front(l) /\ Len(m) < Len(l)
  BY <1>2, <1>3, <1>4, <1>5
<1>9. QED
  BY <1>5, <1>7, <1>8, Zenon

\* A character is taken back.
LEMMA DeletedIsShown ==
    ASSUME NEW t, NEW l \in Seq(Letters), Len(l) <= MaxChars - 1,
           l # <<>>, Shows(t, l)
    PROVE  Shows(Deleted(t, 1), Front(l))
<1>1. MaxChars \in Nat
  BY TerminalAssumption
<1>2. PICK m \in Seq(Letters), c \in Letters :
         m = Front(l) /\ l = Append(m, c) /\ Len(m) < Len(l)
  BY LastTyped
<1>3. PICK h, k : h = Told(m) /\ k = Cursor
  OBVIOUS
<1>4. h \in Seq(Chars) /\ Len(h) = Len(m) + 3 /\ Len(m) \in Nat
      /\ Len(l) \in Nat
  BY <1>3, ToldType
<1>5. c \in Chars /\ k \in Chars
  BY <1>3, Zenon DEF Chars
<1>6. Drawn(t, Append(Append(h, c), k))
  BY <1>2, <1>3, ToldMore, Zenon DEF Shows
<1>7. Append(h, c) \in Seq(Chars) /\ Len(Append(h, c)) = Len(m) + 4
  BY <1>4, <1>5
<1>8. PICK t1, t2, g : /\ t1 = Put(t, BACKSPACE, 1)
                       /\ t2 = Put(t1, BACKSPACE, 1) /\ g = Append(h, c)
  OBVIOUS
<1>9. Drawn(t1, g)
  <2>1. Len(g) >= 1 /\ Len(g) <= MaxChars + 2 /\ g \in Seq(Chars)
    BY <1>1, <1>2, <1>4, <1>7, <1>8
  <2>2. QED
    BY <1>5, <1>6, <1>8, <2>1, PutTakes, Zenon
<1>10. Drawn(t2, h)
  <2>1. Len(h) >= 1 /\ Len(h) <= MaxChars + 2
    BY <1>1, <1>2, <1>4
  <2>2. QED
    BY <1>4, <1>5, <1>8, <1>9, <2>1, PutTakes, Zenon
<1>11. Drawn(Put(t2, k, 1), Append(h, k))
  <2>1. Len(h) <= MaxChars + 3
    BY <1>1, <1>2, <1>4
  <2>2. QED
    BY <1>4, <1>5, <1>10, <2>1, PutAdds, Zenon
<1>12. Deleted(t, 1) = Put(t2, k, 1)
  <2>1. PrintString(t, <<BACKSPACE, BACKSPACE, k>>, 1) =
          Put(Put(Put(t, BACKSPACE, 1), BACKSPACE, 1), k, 1)
    BY PrintThree
  <2>2. QED
    BY <1>3, <1>8, <2>1, Zenon DEF Deleted
<1>13. Shows(Deleted(t, 1), m)
  BY <1>3, <1>11, <1>12, Zenon DEF Shows
<1>14. QED
  BY <1>2, <1>13

\* After a line that ends with a newline comes the prompt.
NextShown(t) == Shows(PrintString(t, Prompt, 1), <<>>)

\* A cleared screen.
LEMMA ShownAfterBlank == NextShown(Blank)
<1>1. Len(<<>>) = 0 /\ 0 * FontWidth = 0
  BY TerminalAssumption
<1>2. Row(<<>>) = {}
  BY <1>1 DEF Row
<1>3. Drawn(Blank, <<>>)
  BY <1>1, <1>2 DEF Drawn, Blank
<1>4. QED
  BY <1>3, PromptIsShown DEF NextShown

\* The end of the line, and a command that prints nothing or one line.
LEMMA ShownAfterOutput ==
    ASSUME NEW t, NEW a,
           NEW output, output = <<>> \/ output = <<a, NEWLINE>>
    PROVE  NextShown(PrintString(Ended(t, 1), output, 1))
<1>1. PICK u : u = Ended(t, 1)
  OBVIOUS
<1>2. Drawn(u, <<>>)
  <2>1. Ended(t, 1) = Put(Put(t, BACKSPACE, 1), NEWLINE, 1)
    BY PrintTwo DEF Ended
  <2>2. QED
    BY <1>1, <2>1, PutNewline, Zenon
<1>3. Drawn(PrintString(u, output, 1), <<>>)
  <2>1. CASE output = <<>>
    BY <1>2, <2>1, PrintNone, Zenon
  <2>2. CASE output = <<a, NEWLINE>>
    <3>1. PrintString(u, <<a, NEWLINE>>, 1) = Put(Put(u, a, 1), NEWLINE, 1)
      BY PrintTwo
    <3>2. QED
      BY <2>2, <3>1, PutNewline, Zenon
  <2>3. QED
    BY <2>1, <2>2
<1>4. QED
  BY <1>1, <1>3, PromptIsShown, Zenon DEF NextShown

\* The buffer never outgrows the line, and the line shows it.
LineInv ==
    /\ line \in Seq(Letters) /\ Len(line) <= MaxChars - 1
    /\ AtPrompt /\ fontSize = MinFont => Shows(screen, line)

\* The shell starts with a prompt on a clear screen.
LEMMA LineInvInit == Init => LineInv
<1> SUFFICES ASSUME Init PROVE LineInv
  OBVIOUS
<1>1. MaxChars \in Nat \ {0}
  BY TerminalAssumption
<1>2. Shows(screen, line)
  BY ShownAfterBlank, Zenon DEF Init, NextShown
<1>3. line \in Seq(Letters) /\ Len(line) = 0
  BY DEF Init
<1>4. QED
  BY <1>1, <1>2, <1>3 DEF LineInv

\* A prompt that follows what leaves the cursor at the left.
LEMMA PromptKeeps ==
    ASSUME NEW t, NEW font, NextPrompt(t, font), font = 1 => NextShown(t)
    PROVE  LineInv'
<1>1. MaxChars \in Nat \ {0}
  BY TerminalAssumption
<1>2. line' \in Seq(Letters) /\ Len(line') = 0 /\ line' = <<>>
  BY DEF NextPrompt
<1>3. ASSUME fontSize' = MinFont PROVE Shows(screen', line')
  <2>1. font = 1
    BY <1>3 DEF NextPrompt, MinFont
  <2>2. QED
    BY <1>2, <2>1, Zenon DEF NextPrompt, NextShown
<1>4. QED
  BY <1>1, <1>2, <1>3 DEF LineInv

\* Every step of the shell keeps the line and the buffer in agreement.
LEMMA LineInvStep == LineInv /\ [Next]_vars => LineInv'
<1> SUFFICES ASSUME LineInv, [Next]_vars PROVE LineInv'
  OBVIOUS
<1>1. CASE \E c \in Letters : Type(c)
  <2>1. PICK c \in Letters : Type(c)
    BY <1>1
  <2>2. /\ AtPrompt /\ Len(line) < MaxChars - 1 /\ line' = Append(line, c)
        /\ screen' = Typed(screen, c, fontSize) /\ fontSize' = fontSize
    BY <2>1 DEF Type
  <2>3. fontSize' = MinFont => Shows(screen', line')
    BY <2>2, TypedIsShown DEF LineInv, MinFont
  <2>4. line' \in Seq(Letters) /\ Len(line') <= MaxChars - 1
    BY <2>2, TerminalAssumption DEF LineInv
  <2>5. QED
    BY <2>3, <2>4 DEF LineInv
<1>2. CASE Backspace
  <2>1. /\ AtPrompt /\ line # <<>> /\ line' = Front(line)
        /\ screen' = Deleted(screen, fontSize) /\ fontSize' = fontSize
    BY <1>2 DEF Backspace
  <2>2. fontSize' = MinFont => Shows(screen', line')
    BY <2>1, DeletedIsShown DEF LineInv, MinFont
  <2>3. line' \in Seq(Letters) /\ Len(line') <= MaxChars - 1
    <3>1. PICK m \in Seq(Letters) : m = Front(line) /\ Len(m) < Len(line)
      BY <2>1, LastTyped DEF LineInv
    <3>2. QED
      BY <2>1, <3>1, TerminalAssumption DEF LineInv
  <2>4. QED
    BY <2>2, <2>3 DEF LineInv
<1>3. CASE \E output \in {<<>>, <<"o", NEWLINE>>} : PrintCommand(output)
  <2>1. PICK output : /\ output = <<>> \/ output = <<"o", NEWLINE>>
                      /\ PrintCommand(output)
    BY <1>3
  <2>2. NextPrompt(PrintString(Ended(screen, fontSize), output, fontSize),
                   fontSize)
    BY <2>1 DEF PrintCommand, AfterLine
  <2>3. NextShown(PrintString(Ended(screen, 1), output, 1))
    BY <2>1, ShownAfterOutput
  <2>4. QED
    BY <2>2, <2>3, PromptKeeps
<1>4. CASE ClearCommand
  BY <1>4, ShownAfterBlank, PromptKeeps DEF ClearCommand
<1>5. CASE \E dif \in {1, Mod32 - 1} : FontCommand(dif)
  <2>1. PICK dif : FontCommand(dif)
    BY <1>5
  <2>2. CASE NextPrompt(Blank, ChangedFont(fontSize, dif))
    BY <2>2, ShownAfterBlank, PromptKeeps
  <2>3. CASE NextPrompt(PrintString(Ended(screen, fontSize), <<"e", NEWLINE>>,
                                    fontSize), fontSize)
    <3>1. NextShown(PrintString(Ended(screen, 1), <<"e", NEWLINE>>, 1))
      BY ShownAfterOutput
    <3>2. QED
      BY <2>3, <3>1, PromptKeeps
  <2>4. QED
    BY <2>1, <2>2, <2>3 DEF FontCommand, AfterLine
<1>6. CASE TronCommand
  <2>1. game' = "playing" /\ line' = <<>>
    BY <1>6 DEF TronCommand, StartGame
  <2>2. MaxChars \in Nat \ {0}
    BY TerminalAssumption
  <2>3. QED
    BY <2>1, <2>2 DEF LineInv, AtPrompt
<1>7. CASE Playing /\ UNCHANGED shellVars
  <2>1. game' # "off"
    BY <1>7 DEF Playing, PlayTron, Play, RestartKey, Pause, Resume, PlayAgain,
                ResetScore, StartGame
  <2>2. QED
    BY <1>7, <2>1 DEF LineInv, AtPrompt, shellVars
<1>8. CASE TronReturns
  BY <1>8, ShownAfterBlank, PromptKeeps DEF TronReturns
<1>9. CASE UNCHANGED vars
  BY <1>9 DEF LineInv, AtPrompt, vars, shellVars, tronVars
<1>10. QED
  BY <1>1, <1>2, <1>3, <1>4, <1>5, <1>6, <1>7, <1>8, <1>9 DEF Next

(***************************************************************************)
(* The line of the prompt, in the smallest font, shows the prompt, the     *)
(* buffer of inputRead and the cursor, whatever was typed, deleted,        *)
(* printed or played before (inputRead of lib.c and printStringAt).        *)
(***************************************************************************)
THEOREM LineStaysShown == Spec => []LineIsShown
<1>1. LineInv => LineIsShown
  <2> SUFFICES ASSUME line \in Seq(Letters), Shows(screen, line)
               PROVE  LET text == Append(Told(line), Cursor)
                      IN  /\ screen.posX = Len(text) * FontWidth
                          /\ screen.shown = {Glyph(i, text[i]) :
                                 i \in {j \in DOMAIN text : text[j] # Space}}
    <3>1. PICK p, k : p = <<"$", ">", Space>> /\ k = Cursor
      OBVIOUS
    <3>2. p \in Seq({"$", ">", Space}) /\ <<k>> \in Seq({k})
      BY <3>1
    <3>3. line \in Seq(Letters) => (p \o line) \o <<k>> = Append(p \o line, k)
      BY <3>2
    <3>4. QED
      BY <3>1, <3>3, Zenon DEF LineInv, LineIsShown, Told, Cursor, Space
  <2>1. PICK text : text = Append(Told(line), Cursor)
    OBVIOUS
  <2>2. DOMAIN text = 1..Len(text)
    <3>1. Told(line) \in Seq(Chars)
      BY ToldType
    <3>2. Cursor \in Chars
      BY Zenon DEF Chars
    <3>3. QED
      BY <2>1, <3>1, <3>2
  <2>3. screen = [posX |-> Len(text) * FontWidth, y |-> screen.y,
                  shown |-> Row(text)]
    BY <2>1 DEF Shows, Drawn
  <2>4. screen.posX = Len(text) * FontWidth /\ screen.shown = Row(text)
    BY <2>3
  <2>5. QED
    BY <2>1, <2>2, <2>4, Zenon DEF Row
<1>2. QED
  BY <1>1, LineInvInit, LineInvStep, PTL DEF Spec

-----------------------------------------------------------------------------
(***************************************************************************)
(* The game.                                                               *)
(***************************************************************************)
PlayerRec == [x : Int, y : Int, dir : Int]

TronTypes ==
    /\ game \in {"off", "playing", "paused", "over"}
    /\ p1 \in PlayerRec /\ p2 \in PlayerRec
    /\ IsFiniteSet(board)
    /\ score \in [1..2 -> Nat]

\* The players start somewhere on the line in the middle.
LEMMA PlayersStart == Start1 \in PlayerRec /\ Start2 \in PlayerRec
<1>1. /\ (CanvasWidth * 4) \div 5 \in Int /\ CanvasWidth \div 5 \in Int
      /\ CanvasHeight \div 2 \in Int
  BY TronAssumption
<1>2. QED
  BY <1>1 DEF Start1, Start2, Player, PlayerRec, LEFT, RIGHT

\* A player that turns and rides on is a player.
LEMMA PlayersRide ==
    ASSUME NEW p \in PlayerRec, NEW key, NEW turns, turns \in {Turns1, Turns2}
    PROVE  Ride(Turn(p, key, turns)) \in PlayerRec
<1> DEFINE q == Turn(p, key, turns)
<1>1. q \in PlayerRec
  <2>1. \A k \in DOMAIN turns : turns[k] \in Int
    BY DEF Turns1, Turns2, UP, DOWN, LEFT, RIGHT
  <2>2. QED
    BY <2>1 DEF Turn, PlayerRec
<1> HIDE DEF q
<1> DEFINE dx == CASE q.dir = LEFT -> -1 [] q.dir = RIGHT -> 1 [] OTHER -> 0
           dy == CASE q.dir = UP -> -1 [] q.dir = DOWN -> 1 [] OTHER -> 0
<1>2. Ride(q) \in PlayerRec
  <2>1. dx \in Int /\ dy \in Int
    OBVIOUS
  <2>2. Ride(q) = [q EXCEPT !.x = q.x + dx, !.y = q.y + dy]
    BY <1>1 DEF Ride, PlayerRec
  <2> HIDE DEF dx, dy
  <2>3. [q EXCEPT !.x = q.x + dx] \in PlayerRec
    BY <1>1, <2>1 DEF PlayerRec
  <2>4. \A r \in PlayerRec, i \in Int : [r EXCEPT !.y = i] \in PlayerRec
    BY DEF PlayerRec
  <2>5. q.y + dy \in Int
    BY <1>1, <2>1 DEF PlayerRec
  <2>6. Ride(q) = [[q EXCEPT !.x = q.x + dx] EXCEPT !.y = q.y + dy]
    BY <1>1, <2>2 DEF PlayerRec
  <2>7. QED
    BY <2>3, <2>4, <2>5, <2>6
<1>3. QED
  BY <1>2 DEF q

\* When validPositions lets the game go on, the heads are on two free cells.
LEMMA GoesOn ==
    ASSUME NEW a, NEW b, ValidPositions(a, b) = "goes_on"
    PROVE  Cell(a) \notin board /\ Cell(b) \notin board /\ Cell(a) # Cell(b)
  BY DEF ValidPositions, Lost

\* Two new cells on the board.
LEMMA TwoMore ==
    ASSUME NEW S, IsFiniteSet(S), NEW x, NEW y,
           x \notin S, y \notin S, x # y
    PROVE  /\ IsFiniteSet(S \cup {x, y})
           /\ Cardinality(S \cup {x, y}) = Cardinality(S) + 2
<1>1. /\ IsFiniteSet(S \cup {x}) /\ Cardinality(S \cup {x}) = Cardinality(S) + 1
      /\ Cardinality(S) \in Nat
  BY FS_AddElement, FS_CardinalityType
<1>2. /\ IsFiniteSet((S \cup {x}) \cup {y})
      /\ Cardinality((S \cup {x}) \cup {y}) = Cardinality(S \cup {x}) + 1
  BY <1>1, FS_AddElement
<1>3. (S \cup {x}) \cup {y} = S \cup {x, y}
  OBVIOUS
<1>4. QED
  BY <1>1, <1>2, <1>3

\* What a turn of the loop of playTron comes to.
LEMMA OneTurn ==
    ASSUME TronTypes, NEW key, Play(key)
    PROVE  /\ TronTypes'
           /\ game' \in {"playing", "over"}
           /\ game' = "playing" => Cardinality(board') = Cardinality(board) + 2
           /\ score' = score
              \/ /\ score' = [score EXCEPT ![1] = @ + 1]
                 /\ ValidPositions(p1', p2') = "player1"
              \/ /\ score' = [score EXCEPT ![2] = @ + 1]
                 /\ ValidPositions(p1', p2') = "player2"
<1> DEFINE fresh == IF key = oldKey THEN NoKey ELSE key
           a == Ride(Turn(p1, fresh, Turns1))
           b == Ride(Turn(p2, fresh, Turns2))
           result == ValidPositions(a, b)
<1>1. a \in PlayerRec /\ b \in PlayerRec
  BY PlayersRide DEF TronTypes
<1>2. /\ p1' = a /\ p2' = b
      /\ game' = IF result = "goes_on" THEN "playing" ELSE "over"
      /\ board' = IF result = "goes_on" THEN Marked(a, b) ELSE {}
      /\ score' = CASE result = "player1" -> [score EXCEPT ![1] = @ + 1]
                    [] result = "player2" -> [score EXCEPT ![2] = @ + 1]
                    [] OTHER -> score
  BY DEF Play
<1> HIDE DEF a, b
<1>3. result = "goes_on" =>
         IsFiniteSet(board') /\ Cardinality(board') = Cardinality(board) + 2
  <2> SUFFICES ASSUME result = "goes_on"
               PROVE  /\ IsFiniteSet(board')
                      /\ Cardinality(board') = Cardinality(board) + 2
    OBVIOUS
  <2>1. Cell(a) \notin board /\ Cell(b) \notin board /\ Cell(a) # Cell(b)
    BY GoesOn
  <2>2. board' = board \cup {Cell(a), Cell(b)}
    BY <1>2 DEF Marked
  <2>3. QED
    BY <2>1, <2>2, TwoMore DEF TronTypes
<1>4. result # "goes_on" => IsFiniteSet(board')
  BY <1>2, FS_EmptySet
<1>5. /\ score' = score
         \/ /\ score' = [score EXCEPT ![1] = @ + 1] /\ result = "player1"
         \/ /\ score' = [score EXCEPT ![2] = @ + 1] /\ result = "player2"
      /\ score' \in [1..2 -> Nat]
  <2> HIDE DEF result
  <2>1. QED
    BY <1>2 DEF TronTypes
<1>6. game' = "playing" <=> result = "goes_on"
  <2> HIDE DEF result
  <2>1. QED
    BY <1>2
<1>7. TronTypes'
  <2> HIDE DEF result
  <2>1. QED
    BY <1>1, <1>2, <1>3, <1>4, <1>5 DEF TronTypes
<1>8. QED
  BY <1>2, <1>3, <1>5, <1>6, <1>7

\* The game is off.
LEMMA TronTypesInit == Init => TronTypes
  BY PlayersStart, FS_EmptySet DEF Init, TronInit, TronTypes

\* A new game begins with two cells on the board.
LEMMA GameStarts ==
    ASSUME StartGame
    PROVE  /\ game' = "playing" /\ p1' \in PlayerRec /\ p2' \in PlayerRec
           /\ IsFiniteSet(board')
<1>1. IsFiniteSet({Cell(Start1), Cell(Start2)})
  <2>1. IsFiniteSet({} \cup {Cell(Start1)})
    BY FS_EmptySet, FS_AddElement
  <2>2. IsFiniteSet(({} \cup {Cell(Start1)}) \cup {Cell(Start2)})
    BY <2>1, FS_AddElement
  <2>3. ({} \cup {Cell(Start1)}) \cup {Cell(Start2)} =
           {Cell(Start1), Cell(Start2)}
    OBVIOUS
  <2>4. QED
    BY <2>2, <2>3
<1>2. QED
  BY <1>1, PlayersStart DEF StartGame

(***************************************************************************)
(* A step of the shell is a turn of the game, leaves the score alone and   *)
(* does not go on with a game, or puts the score back to zero.             *)
(***************************************************************************)
OtherStep ==
    /\ score' = score \/ score' = <<0, 0>>
    /\ ~(game \in {"playing", "paused"} /\ game' = "playing")

\* What the steps of the shell are to the game.
LEMMA ShellSteps ==
    ASSUME TronTypes, [Next]_vars
    PROVE  /\ TronTypes'
           /\ \/ UNCHANGED tronVars
              \/ OtherStep
              \/ \E key : Play(key)
<1>1. CASE UNCHANGED tronVars
  BY <1>1 DEF tronVars, TronTypes
<1>2. ASSUME NEW key, Play(key) PROVE TronTypes'
  BY <1>2, OneTurn
<1>3. CASE TronCommand
  BY <1>3, GameStarts DEF TronCommand, AtPrompt, OtherStep, TronTypes
<1>4. CASE TronReturns
  BY <1>4, PlayersStart DEF TronReturns, Quit, OtherStep, TronTypes
<1>5. CASE PlayTron \/ Resume
  BY <1>2, <1>5 DEF PlayTron, Resume
<1>6. CASE RestartKey \/ Pause
  BY <1>6, FS_EmptySet DEF RestartKey, Pause, OtherStep, TronTypes
<1>7. CASE PlayAgain \/ ResetScore
  <2>1. game = "over" /\ StartGame /\ (score' = score \/ score' = <<0, 0>>)
    BY <1>7 DEF PlayAgain, ResetScore
  <2>2. score' \in [1..2 -> Nat]
    BY <2>1 DEF TronTypes
  <2>3. QED
    BY <2>1, <2>2, GameStarts DEF OtherStep, TronTypes
<1>8. \/ UNCHANGED tronVars \/ TronCommand \/ TronReturns \/ PlayTron \/ Resume
      \/ RestartKey \/ Pause \/ PlayAgain \/ ResetScore
  BY DEF Next, Type, Backspace, PrintCommand, ClearCommand, FontCommand,
         Playing, vars
<1>9. QED
  BY <1>1, <1>3, <1>4, <1>5, <1>6, <1>7, <1>8

-----------------------------------------------------------------------------
(***************************************************************************)
(* validPositions never misses a crash: every turn after which the game    *)
(* goes on puts two cells on the board that were free.                     *)
(***************************************************************************)
THEOREM TrailsNeverMeet == Spec => TrailsAreApart
<1>1. TronTypes /\ [Next]_vars => TronTypes'
  BY ShellSteps
<1>2. TronTypes /\ [Next]_vars =>
         [(game \in {"playing", "paused"}) /\ game' = "playing" =>
             Cardinality(board') = Cardinality(board) + 2]_tronVars
  BY ShellSteps, OneTurn DEF OtherStep
<1>3. QED
  BY <1>1, <1>2, TronTypesInit, PTL DEF Spec, TrailsAreApart

(***************************************************************************)
(* A point goes to one player, which is on a free cell of the canvas, when *)
(* the other is not; in a tie nobody gets one.                             *)
(***************************************************************************)
THEOREM SurvivorScores == Spec => OnlyTheSurvivorScores
<1> DEFINE Fair(w) ==
             LET winner == IF w = 1 THEN p1' ELSE p2'
                 loser == IF w = 1 THEN p2' ELSE p1'
             IN  /\ score'[w] = score[w] + 1 /\ score'[3 - w] = score[3 - w]
                 /\ ~Lost(winner) /\ Lost(loser)
                 /\ Cell(winner) # Cell(loser)
<1>1. TronTypes /\ [Next]_vars => TronTypes'
  BY ShellSteps
<1>2. ASSUME TronTypes, NEW key, Play(key), score' # score
      PROVE  \E w \in 1..2 : Fair(w)
  <2>1. CASE /\ score' = [score EXCEPT ![1] = @ + 1]
             /\ ValidPositions(p1', p2') = "player1"
    <3>1. ~Lost(p1') /\ Lost(p2') /\ Cell(p1') # Cell(p2')
      BY <2>1 DEF ValidPositions
    <3>2. score'[1] = score[1] + 1 /\ score'[3 - 1] = score[3 - 1]
      BY <1>2, <2>1 DEF TronTypes
    <3>3. Fair(1)
      BY <3>1, <3>2
    <3>4. QED
      BY <3>3
  <2>2. CASE /\ score' = [score EXCEPT ![2] = @ + 1]
             /\ ValidPositions(p1', p2') = "player2"
    <3>1. ~Lost(p2') /\ Lost(p1') /\ Cell(p2') # Cell(p1')
      BY <2>2 DEF ValidPositions
    <3>2. score'[2] = score[2] + 1 /\ score'[3 - 2] = score[3 - 2]
      BY <1>2, <2>2 DEF TronTypes
    <3>3. Fair(2)
      BY <3>1, <3>2
    <3>4. QED
      BY <3>3
  <2>3. QED
    BY <1>2, <2>1, <2>2, OneTurn
<1> HIDE DEF Fair
<1>3. TronTypes /\ [Next]_vars =>
         [score' # score /\ score' # <<0, 0>> =>
             \E w \in 1..2 : Fair(w)]_tronVars
  BY <1>2, ShellSteps DEF OtherStep
<1>4. QED
  BY <1>1, <1>3, TronTypesInit, PTL DEF Spec, OnlyTheSurvivorScores, Fair
=============================================================================
