-------------------------------- MODULE Text --------------------------------
(***************************************************************************)
(* Text and numbers in the user module: how the shell takes a line apart   *)
(* (pipedBuffer, parseString, printMem), the conversions of lib.c, the     *)
(* clock, and what wc counts.  A text is a sequence of characters; the     *)
(* conversions are those of the code, loop by loop, for numbers that fit   *)
(* an int.                                                                 *)
(***************************************************************************)
EXTENDS Integers, Sequences, SequencesExt

CONSTANTS MAX_WORDS, MAX_WORD_LENGTH

ASSUME TextAssumption == MAX_WORDS \in Nat \ {0} /\ MAX_WORD_LENGTH \in Nat \ {0}

Space == " "
Bar == "|"
Decimal == <<"0", "1", "2", "3", "4", "5", "6", "7", "8", "9">>
Upper == Decimal \o <<"A", "B", "C", "D", "E", "F">>
Lower == Decimal \o <<"a", "b", "c", "d", "e", "f">>

-----------------------------------------------------------------------------
\* pipedBuffer: what stands before and after the first bar.
Delimiter(s) == CHOOSE i \in DOMAIN s : s[i] = Bar /\ \A j \in 1..(i - 1) : s[j] # Bar
HasBar(s) == Contains(s, Bar)
LeftOf(s) == SubSeq(s, 1, Delimiter(s) - 1)

\* Mutant of RightOf: the bar goes with the right command.
RightOfAndBar(s) == SubSeq(s, Delimiter(s), Len(s))

RightOf(s) == SubSeq(s, Delimiter(s) + 1, Len(s))

\* parseString, one turn of its loop: from str on blanks are skipped and the
\* next word copied, cut off at MAX_WORD_LENGTH.
NextFrom(s, i, blank) ==
    CHOOSE j \in i..(Len(s) + 1) :
        /\ j = Len(s) + 1 \/ (s[j] = Space) = blank
        /\ \A k \in i..(j - 1) : (s[k] = Space) # blank

TakeWord(s, p) ==
    LET start == NextFrom(s, p.str, FALSE)
        end == NextFrom(s, start, TRUE)
        length == IF end - start > MAX_WORD_LENGTH THEN MAX_WORD_LENGTH ELSE end - start
    IN  IF start > Len(s) THEN [p EXCEPT !.str = start]
        ELSE [str |-> end, words |-> Append(p.words, SubSeq(s, start, start + length - 1))]

ParseString(s) ==
    LET turn[n \in 0..MAX_WORDS] ==
            IF n = 0 THEN [str |-> 1, words |-> <<>>] ELSE TakeWord(s, turn[n - 1])
    IN  turn[MAX_WORDS].words

-----------------------------------------------------------------------------
\* The digits of n, the last one first, as the loops of all the conversions
\* collect them.
Collected(n, base) ==
    LET from[k \in Nat] ==
            IF k < base THEN <<k>> ELSE <<k % base>> \o from[k \div base]
    IN  from[n]

AsText(digits, alphabet) == [i \in DOMAIN digits |-> alphabet[digits[i] + 1]]

\* numToBase and uintToBase, for n >= 0.
NumToBase(n, base) == AsText(Reverse(Collected(n, base)), Upper)

\* Mutant of SIToA: the sign is put on after the text is reversed.
SIToASignLast(n) ==
    IF n < 0 THEN Append(AsText(Reverse(Collected(-n, 10)), Lower), "-")
    ELSE AsText(Reverse(Collected(n, 10)), Lower)

\* sitoa in base 10, which printf uses for %d.
SIToA(n) ==
    LET abs == IF n < 0 THEN -n ELSE n
        text == AsText(Reverse(Collected(abs, 10)), Lower)
    IN  IF n < 0 THEN <<"-">> \o text ELSE text

\* itoa puts a zero before a single digit, ultoa does not.
ULToA(n) == NumToBase(n, 10)
IToA(n) == IF n < 10 THEN <<"0">> \o ULToA(n) ELSE ULToA(n)

Value(c, alphabet) == (CHOOSE i \in DOMAIN alphabet : alphabet[i] = c) - 1

\* result = result * base + digit, up to the first character that is none.
Digits(s, base, alphabet) ==
    LET read(r, c) ==
            IF r.on /\ Contains(alphabet, c)
            THEN [r EXCEPT !.result = @ * base + Value(c, alphabet)]
            ELSE [r EXCEPT !.on = FALSE]
    IN  FoldLeft(read, [result |-> 0, on |-> TRUE], s)

AToUL(s) == Digits(s, 10, Decimal).result
AToI(s) ==
    IF s = <<>> \/ s[1] \notin {"-", "+"} THEN AToUL(s)
    ELSE IF s[1] = "-" THEN -AToUL(Tail(s)) ELSE AToUL(Tail(s))

\* printMem's reading of its argument, a word: 0x and lower-case digits to the
\* end, anything else is refused.
NoAddress == -1
PrintMem(s) ==
    LET digits == Digits(SubSeq(s, 3, Len(s)), 16, Lower)
    IN  IF Len(s) < 3 \/ SubSeq(s, 1, 2) # <<"0", "x">> \/ ~digits.on THEN NoAddress
        ELSE digits.result

\* The clock: each of three numbers in two characters.  getTimeFormat puts
\* the hour back by three.
LocalHour(h) ==
    LET back == IF h > 3 THEN h - 3 ELSE h
    IN  IF back \in 0..2 THEN back + 21 ELSE back
ClockFormat(a, b, c, mark) == IToA(a) \o <<mark>> \o IToA(b) \o <<mark>> \o IToA(c)
GetTimeFormat(h, m, s) == ClockFormat(LocalHour(h), m, s, ":")
GetDateFormat(d, m, y) == ClockFormat(d, m, y, "/")
GetDateAndTime(d, t) ==
    GetDateFormat(d[1], d[2], d[3]) \o <<Space>> \o GetTimeFormat(t[1], t[2], t[3])

-----------------------------------------------------------------------------
Blanks == {Space, "tab", "newline"}

\* wc: one character on, in the three counts and inWord.
Counted(n, c) ==
    [chars |-> n.chars + 1,
     lines |-> IF c = "newline" THEN n.lines + 1 ELSE n.lines,
     inWord |-> c \notin Blanks,
     words |-> IF c \notin Blanks /\ ~n.inWord THEN n.words + 1 ELSE n.words]

Wc(s) ==
    LET n == FoldLeft(Counted, [chars |-> 0, lines |-> 0, inWord |-> FALSE, words |-> 0], s)
    IN  IF s # <<>> /\ Last(s) # "newline" THEN [n EXCEPT !.lines = @ + 1] ELSE n

-----------------------------------------------------------------------------
\* What is between the commands and words of a line, and nothing else, is left
\* out: the first bar and the blanks.
Flat(words) == FoldLeft(LAMBDA a, w : a \o w, <<>>, words)
NotBlank(c) == c # Space
Fits(s) ==
    /\ Wc(s).words <= MAX_WORDS
    /\ \A i \in 1..(Len(s) - MAX_WORD_LENGTH) :
          \E k \in i..(i + MAX_WORD_LENGTH) : s[k] = Space

\* The shell takes a line apart without losing or adding anything: the words
\* it finds, left and right of the first bar, are the line without its blanks
\* and that bar; they are as many as wc counts; a line with too many or too
\* long words gives the first MAX_WORDS of them, cut off.
TakenApart(s) ==
    LET words == ParseString(s)
    IN  /\ Len(words) <= MAX_WORDS
        /\ \A i \in DOMAIN words : Len(words[i]) \in 1..MAX_WORD_LENGTH
        /\ Wc(s).words <= MAX_WORDS => Len(words) = Wc(s).words
        /\ Fits(s) => Flat(words) = SelectSeq(s, NotBlank)
        /\ (HasBar(s) /\ Fits(s)) =>
             SelectSeq(s, NotBlank)
               = Flat(ParseString(LeftOf(s))) \o <<Bar>> \o Flat(ParseString(RightOf(s)))

\* The address of n as printBase prints it.
PrintBase(n) == <<"0", "x">> \o NumToBase(n, 16)

\* A number that was read is printed as itself: sitoa and atoi, and ultoa or
\* itoa and atoul, undo each other, and so do the octal digits.  Of the
\* addresses printBase prints, printMem reads those with decimal digits only:
\* the others are printed with 'A' to 'F' and read with 'a' to 'f'.  Date and
\* time stand at their places, the hour three behind; but from 3 to 5 it shows
\* 3, 22 and 23.
ReadsBack(n) ==
    LET abs == IF n < 0 THEN -n ELSE n
    IN  /\ AToI(SIToA(n)) = n
        /\ AToUL(ULToA(abs)) = abs /\ AToUL(IToA(abs)) = abs
        /\ LET readable == \A i \in DOMAIN Collected(abs, 16) : Collected(abs, 16)[i] < 10
           IN  PrintMem(PrintBase(abs)) = IF readable THEN abs ELSE NoAddress
        /\ Digits(NumToBase(abs, 8), 8, SubSeq(Decimal, 1, 8)).result = abs
        /\ abs \in (0..23) \ (3..5) =>
             LET now == GetDateAndTime(<<abs, abs, abs>>, <<abs, abs, abs>>)
                 From(i) == AToUL(SubSeq(now, i, Len(now)))
             IN  /\ Len(now) = 17 /\ From(10) = (abs - 3) % 24
                 /\ \A i \in {1, 4, 7, 13, 16} : From(i) = abs
=============================================================================
