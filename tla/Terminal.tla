------------------------------ MODULE Terminal ------------------------------
(***************************************************************************)
(* The text screen: printStringAt, clearScreen and changeFontSize of       *)
(* Kernel/videoDriver.c and the line editor inputRead of the user library. *)
(* A screen is where the next character goes, in pixels, its line, and the *)
(* characters that can be seen on that line.                               *)
(***************************************************************************)
EXTENDS Integers, Sequences, SequencesExt

CONSTANTS
    FontWidth,      \* FONT_WIDTH, in pixels
    Width,          \* the width of the screen, in pixels
    Rows,           \* the lines of the smallest font
    MaxChars,       \* MAX_TERMINAL_CHARS
    Mod16, Mod32    \* 2^16 and 2^32: x is a uint16_t, posX a uint32_t

\* lib.h: (1024/8) - 4, the characters of a line less the prompt and cursor.
ASSUME TerminalAssumption ==
    /\ FontWidth \in Nat /\ FontWidth > 1
    /\ MaxChars \in Nat \ {0} /\ Width = FontWidth * (MaxChars + 4)
    /\ Rows \in Nat /\ Rows > 5
    /\ Mod16 \in Nat /\ Mod16 > 4 * Width
    /\ Mod32 \in Nat \ {0} /\ Mod32 % Mod16 = 0

Prompt == <<"$", ">", " ", "|">>    \* COMMAND_CHAR and CURSOR
Cursor == "|"
BACKSPACE == "backspace"
NEWLINE == "newline"
MaxFont == 3
MinFont == 1

Blank == [posX |-> 0, y |-> 0, shown |-> {}]    \* what clearScreen leaves

\* changeFontSize: a difference of -1 is 2^32 - 1 in the test.
ChangedFont(font, dif) == (font + dif) % Mod32
CanChange(font, dif) == ChangedFont(font, dif) \in MinFont..MaxFont

\* At the bottom the lines move up instead.
Newline(t, font) ==
    [posX |-> 0, y |-> IF (t.y + 2) * font >= Rows THEN t.y ELSE t.y + 1,
     shown |-> {}]

\* The second corner of the cleared rectangle is given where fillrect expects
\* its width: from x, as a uint16_t, x + 1 pixels are cleared.
Erase(t, x, font) ==
    LET left == x % Mod16
        right == left + ((left + 1) % Mod16)
    IN  [t EXCEPT !.posX = x % Mod32,
                  !.shown = {g \in @ : ~(left < Width /\ g.x >= left
                                         /\ g.x + font * FontWidth <= right)}]

\* printStringAt for one character.
Put(t, c, font) ==
    LET x == t.posX % Mod16
        breaks == x + font * (FontWidth \div 2) > Width \/ c = NEWLINE
        line == IF breaks THEN Newline(t, font) ELSE [t EXCEPT !.posX = x]
        step == font * FontWidth
    IN  CASE c = NEWLINE -> line
          [] c = BACKSPACE -> Erase(line, line.posX - step, font)
          [] c = " " -> [line EXCEPT !.posX = @ + step]
          [] OTHER -> [line EXCEPT !.posX = @ + step,
                         !.shown = @ \cup {[x |-> line.posX, c |-> c]}]

PrintString(t, str, font) ==
    FoldLeft(LAMBDA u, c : Put(u, c, font), t, str)

\* inputRead, for a key that is a character: the cursor is erased and put
\* back behind the character.
Typed(t, c, font) == PrintString(t, <<BACKSPACE, c, Cursor>>, font)

\* Mutant of Deleted: only the cursor is erased.
DeletedOnce(t, font) == PrintString(t, <<BACKSPACE, Cursor>>, font)

\* inputRead, for a backspace: the cursor and one character are erased.
Deleted(t, font) == PrintString(t, <<BACKSPACE, BACKSPACE, Cursor>>, font)

\* inputRead returns and the shell begins a new line.
Ended(t, font) == PrintString(t, <<BACKSPACE, NEWLINE>>, font)
=============================================================================
