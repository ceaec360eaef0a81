------------------------------- MODULE Shell -------------------------------
(***************************************************************************)
(* The shell process, Userland/uCodeModule/shell.c: its prompt, its line   *)
(* editor, the commands that run inside it, and the game it calls.  What a *)
(* line says is left open: any line may be any command.  Commands that     *)
(* start processes are modelled in Scheduler and Pipeline.                 *)
(***************************************************************************)
EXTENDS Terminal, Tron, Text

CONSTANT Letters    \* the characters typed

\* inputRead: a newline ends the line and a backspace takes a character away.
ASSUME LettersAssumption == BACKSPACE \notin Letters /\ NEWLINE \notin Letters

VARIABLES
    fontSize,
    screen,         \* posX, y_char and the line they are on
    line,           \* the buffer of inputRead
    count           \* the sizes the tron command went down

shellVars == <<fontSize, screen, line, count>>
vars == <<shellVars, tronVars>>

AtPrompt == game = "off"

Init ==
    /\ TronInit
    /\ fontSize = 1 /\ line = <<>> /\ count = 0
    /\ screen = PrintString(Blank, Prompt, 1)

-----------------------------------------------------------------------------
Type(c) ==
    /\ AtPrompt /\ Len(line) < MaxChars - 1
    /\ line' = Append(line, c)
    /\ screen' = Typed(screen, c, fontSize)
    /\ UNCHANGED <<fontSize, count, tronVars>>

Backspace ==
    /\ AtPrompt /\ line # <<>>
    /\ line' = Front(line)
    /\ screen' = Deleted(screen, fontSize)
    /\ UNCHANGED <<fontSize, count, tronVars>>

\* The command is done, having left the screen as t: the next prompt.
NextPrompt(t, font) ==
    /\ line' = <<>>
    /\ fontSize' = font
    /\ screen' = PrintString(t, Prompt, font)

\* The line ends at Enter, or by itself when the buffer is full.
AfterLine == Ended(screen, fontSize)

\* An empty line, and the commands that print: lines that end in a newline.
PrintCommand(output) ==
    /\ AtPrompt
    /\ NextPrompt(PrintString(AfterLine, output, fontSize), fontSize)
    /\ UNCHANGED <<count, tronVars>>

ClearCommand ==
    /\ AtPrompt
    /\ NextPrompt(Blank, fontSize)
    /\ UNCHANGED <<count, tronVars>>

\* inc-font and dec-font: at the limit only an error is printed.
FontCommand(dif) ==
    /\ AtPrompt
    /\ IF CanChange(fontSize, dif)
       THEN NextPrompt(Blank, ChangedFont(fontSize, dif))
       ELSE NextPrompt(PrintString(AfterLine, <<"e", NEWLINE>>, fontSize), fontSize)
    /\ UNCHANGED <<count, tronVars>>

\* tron: the smallest font, counting the steps, and the game.
TronCommand ==
    /\ AtPrompt /\ MayPlay
    /\ count' = fontSize - MinFont
    /\ fontSize' = MinFont
    /\ screen' = Blank
    /\ line' = <<>>
    /\ StartGame
    /\ UNCHANGED score

\* "Reset font size to previous value": increaseFontSize, count times.
FontAfter(font) ==
    LET up[i \in 0..MaxFont] ==
          IF i = 0 THEN font
          ELSE IF CanChange(up[i - 1], 1) THEN up[i - 1] + 1 ELSE up[i - 1]
    IN  up[count]

\* The game moves the cursor about; what it leaves is cleared before anyone
\* prints again.
TronReturns ==
    /\ Quit
    /\ NextPrompt(Blank, FontAfter(fontSize))
    /\ count' = 0

Next ==
    \/ \E c \in Letters : Type(c)
    \/ Backspace
    \/ \E output \in {<<>>, <<"o", NEWLINE>>} : PrintCommand(output)
    \/ ClearCommand
    \/ \E dif \in {1, Mod32 - 1} : FontCommand(dif)
    \/ TronCommand
    \/ Playing /\ UNCHANGED shellVars
    \/ TronReturns

\* getTimedChar returns within its time whether a key is pressed or not, so
\* the game is never waited for.  Nothing is assumed of the user.
Spec == Init /\ [][Next]_vars /\ WF_vars(PlayTron /\ UNCHANGED shellVars)

-----------------------------------------------------------------------------
Glyph(i, c) == [x |-> (i - 1) * FontWidth, c |-> c]

\* At the smallest font the line of the prompt shows exactly the prompt, what
\* is in the buffer and the cursor, however it was edited, and the cursor has
\* not left the line (lib.h: MAX_TERMINAL_CHARS "fit in one line").  In the
\* larger fonts the line breaks and backspace does not find its way back.
LineIsShown ==
    AtPrompt /\ fontSize = MinFont =>
        LET text == <<"$", ">", " ">> \o line \o <<Cursor>>
        IN  /\ screen.posX = Len(text) * FontWidth
            /\ screen.shown = {Glyph(i, text[i]) :
                                  i \in {j \in DOMAIN text : text[j] # Space}}

\* Every line that can be typed is taken apart right: see TakenApart.
LineIsTakenApart == AtPrompt => TakenApart(line)

\* Every number that can be typed, and its negative, is read as what is then
\* printed of it ("PID %d killed successfully"): see ReadsBack.
NumberReadsBack ==
    AtPrompt => \A n \in {AToI(line), -AToI(line)} : ReadsBack(n)
=============================================================================
