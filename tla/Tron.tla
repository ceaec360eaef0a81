-------------------------------- MODULE Tron --------------------------------
(***************************************************************************)
(* The game of Userland/uCodeModule/tron.c: two light cycles, one key per  *)
(* tick, a pause, restarts and scores.  Drawing, the countdown and the     *)
(* sound change nothing that the rules read and are left out.              *)
(***************************************************************************)
EXTENDS Integers, FiniteSets

CONSTANTS
    CanvasWidth, CanvasHeight,  \* canvas.width, canvas.height
    MaxScore        \* bound: players stop playing on at this score

ASSUME TronAssumption ==
    /\ CanvasWidth \in Nat /\ CanvasWidth > 1
    /\ CanvasHeight \in Nat \ {0} /\ MaxScore \in Nat \ {0}

UP == 0
DOWN == 1
LEFT == 2
RIGHT == 3

VARIABLES
    game,           \* "off", "playing", "paused" or "over" (the end screen)
    p1, p2,         \* the players: x, y, dir
    board,          \* the cells of canvas.board that are 1
    oldKey,         \* the key of the tick before
    score           \* player1Score and player2Score

tronVars == <<game, p1, p2, board, oldKey, score>>

Turns1 == [left |-> LEFT, right |-> RIGHT, up |-> UP, down |-> DOWN]
Turns2 == [a |-> LEFT, d |-> RIGHT, w |-> UP, s |-> DOWN]
GameKeys == DOMAIN Turns1 \cup DOMAIN Turns2
NoKey == "none"     \* getTimedChar ran out of time and returned 0

Player(x, dir) == [x |-> x, y |-> CanvasHeight \div 2, dir |-> dir]
Start1 == Player((CanvasWidth * 4) \div 5, LEFT)
Start2 == Player(CanvasWidth \div 5, RIGHT)
Cell(p) == <<p.x, p.y>>

TronInit ==
    /\ game = "off" /\ p1 = Start1 /\ p2 = Start2
    /\ board = {} /\ oldKey = NoKey /\ score = <<0, 0>>

\* startGame and the first lines of playTron.
StartGame ==
    /\ game' = "playing"
    /\ p1' = Start1 /\ p2' = Start2
    /\ board' = {Cell(Start1), Cell(Start2)}
    /\ oldKey' = NoKey

-----------------------------------------------------------------------------
\* A player only turns across its direction.
Turn(p, key, turns) ==
    IF /\ key \in DOMAIN turns
       /\ (p.dir \in {UP, DOWN}) = (turns[key] \in {LEFT, RIGHT})
    THEN [p EXCEPT !.dir = turns[key]] ELSE p

\* tick: the player one cell on.
Ride(p) ==
    [p EXCEPT !.x = @ + (CASE p.dir = LEFT -> -1 [] p.dir = RIGHT -> 1
                           [] OTHER -> 0),
              !.y = @ + (CASE p.dir = UP -> -1 [] p.dir = DOWN -> 1
                           [] OTHER -> 0)]

IsValidPoint(p) ==
    p.x \in 0..(CanvasWidth - 1) /\ p.y \in 0..(CanvasHeight - 1)

\* A board cell outside the canvas holds anything, but is read only for a
\* player that has lost by isValidPoint already.
Lost(p) == ~IsValidPoint(p) \/ Cell(p) \in board

Near(a, b) == a - b \in -1..1

\* The two tests for a frontal crash, on directions as numbers: the first
\* also holds for DOWN against LEFT.
Frontal(a, b) ==
    \/ /\ a.x = b.x /\ Near(a.y, b.y)
       /\ a.dir \in {UP, DOWN} /\ a.dir - b.dir \in {-1, 1}
    \/ /\ a.y = b.y /\ Near(a.x, b.x)
       /\ (a.dir = LEFT /\ b.dir # DOWN) \/ a.dir = RIGHT
       /\ a.dir - b.dir \in {-1, 1}

\* Mutant of ValidPositions: no test for two heads in one cell.
ValidPositionsApart(a, b) ==
    CASE Lost(a) /\ Lost(b) -> "tied"
      [] Lost(a) /\ ~Lost(b) -> "player2"
      [] Lost(b) /\ ~Lost(a) -> "player1"
      [] OTHER -> "goes_on"

\* Mutant of ValidPositions: the players are swapped.
ValidPositionsSwapped(a, b) ==
    CASE Frontal(a, b) \/ Cell(a) = Cell(b) \/ (Lost(a) /\ Lost(b)) -> "tied"
      [] ~Frontal(a, b) /\ Lost(a) /\ ~Lost(b) -> "player1"
      [] ~Frontal(a, b) /\ Lost(b) /\ ~Lost(a) -> "player2"
      [] OTHER -> "goes_on"

\* Who wins when the players have moved to a and b.
ValidPositions(a, b) ==
    IF Frontal(a, b) \/ Cell(a) = Cell(b) \/ (Lost(a) /\ Lost(b)) THEN "tied"
    ELSE IF Lost(a) THEN "player2"
    ELSE IF Lost(b) THEN "player1"
    ELSE "goes_on"

\* Mutant of Marked: only the heads are on the board.
MarkedHeads(a, b) == {Cell(a), Cell(b)}

Marked(a, b) == board \cup {Cell(a), Cell(b)}

\* One turn of the loop of playTron for keys other than r and p.  A key of
\* player 1 that turns it is not looked at for player 2.  When the game is
\* over startGame returns, and its canvas is gone.
Play(key) ==
    LET fresh == IF key = oldKey THEN NoKey ELSE key
        a == Ride(Turn(p1, fresh, Turns1))
        b == Ride(Turn(p2, fresh, Turns2))
        result == ValidPositions(a, b)
    IN  /\ p1' = a /\ p2' = b
        /\ oldKey' = IF result = "goes_on" THEN key ELSE NoKey
        /\ game' = IF result = "goes_on" THEN "playing" ELSE "over"
        /\ board' = IF result = "goes_on" THEN Marked(a, b) ELSE {}
        /\ score' = CASE result = "player1" -> [score EXCEPT ![1] = @ + 1]
                      [] result = "player2" -> [score EXCEPT ![2] = @ + 1]
                      [] OTHER -> score

PlayTron == game = "playing" /\ \E key \in GameKeys \cup {NoKey} : Play(key)

\* r: playTron returns at once and the end screen is shown.
RestartKey ==
    /\ game = "playing"
    /\ game' = "over"
    /\ board' = {} /\ oldKey' = NoKey
    /\ UNCHANGED <<p1, p2, score>>

Pause ==
    /\ game = "playing"
    /\ game' = "paused"
    /\ UNCHANGED <<p1, p2, board, oldKey, score>>

\* The second p: the turn of the loop goes on, with p as its key.
Resume == game = "paused" /\ Play("p")

MayPlay == \A i \in 1..2 : score[i] < MaxScore

\* The end screen: n resets the scores, q quits, anything else plays on.
PlayAgain ==
    /\ game = "over"
    /\ MayPlay
    /\ StartGame
    /\ UNCHANGED score

ResetScore == game = "over" /\ StartGame /\ score' = <<0, 0>>

Quit ==
    /\ game = "over"
    /\ game' = "off"
    /\ p1' = Start1 /\ p2' = Start2
    /\ UNCHANGED <<board, oldKey, score>>

Playing == PlayTron \/ RestartKey \/ Pause \/ Resume \/ PlayAgain \/ ResetScore

-----------------------------------------------------------------------------
\* No cell is ever driven over twice, by either player: a tick after which
\* the game goes on adds two new cells to the board, so no head-on crash, no
\* crossing of heads and no ride over a trail is missed.
TrailsAreApart ==
    [][(game \in {"playing", "paused"}) /\ game' = "playing" =>
         Cardinality(board') = Cardinality(board) + 2]_tronVars

\* A point is given only to a player that is on a free cell of the canvas,
\* when the other is off the canvas or on a trail (tron.h: "verifies if the
\* positions of both players are still valid").
OnlyTheSurvivorScores ==
    [][score' # score /\ score' # <<0, 0>> =>
         \E w \in 1..2 :
            LET winner == IF w = 1 THEN p1' ELSE p2'
                loser == IF w = 1 THEN p2' ELSE p1'
            IN  /\ score'[w] = score[w] + 1 /\ score'[3 - w] = score[3 - w]
                /\ ~Lost(winner) /\ Lost(loser)
                /\ Cell(winner) # Cell(loser)]_tronVars

\* A game goes on until it ends or is paused, whatever is typed: the board is
\* finite and a trail cannot be crossed.  Of a game that is paused and resumed
\* for ever it says nothing.
EveryGameEnds == game = "playing" ~> game \in {"over", "paused"}
=============================================================================
