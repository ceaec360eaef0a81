SPECIFICATION Spec
CONSTANTS
    FontWidth = 2
    Width = 20
    Rows = 6
    MaxChars = 6
    Mod16 = 128
    Mod32 = 1024
    CanvasWidth = 7
    CanvasHeight = 4
    MaxScore = 1
    Letters = {" ", "|", "1", "4"}
    MAX_WORDS = 2
    MAX_WORD_LENGTH = 3
INVARIANTS
    LineIsShown
    LineIsTakenApart
    NumberReadsBack
PROPERTIES
    TrailsAreApart
    OnlyTheSurvivorScores
    EveryGameEnds
