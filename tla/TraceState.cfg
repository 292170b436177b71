SPECIFICATION MCSpec
CONSTANTS
    Width = 4
    SignBit = 8
    Highs = {0, 5}
    Words <- MCLine
    Texts <- MCTexts
    atoi <- MCAtoi
    MaxWords = 4
    MAX_FILES_NUMBER = 3
    Unset = Unset
INVARIANT TracesAreAsked
CHECK_DEADLOCK FALSE
