\* Every answer of every source.
SPECIFICATION ParseSpec
CONSTANTS
    Names = {"dolarapi", "bitso", "arq", "criptoya", "criptoya_one", "card", "p2p"}
    Answers <- MCAnswers
    Moments = {3}
    Book = "asked"
    Top = 3
    Amount = 5
    MinFinishRate = 1
    MaxNumber = 60
    Base = 2
    Precision = 5
    MaxDecimals = 3
    MaxInverse = 6
INVARIANTS ParseTypeOK ReadingIsOneQuote InverseIsRoundedDown OutliersAreOutvoted
CHECK_DEADLOCK FALSE
