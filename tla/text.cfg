SPECIFICATION FairSpec
CONSTANTS
    Chars = {nl, sp, x}
    Newline = nl
    Blank = sp
    Spaces = {nl, sp}
    MaxLength = 4
    MaxText = 9
INVARIANT TypeOK
INVARIANT PiecesFit
INVARIANT FewMessages
INVARIANT OnlySpaceLost
INVARIANT CutsBetweenWords
INVARIANT SuccessIsComplete
PROPERTY CallReturns
\* The call returns.
CHECK_DEADLOCK FALSE
