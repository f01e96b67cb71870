SPECIFICATION FairSpec
CONSTANTS
    Posts = {p1, p2}
    HasKey = TRUE
    Lengths = {0, 1, 2, 3}
    Block = 4
    Cipher = 2
    AppId <- MCAppId
    MaxBlocks = 2
    MaxPieces = 2
    MaxFaults = 1
INVARIANT TypeOK
 
INVARIANT RepliesReadable
INVARIANT NoSilentLoss
INVARIANT WaitsForHandler
PROPERTY StreamSpec
PROPERTY EveryTaskEnds
\* WeChat has sent all its posts, and all that came of them has ended.
CHECK_DEADLOCK FALSE
