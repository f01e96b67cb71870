SPECIFICATION FairSpec
CONSTANTS
    Senders = {s1, s2}
    None = None
    Slow = FALSE
    MaxSends = 2
    MaxTokens = 4
    MaxCrashes = 1
INVARIANT TypeOK
INVARIANT OneRefresher
INVARIANT RetryIsNewer
INVARIANT LockIsReleased
PROPERTY EverySendEnds
\* The system stops when every sender has sent its messages.
CHECK_DEADLOCK FALSE
