SPECIFICATION FairSpec
CONSTANTS
    Writers = {w1}
    Ticker = tick
    Viewers = {view}
    Workers = {work}
    Contents = {a, b}
    NoHash = NoHash
    QuietPeriod = 0
    MaxDelay = 1
    MaxLines = 2
    RetainCommitted = 1
    CommitIdsPerRecord = 1
    MaxMutations = 1
    MaxFaults = 1
    MaxRequests = 2
    None = None
PROPERTIES
    SettledOrForgotten
