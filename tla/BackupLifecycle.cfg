SPECIFICATION Spec
CONSTANTS
    Copies = {1, 2, 3}
    Local = Local
    Remote = Remote
    Locations = {Local, Remote}
    LocOf <- LastRemote
    KeepCount = 1
    MaxAge = 0
    Grace = 0
    Verifiers = {v}
    MaxFaults = 2
    None = None
INVARIANTS
    TypeOK
    ClaimExcludesPin
    TombstoneMeansGone
    NewestVerifiedKept
    StrandedClaimIsGone
PROPERTIES
    PinnedNeverDeleted
