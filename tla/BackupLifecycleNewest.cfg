SPECIFICATION Spec
CONSTANTS
    Copies = {1, 2, 3}
    Local = Local
    Remote = Remote
    Locations = {Local, Remote}
    LocOf <- AllLocal
    KeepCount = 1
    MaxAge = 0
    Grace = 0
    Verifiers = {v}
    MaxFaults = 1
    None = None
PROPERTIES
    NewestVerifiedNeverDeleted
