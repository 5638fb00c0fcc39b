CONSTANTS
    t1 = t1
    t2 = t2
    weak = weak
    Tokens <- MCTokens
    Short <- MCShort
    NoToken = NoToken
    UserFiles <- MCUserFiles
    Off = Off
    MaxTail = 4
    MaxLine = 2
    Sizes <- MCSizes
    Limits <- MCLimits
    Default = 2
    MaxEvents = 4
    NoFile = NoFile
    Failed = Failed
SPECIFICATION Spec
INVARIANTS TypeOK NewestListed
PROPERTY ChangesAuthorized
CONSTRAINT OneHalf
