SPECIFICATION Spec
CONSTANTS
    Word = 56
    Limit = 27
    Header = 8
    LenEnd = 4
    Align = 4
    IntSize = 2
    MaxIn = 20
    MaxComing = 2
    MaxParts = 2
INVARIANT TypeOK
INVARIANT BuffersReleased
INVARIANT ListAsReceived
INVARIANT DescriptorsAccounted
