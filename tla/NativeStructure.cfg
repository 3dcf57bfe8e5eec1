SPECIFICATION Spec
CONSTANTS
    Radix = 4
    Magic <- MCMagic
    Bodies <- MCBodies
    Sent <- MCSent
    Memories <- MCMemories
    MaxWrites = 2
    Shorts <- MCShorts
    Lowest <- MCLowest
    Size = 3
    Threshold = 5
    MaxPixels = 5
    Characters <- MCCharacters
    Roots <- MCRoots
    Written <- MCWritten
    Texts <- MCTexts
    MaxDepth = 3
    Rereads <- MCRereads
    MaxParses = 2
INVARIANT
    BadStructureIsRejected
CHECK_DEADLOCK FALSE
