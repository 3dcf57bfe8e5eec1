SPECIFICATION Spec
CONSTANTS
    Radix = 4
    Magic <- MCMagic
    Bodies <- MCBodies
    Sent <- MCSent
    Memories <- MCMemories
    MaxWrites = 2
    Shorts <- MCShorts
    Lowest <- MCLowest
    Size = 3
    Threshold = 5
    MaxPixels = 5
    Characters <- MCCharacters
    Roots <- MCRoots
    Written <- MCWritten
    Texts <- MCTexts
    MaxDepth = 3
    Rereads <- MCRereads
    MaxParses = 2
INVARIANTS
    TypeOK
    WrittenIsRead
    AcceptedIsWhatWasSent
    MaximaDescend
    LargestIsFirst
    EachFromItsOwnPixel
    InFocusIsSharp
    QueuesKeepPace
    RoundTrip
    FormatDoesNotMatter
PROPERTIES
    RootOnlyGrows
\* A message that is read, an image that is decided on, and a text that is
\* parsed are done with.
CHECK_DEADLOCK FALSE
