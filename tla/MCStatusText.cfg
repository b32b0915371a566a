\* Each component ends when it is done, hence no deadlock check.
SPECIFICATION StatusTextSpec
CONSTANTS
    Names <- MCNames
    LowerCase <- MCLowerCase
    WorldLists <- MCWorldLists
    TimeNow = 9
    Char <- MCChar
    Documents <- MCDocuments
    Size = 14
    MaxRenderings = 2
    Environments <- MCEnvironments
    Capacity <- MCCapacity
    Default <- MCDefault
    MotdCapacity = 9
    PreviewCapacity = 7
    CharCode <- MCCharCode
    ExclusiveOr <- MCExclusiveOr
    HashOffset = 197
    HashPrime = 147
    HashModulus = 256
INVARIANTS
    ChosenWorld
    DocumentReadable
    SettingsTaken
PROPERTY
    DocumentEnds
CHECK_DEADLOCK FALSE
