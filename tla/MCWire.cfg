\* Each component ends when it is done, hence no deadlock check.
SPECIFICATION WireSpec
CONSTANTS
    Modulus = 16
    Rounds = 3
    Delta = 9
    LastSum = 11
    Sums <- MCSums
    Keys <- MCKeys
    MixV0 <- MCMixV0
    MixV1 <- MCMixV1
    Messages <- MCMessages
    Base = 4
    Question = 1
    Size = 27
    Capacity = 7
    MaxFields = 3
    Fields <- MCFields
    Latin1Strings <- MCLatin1Strings
    ByteStrings <- MCByteStrings
    Texts <- MCTexts
    Capacities = {0, 2, 3, 4, 7}
INVARIANTS
    DecryptInverts
    QueriesArrive
    TextSurvives
PROPERTY
    ConversionEnds
CHECK_DEADLOCK FALSE
