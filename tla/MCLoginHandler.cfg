SPECIFICATION LoginSpec
CONSTANTS
    MaxQueries = 4
    Requests <- MCRequests
    Lists <- MCLists
    AccountOf <- MCAccountOf
    PasswordOf <- MCPasswordOf
    MotdLength = 255
INVARIANTS
    ListIsEarned
    FrameSound
    ListWithinArray
    ClosedOnlyForLongLists
CHECK_DEADLOCK FALSE
