SPECIFICATION Spec
CONSTANTS
    StartTimes <- StartTimesValue
    ClockModes <- ClockModesValue
    MaxUpdates = 2
    ReadRetries = 10
    MaxPath = 4
    MaxWord = 63
    MAX_USER_TRANSFER = 8
    Configs <- ConfigsValue
    UserProgram <- UserProgramValue
    Damage <- DamageValue
    Buses <- BusesValue
    MaxInputs = 1
    Pointers <- PointersValue
    Lengths <- LengthsValue
INVARIANT PackageUnaltered
