SPECIFICATION MCSpec
CONSTANTS
    Modulus = 4096
    Day = 7
    U64Val = {0, 1, 40, 41, 292, 293, 585, 586, 2047, 2048, 4095}
    U8Val = {0, 1, 90, 100, 101, 255}
    UsageVal = {0, 1, 37, 41, 42, 2047}
    Clock = {5, 2000}
    IdleEntry <- MCEntries
    Missing = Missing
    Malformed = Malformed
    NULL = NULL
CHECK_DEADLOCK FALSE
INVARIANTS SettingsTypeOK TtlExact OverQuotaIsSwept SweptOnlyIfOver TickerLives
