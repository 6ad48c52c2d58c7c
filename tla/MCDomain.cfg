\* Rounds of up to 13 entries; templates with numbers up to 10, so that 9 is the
\* least odd composite, and both limits met; messages in base 3 with largest safe
\* number 21 (seven); forms of three rows.
SPECIFICATION Spec
CONSTANTS
    Contributors = {a, b, c}
    MaxCount = 7
    MaxRequired = 13
    MaxIncluded = 6
    MaxCandidates = 9
    MaxStart = 3
    MaxTarget = 10
    MaxStep = 3
    MaxRules = 2
    Base = 3
    MaxSafeDigits <- Two
    MaxLength = 5
    AnnouncementKinds = {start, bonus}
    MaxRows = 3
CHECK_DEADLOCK FALSE
INVARIANTS
    AwardIsTierOfShare
    ChargesTelescope
    CompilesTheDesignedRound
    ParsesLikeTheNumber
    FormSavesWhatItShows
