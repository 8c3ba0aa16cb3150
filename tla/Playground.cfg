SPECIFICATION Spec
CONSTANTS
    Codes <- MCCodes
    Welcome = "welcome"
    Verdict <- MCVerdict
    Formatted <- MCFormatted
    NoText = "none"
    Unopenable = {"empty"}
    MaxRuns = 2
    MaxEdits = 2
    MaxShares = 1
    MaxLoads = 2
INVARIANTS TypeOK MarkersFresh ButtonsGuardRuns PanesAgree RunningIsTrue
PROPERTIES EditsAreChecked RunsEnd
CHECK_DEADLOCK FALSE
