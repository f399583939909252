\* One job, handlers on the loop and one batch worker, three preferences.
SPECIFICATION Spec
CONSTANTS
    Keyword <- Words
    Blank = ""
    TooLong = {}
    Lower <- Lowered
    MaxFamilies = 2
    MaxPerFamily = 2
    MaxEntries = 2
    MaxJob = 1
    Loop = Loop
    Worker = {w}
    Payload <- Payloads
    FirstPayload <- Near
    Text <- Texts
    MaxDecision = 3
CHECK_DEADLOCK FALSE
INVARIANTS OneCurrent ProjectionExact WiderIsNeverWorse SponsorshipIsAFilter KeptPreferencesAreValid
PROPERTIES ImplementsLedger
