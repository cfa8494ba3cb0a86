SPECIFICATION FairSpec
CONSTANTS
    HigherDials = {"h1", "h2"}
    LowerDials = {"l1"}
INVARIANTS EntriesOK OneSurvives
PROPERTY AgreementReturns
CHECK_DEADLOCK FALSE
