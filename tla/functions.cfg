SPECIFICATION Spec
CONSTANT
    ListenPort = 4001
INVARIANTS
    StaleAgreesWithPanel
    WakeAgreesWithSnapshot
    VarintsExact
    FramesInStep
    HandshakeExact
    ValidatedIsPresentable
    TextsKeepTheirParts
    GradientSpansText
    AnswersForItsRule
    RunningPassesUnlessWildcard
CHECK_DEADLOCK FALSE
