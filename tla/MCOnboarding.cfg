SPECIFICATION OnboardingSpec
CONSTANTS
    MaxAttempts = 2
INVARIANTS
    RowsAgree
PROPERTIES
    OutcomeIsFinal
    OperationEnds
CHECK_DEADLOCK FALSE
