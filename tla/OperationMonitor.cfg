SPECIFICATION FairSpec
CONSTANTS
    MaxConnFailures = 5
INVARIANTS
    TypeOK
    FailureBudget
    NoFalseVerdict
PROPERTIES
    ImplementsWatch
    EndsUnlessCanceled
