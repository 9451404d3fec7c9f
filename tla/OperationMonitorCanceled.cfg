SPECIFICATION FairSpec
CONSTANTS
    MaxConnFailures = 5
PROPERTIES
    WaitEnds
