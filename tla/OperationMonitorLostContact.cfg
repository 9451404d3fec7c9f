SPECIFICATION Spec
CONSTANTS
    MaxConnFailures = 5
INVARIANTS
    LostContactEndsMonitorOnly
