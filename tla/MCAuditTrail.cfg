CONSTANTS
    q1 = q1
    q2 = q2
    r1 = r1
    Requests <- MCRequests
    Replicas = {r1}
    Home <- MCHome
    MaxEvents = 2
    MaxRetries = 2
    MaxReported = 1
    MaxFaults = 1
    MaxDrifts = 1
SPECIFICATION FairTrailSpec
INVARIANTS
    QuietVerificationPasses
    DisagreementIsFound
PROPERTIES
    CommittedIsMirrored
CHECK_DEADLOCK FALSE
