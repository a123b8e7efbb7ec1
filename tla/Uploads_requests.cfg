CONSTANTS
    MaxItems = 3
    MaxFaults = 0
SPECIFICATION UploadsFairSpec
PROPERTIES
    RequestIsServed
CHECK_DEADLOCK FALSE
