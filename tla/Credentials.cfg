SPECIFICATION ClientSpec
CONSTANTS
    MaxLines = 3
INVARIANTS CredentialsDetected
CHECK_DEADLOCK FALSE
