CONSTANTS
    Full = 4
    Buffer = 6
    MaxPayload = 3
    MaxSent = 1
    MaxNoise = 8
SPECIFICATION Spec
INVARIANTS TypeOK DecodersAgree RoundTrip Resync
CHECK_DEADLOCK FALSE
