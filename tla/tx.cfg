CONSTANTS
    Chars = {"0", "f", "x"}
    TimeDigits = 2
    FrameDigits = 1
    Room = 5
    Numbers = 3
    MaxChars = 6
    MaxFailed = 3
SPECIFICATION Spec
INVARIANTS SentIsAsked GapsAreFailures
