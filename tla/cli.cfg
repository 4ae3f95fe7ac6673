CONSTANTS
    Letters = {"h", "v"}
    LineMax = 8
    MaxArgs = 3
    Commands <- MCCommands
    MaxRaw = 9
SPECIFICATION CliSpec
INVARIANTS TypeOK
PROPERTIES AnswersThisLine
