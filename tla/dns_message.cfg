SPECIFICATION Spec
CONSTANTS
    Messages <- MCMessages
    Headers <- MCHeaders
    Longest = 5
    HeaderLen = 1
    QuestionFixed = 1
    RecordFixed = 2
    MaxNameLen = 5
    MaxPointers = 2
INVARIANTS
    ResumesInPlace
    CutKeepsPrefix
PROPERTIES
    Terminates
CHECK_DEADLOCK FALSE
