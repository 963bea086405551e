\* Every text of up to three segments, and every part of it.
CONSTANTS
    Segment = {"word", "code", "call", "pair", "bare", "barePair", "quoting", "unclosed", "mention"}
    MaxSegments = 3
    ChunkSize = 2
    Absent = Absent
SPECIFICATION Spec
CHECK_DEADLOCK FALSE
INVARIANTS ToolCallsRead NothingLost EchoMatches EarlyCallsStand
