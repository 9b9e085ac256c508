SPECIFICATION Spec
CONSTANTS
    CR = CR
    LF = LF
    Payload = {"a"}
    IntMax = 30
    MaxCount = 20
    Depth = 2
    Messages <- MCMessages
    Streams <- MCStreams
INVARIANTS DecodesPromptly BufferExact ChunkingIrrelevant
CHECK_DEADLOCK FALSE
