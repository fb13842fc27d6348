SPECIFICATION Spec
CONSTANTS
    Letters = {"a", "b"}
    MaxChunk = 3
    MaxOutput = 5
INVARIANTS
    LinesIgnoreChunks
