SPECIFICATION FSpec
CONSTANTS
    Streams <- MCStreams
    Samples <- MCSamples
INVARIANT ChunkIndependent
INVARIANT NeverStuckLegalSize
INVARIANT RoundTrip
\* the stream ends
CHECK_DEADLOCK FALSE
