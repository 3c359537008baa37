SPECIFICATION Spec
CONSTANTS
    MaxN = 5
    MaxHash = 5
    MaxCount = 9
    ChunkSize = 16
    Types = {"u8", "i16", "f32", "i64"}
INVARIANTS
    PairIsTreePair
    RootsAsExpected
    ChunksTile
    ChunksFit
