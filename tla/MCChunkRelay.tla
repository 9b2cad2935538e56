---------------------------- MODULE MCChunkRelay ----------------------------
EXTENDS ChunkRelay, TLC
CONSTANTS a, b, c, d, r1, r2
Chain == {{a, b}, {b, c}}
Row == {{a, b}, {b, c}, {c, d}}

AtLink == (r1 :> a) @@ (r2 :> b)
InMiddle == (r1 :> b) @@ (r2 :> c)

Flooded == [r \in Request |-> {}]

NobodyOrOneEnd == {{}, {a}, {d}}

Anyone == SUBSET Node
=============================================================================
