--------------------------- MODULE SharedSessions ---------------------------
(***************************************************************************)
(* The engines whose workers share what they connect: the connection of    *)
(* gRPC over HTTP/2, and the pool of a database.                           *)
(***************************************************************************)
EXTENDS SharedWorkers

CONSTANTS
    MaxShared,     \* bound: iterations of all the workers
    MaxStreams,    \* of GrpcH2
    FrameLength,
    PoolMax,       \* of DbPool
    MaxRows,
    Fetch

ASSUME SharedSessionsAssumption ==
    /\ {MaxShared, MaxRows} \subseteq Nat
    /\ {MaxStreams, FrameLength, PoolMax} \subseteq Nat \ {0}
    /\ Fetch \in BOOLEAN
    /\ IsFiniteSet(Workers) /\ "nobody" \notin Workers

H2 == INSTANCE GrpcH2 WITH MaxIterations <- MaxShared
Db == INSTANCE DbPool WITH MaxIterations <- MaxShared
=============================================================================
