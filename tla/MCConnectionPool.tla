--------------------------- MODULE MCConnectionPool ---------------------------
\* An instance of ConnectionPool for TLC: as many writes as the pool has
\* connections, a read and a probe.
EXTENDS ConnectionPool, TLC

CONSTANTS w1, w2, read, ping  \* clients, as model values

MCKind == w1 :> "write" @@ w2 :> "write" @@ read :> "read" @@ ping :> "ping"
=============================================================================
