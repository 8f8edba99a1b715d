------------------------------ MODULE MCStartup ------------------------------
\* An instance of Startup for TLC: three replicas, one of an older image.
EXTENDS Startup, TLC

CONSTANTS r1, r2, r3  \* replicas, as model values

MCFiles   == <<"001", "002", "003">>
MCShipped == r1 :> 2 @@ r2 :> 3 @@ r3 :> 3
=============================================================================
