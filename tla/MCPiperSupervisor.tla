-------------------------- MODULE MCPiperSupervisor --------------------------
(* Instances of PiperSupervisor: two workers with two items each, or with *)
(* three together.                                                        *)
EXTENDS PiperSupervisor, TLC

CONSTANTS gpu0, gpu1, a0, b0, a1, b1

MCWorker == {gpu0, gpu1}
MCItem == {a0, b0, a1, b1}
MCOwner == (a0 :> gpu0) @@ (b0 :> gpu0) @@ (a1 :> gpu1) @@ (b1 :> gpu1)

\* Fewer items, so that all faults together can be followed forever.
Item3 == {a0, a1, b1}
Owner3 == (a0 :> gpu0) @@ (a1 :> gpu1) @@ (b1 :> gpu1)

\* No final-16000 directory exists: the run is fresh.
NoDirs == {}

\* The supervisor counts the workers in some order, and the shards are alike:
\* the workers with their items, and the items of a worker, may be exchanged.
Swap(x, y, u, v) ==
    (gpu0 :> gpu0) @@ (gpu1 :> gpu1) @@ (a0 :> x) @@ (b0 :> y) @@ (a1 :> u) @@ (b1 :> v)
Cross(x, y, u, v) ==
    (gpu0 :> gpu1) @@ (gpu1 :> gpu0) @@ (a0 :> x) @@ (b0 :> y) @@ (a1 :> u) @@ (b1 :> v)
Symmetric ==
    {Swap(b0, a0, a1, b1), Swap(a0, b0, b1, a1), Swap(b0, a0, b1, a1),
     Cross(a1, b1, a0, b0), Cross(b1, a1, a0, b0), Cross(a1, b1, b0, a0), Cross(b1, a1, b0, a0)}
=============================================================================
