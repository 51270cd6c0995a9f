-------------------------- MODULE MCMudnnHandlePool --------------------------
(* Instances of MudnnHandlePool for TLC.                                   *)
EXTENDS MudnnHandlePool, TLC

\* Handles and streams are interchangeable; threads and devices too.
PoolSymmetry == Permutations(Thread) \cup Permutations(Device)
                \cup Permutations(Handle) \cup Permutations(Stream)
=============================================================================
