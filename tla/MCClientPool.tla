---------------------------- MODULE MCClientPool ----------------------------
(***************************************************************************)
(* An instance of ClientPool: fetches that hedge, and two monitors that    *)
(* bring the pool to its size while its proxies come and go.               *)
(***************************************************************************)
EXTENDS ClientPool, TLC

CONSTANTS p1, p2, k1, k2, s1, s2, f1, f2

Symmetry == Permutations(Proxy) \cup Permutations(Keeper)
            \cup Permutations(Slot) \cup Permutations(Fetch)
=============================================================================
