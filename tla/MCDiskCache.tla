---------------------------- MODULE MCDiskCache ----------------------------
(* Model-checking instances of DiskCache.                                  *)
EXTENDS DiskCache, TLC

CONSTANTS k1, k2, k3, d1, d2, w1, w2

Symmetry == Permutations({w1, w2}) \cup Permutations({k1, k2})

\* Two keys have the same large value.
SharedValueOf == (k1 :> d1) @@ (k2 :> d1) @@ (k3 :> d2)
SharedSize == (d1 :> 128) @@ (d2 :> 1)

=============================================================================
