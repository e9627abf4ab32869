-------------------------- MODULE MCImmutableCache --------------------------
(* Model-checking instance of ImmutableCache.                              *)
EXTENDS ImmutableCache, TLC

CONSTANTS k1, k2, k3, d1, d2, c1, c2, c3

\* Values of different sizes, so that evicting one is not evicting the other.
MCDeepSize == (d1 :> 1) @@ (d2 :> 2)

Symmetry == Permutations(Keys) \cup Permutations(Clients)
=============================================================================
