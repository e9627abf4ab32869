----------------------------- MODULE MCResolve -----------------------------
(* Model-checking instances of Resolve.                                    *)
EXTENDS Resolve, TLC

CONSTANTS k1, k2, k3, k4, d1, d2, f1, f2, f3, g1, g2, g3

MCDeepSize == (d1 :> 1) @@ (d2 :> 2)
MCValueOf  == (k1 :> d1) @@ (k2 :> d2) @@ (k3 :> d2) @@ (k4 :> d1)

\* Two trees f1(g1) and f2(g2) of request k1, whose argument is k2, and a
\* tree f3(g3) of its own, whose requests may fail and are retried.
MCKeyOf    == (f1 :> k1) @@ (f2 :> k1) @@ (f3 :> k3) @@ (g1 :> k2) @@ (g2 :> k2)
              @@ (g3 :> k4)
MCParentOf == (f1 :> NoClient) @@ (f2 :> NoClient) @@ (f3 :> NoClient)
              @@ (g1 :> f1) @@ (g2 :> f2) @@ (g3 :> f3)

\* The instance is one for which the properties are also proved.
ASSUME MCAssumption == RetriedAlone
=============================================================================
