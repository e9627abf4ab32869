--------------------------- MODULE MCAsyncContext ---------------------------
(* Model-checking instances of AsyncContext: a root with two requests as   *)
(* arguments, one of which has a request and a value as arguments.         *)
EXTENDS AsyncContext, TLC

CONSTANTS r, a, b, c, v

MCParentOf == (r :> r) @@ (a :> r) @@ (b :> r) @@ (c :> a) @@ (v :> a)
MCBelow    == (r :> {a, b, c, v}) @@ (a :> {c, v}) @@ (b :> {}) @@ (c :> {})
              @@ (v :> {})
=============================================================================
