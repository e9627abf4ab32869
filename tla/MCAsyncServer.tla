--------------------------- MODULE MCAsyncServer ----------------------------
(* Model-checking instances of AsyncServer: a root with a request and a    *)
(* value as arguments.                                                     *)
EXTENDS AsyncServer, TLC

CONSTANTS r, a, v

MCParentOf == (r :> r) @@ (a :> r) @@ (v :> r)
MCBelow    == (r :> {a, v}) @@ (a :> {}) @@ (v :> {})
=============================================================================
