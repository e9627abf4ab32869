------------------------------ MODULE MCDeepCopy ------------------------------
EXTENDS DeepCopy

CONSTANTS c1, c2

\* "list" is a structure with a list and a reference, "maybe" a union of a list
\* and a reference; "value" has no references.
MCTypes == {"list", "maybe", "reference", "value"}
MCParts == ("list" :> {"list", "reference"}) @@ ("maybe" :> {"list", "reference"})
           @@ ("reference" :> {}) @@ ("value" :> {})

\* A calculation k with argument a, which refers to b, which refers to d.
MCObjects == {"a", "b", "d", "k"}
MCCalcs   == {"k"}
MCTypeOf  == ("a" :> "maybe") @@ ("b" :> "list") @@ ("d" :> "value") @@ ("k" :> "value")
MCRefs    == ("a" :> {"b"}) @@ ("b" :> {"d"}) @@ ("d" :> {}) @@ ("k" :> {})
MCArgs    == ("k" :> {"a"})
MCRoot    == (c1 :> <<"calc", "k">>) @@ (c2 :> <<"object", "b">>)
=============================================================================
