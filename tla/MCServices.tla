---- MODULE MCServices ----
(* Two libraries that share a normalizer uuid, which one of them registers *)
(* twice; resolutions with and without a cache record lock.                *)
EXTENDS Services

MCUuidsOf == [d \in Dlls |-> IF d = "one" THEN <<"norm", "norm">> ELSE <<"norm">>]
Op(kind, dll, lock) ==
    [kind |-> kind, dll |-> dll, uuid |-> "norm", lock |-> lock, tasklet |-> lock]
MCOps == {Op("load", "one", FALSE), Op("unload", "two", FALSE),
          Op("resolve", "one", TRUE), Op("resolve", "one", FALSE),
          Op("infos", "one", FALSE), Op("clear", "one", FALSE), Op("store", "one", FALSE)}
====
