------------------------------- MODULE MCValues ------------------------------
(* Small sets of values, types and requests for the runs of Values. *)
EXTENDS Values

MCStrings ==
    <<"1", "2001", "2002", "2003", "2004", "2005", "2006", "2007", "2008", "2009", "2010",
      "2011", "2012", "2013", "2020", "a", "b", "base64-encoded-blob", "blob", "iP", "iQ", "iR", "iS", "iT",
      "iU", "key", "none", "reference", "some", "type", "value", "variable", "zz">>
DateTimes == <<-129, -128, -33, -9, -8, -1, 0, 7, 8, 31, 127, 128, 200, 9>>
MCDateOf == [s \in {MCStrings[i] : i \in 2..15} |-> DateTimes[Position(MCStrings, s) - 1]]
MCTextOf == [s \in {"1"} |-> <<"integer", 1>>]
MCBase64 == [b \in {1} |-> "zz"]
MCNamedTypes == [n \in {<<"app", "T">>} |-> <<"optional", <<"float">>>>]

I(i) == <<"integer", i>>
Flt(h) == <<"float", h>>
Arr(s) == <<"array", s>>

Scalars ==
    {Nil, <<"boolean", 1>>, I(1), I(-2), Flt(2), Flt(3), Str("a"), Str("1"), Str("2020"),
     <<"blob", 1>>, <<"datetime", 9>>}
MapKeys == {I(1), Flt(2), Str("a"), Str("key")}
Pair(k, v) == MapOf(<< <<k, v>> >>)
PairOf(k, v, l, w) == MapOf(<< <<k, v>>, <<l, w>> >>)

\* One level of structure around scalars, and some of two levels
Flat ==
    Scalars \cup {Arr(<<>>), <<"map", <<>>>>}
        \cup {Arr(<<x>>) : x \in Scalars}
        \cup {Arr(<<x, y>>) : x, y \in {I(1), Flt(2), Str("a")}}
        \cup {Pair(k, x) : k \in MapKeys, x \in {I(1), Flt(3), Str("a")}}
        \cup {PairOf(k, x, l, I(1)) : k, l \in MapKeys, x \in {Nil, Flt(2)}}
Special ==
    {Pair(Str("some"), x) : x \in {I(1), Flt(2), Str("a")}}
        \cup {Pair(Str("none"), x) : x \in {Nil, I(1)}}
        \cup {PairOf(Str("key"), x, Str("value"), y) : x, y \in {I(1), Str("2020")}}
        \cup {PairOf(Str("type"), Str("base64-encoded-blob"), Str("blob"), x) :
                x \in {Str("zz"), I(1)}}
Nested ==
    {Arr(<<x>>) : x \in Special} \cup {Arr(<<x, I(1)>>) : x \in Special}
        \cup {Pair(k, x) : k \in {I(1), Str("a")}, x \in Special}
        \cup {Pair(x, I(1)) : x \in {Arr(<<I(1)>>), <<"datetime", 9>>, <<"blob", 1>>, Nil}}
All == Flat \cup Special \cup Nested

Types ==
    {<<"dynamic">>, <<"blob">>, <<"datetime">>, <<"float">>, <<"integer">>, <<"string">>,
     <<"array", <<"integer">> >>, <<"array", <<"float">> >>,
     <<"map", <<"integer">>, <<"float">> >>, <<"map", <<"float">>, <<"dynamic">> >>,
     <<"optional", <<"float">> >>, <<"array", <<"optional", <<"integer">> >> >>,
     <<"structure", << <<"a", <<"float">>, FALSE>>, <<"key", <<"integer">>, TRUE>> >> >>,
     <<"union", << <<"a", <<"float">>, FALSE>>, <<"key", <<"string">>, FALSE>> >> >>,
     <<"enum", <<"a", "b">> >>, <<"named", <<"app", "T">> >>,
     <<"map", <<"string">>, <<"optional", <<"datetime">> >> >>}

\* Arrays up to three long and maps of them, for the diffs
Items == {I(1), I(2), Str("a")}
Arrays == {Arr(s) : s \in BoundedSeq(Items, 3)}
DiffValues ==
    Arrays \cup {I(1)} \cup {Pair(Str("a"), x) : x \in {I(1), Arr(<<I(1)>>), Arr(<<I(1), I(2)>>)}}
        \cup {PairOf(Str("a"), Arr(s), Str("b"), y) :
                s \in {<<I(1), I(2)>>, <<I(1), I(1)>>}, y \in {Nil, Pair(Str("a"), I(1))}}
        \cup {Arr(<<Arr(<<I(1), I(2)>>), x>>) : x \in {I(1), Arr(<<I(2), I(2)>>)}}

Dates == {<<"datetime", t>> : t \in Range(DateTimes)}

-----------------------------------------------------------------------------
Dyn == <<"dynamic">>
Leaf == {<<"value", I(1)>>, <<"value", Flt(2)>>, <<"value", Str("a")>>,
         <<"reference", <<"posted", "iP">> >>, <<"variable", "x">>}
Hosts == {"local", "thinknode", "none"}
Compound(part) ==
    {<<"lambda", "f", <<x>> >> : x \in part}
      \cup {<<"function", "f", h, <<x>> >> : h \in Hosts, x \in part}
      \cup {<<"array", <<x, <<"value", I(1)>> >>, t>> : x \in part, t \in {Dyn, <<"integer">>}}
      \cup {<<"item", x, <<"value", I(i)>>, <<"float">> >> : x \in part, i \in {-1, 0, 2}}
      \cup {<<"object", << <<"a", x>> >>, <<"map", <<"string">>, <<"float">> >> >> : x \in part}
      \cup {<<"property", x, <<"value", Str("a")>>, Dyn>> : x \in part}
      \cup {<<"cast", t, x>> : t \in {Dyn, <<"optional", <<"float">> >>}, x \in part}
      \cup {<<"meta", x, Dyn>> : x \in part}
      \cup {<<"meta", <<"object", << <<"value", x>> >>, Dyn>>, Dyn>> : x \in part}
      \cup {<<"let", << <<"x", <<"value", I(1)>> >> >>, x>> : x \in part}
Shallow == Compound(Leaf)
CalcRequests == Leaf \cup Shallow \cup Compound({r \in Shallow : r[1] \notin {"lambda", "cast"}})
    \cup {<<"item", <<"value", Arr(<<I(1), Flt(3)>>)>>, i, t>> :
            i \in Leaf \cup {<<"value", I(0)>>}, t \in {Dyn, <<"integer">>, <<"float">>}}

\* Nested lets, in the order that variables are submitted in
LetParts(vs) == {<<"variable", v>> : v \in vs} \cup {<<"value", I(1)>>}
Lets ==
    {<<"let", << <<"x", a>>, <<"y", b>> >>, <<"let", << <<"z", c>> >>, d>> >> :
        a \in {<<"value", I(1)>>, <<"function", "f", "none", << <<"value", I(2)>> >> >>},
        b \in {<<"array", << <<"variable", "x">> >>, Dyn>>, <<"reference", <<"posted", "iP">> >>},
        c \in {<<"function", "g", "none", <<p, q>> >> : p, q \in LetParts({"x", "y", "z"})},
        d \in {<<"object", << <<"a", p>> >>, Dyn>> : p \in LetParts({"x", "z"})}
                \cup {<<"item", <<"variable", "y">>, <<"value", I(0)>>, <<"float">> >>}
                \cup {<<"cast", <<"dynamic">>, <<"variable", "z">> >>, <<"variable", "y">>}}

Statuses ==
    {<<s, 0>> : s \in {"waiting", "generating", "queued_pending", "queued_ready", "completed",
                        "failed", "canceled"}}
        \cup {<<s, p>> : s \in {"calculating", "uploading"}, p \in {0, 1, 4, 5, 9, 10, 333, 985, 990, 994, 995, 999, 1000}}

Ref(c) == <<"reference", c>>
MCCalcGraph ==
    [c \in {"c1", "c2", "c3", "c4", "c5", "c6"} |->
        CASE c = "c1" -> <<"function", "f", "none", <<Ref("c2"), Ref("c3"), <<"value", Nil>> >> >>
          [] c = "c2" -> <<"array", <<Ref("c4"), Ref("c6")>>, Dyn>>
          [] c = "c3" -> <<"item", Ref("c4"), Ref("c5"), Dyn>>
          [] c = "c4" -> <<"function", "g", "none", <<Ref("gone"), Ref("c6")>> >>
          [] c = "c5" -> <<"cast", Dyn, Ref("c6")>>
          [] c = "c6" -> <<"function", "f", "none", <<>> >>]

UrlTypes ==
    LET basic == {<<"nil">>, <<"integer">>, <<"named", "none", "app", "T">>, <<"named", "acc", "app", "T">>,
                  <<"enum", <<"a", "b">> >>}
        once(t) == {<<k, x>> : k \in {"array", "optional", "reference"}, x \in t}
                    \cup {<<"map", x, y>> : x, y \in t}
                    \cup {<<k, << <<"a", x, FALSE>>, <<"b", y, o>> >> >> :
                            k \in {"structure", "union"}, x, y \in t, o \in BOOLEAN}
    IN basic \cup once(basic) \cup {<<"map", x, <<"nil">> >> : x \in once(basic)}

\* Trees of ISS objects and of calculations that refer to each other
MCObjects ==
    [i \in {"iP", "iQ", "iR", "iS", "iT", "iU"} |->
        CASE i = "iP" -> Pair(Str("a"), I(1))
          [] i = "iQ" -> Pair(Str("a"), I(2))
          [] i = "iR" -> PairOf(Str("a"), Str("iP"), Str("b"), I(1))
          [] i = "iS" -> PairOf(Str("a"), Str("iQ"), Str("b"), I(1))
          [] i = "iT" -> PairOf(Str("a"), Str("iU"), Str("b"), I(1))
          [] i = "iU" -> Pair(Str("a"), I(1))]
CalcRef(x) == Pair(Str("reference"), Str(x))
MCCalculations ==
    [c \in {"cA", "cB", "cC"} |->
        CASE c = "cA" -> Pair(Str("a"), Arr(<<CalcRef("iP"), CalcRef("iR")>>))
          [] c = "cB" -> Pair(Str("a"), Arr(<<CalcRef("iU"), CalcRef("iT")>>))
          [] c = "cC" -> Pair(Str("a"), Arr(<<CalcRef("iP"), CalcRef("iS")>>))]

\* Calls that are made in the runs
ValueCalls ==
    {[op |-> "coerce", arg |-> <<t, v>>] : t \in Types, v \in All}
        \cup {[op |-> "encode", arg |-> <<v>>] : v \in All \cup Dates}
        \cup {[op |-> "hash", arg |-> <<x, y>>] :
                x, y \in {<<Arr(<<>>), I(1)>>, <<Arr(<<I(1)>>)>>, <<I(1), Nil>>, <<Nil, I(1)>>,
                          <<Arr(<<Nil>>), I(1)>>, <<Arr(<<I(1), Nil>>)>>, <<Str("a")>>, <<>>}}
DiffCalls == {[op |-> "diff", arg |-> <<a, b>>] : a, b \in DiffValues}
TreeCalls ==
    {[op |-> "tree", arg |-> <<"iss", a, b>>] : a, b \in {"iP", "iQ", "iU"}}
        \cup {[op |-> "tree", arg |-> <<"iss", a, b>>] : a, b \in {"iR", "iS", "iT"}}
        \cup {[op |-> "tree", arg |-> <<"calc", a, b>>] : a, b \in DOMAIN MCCalculations}
RequestCalls ==
    {[op |-> "resolve", arg |-> <<r>>] : r \in CalcRequests}
        \cup {[op |-> "let", arg |-> <<r>>] : r \in Lets}
        \cup {[op |-> "status", arg |-> <<s>>] : s \in Statuses}
        \cup {[op |-> "search", arg |-> <<c, f>>] : c \in DOMAIN MCCalcGraph, f \in {"f", "g"}}
        \cup {[op |-> "url", arg |-> <<t>>] : t \in UrlTypes}

-----------------------------------------------------------------------------
(* Function requests and proxies: f and k take two strings, g a request and a string, h  *)
(* and p an int, t a request and an int, with a title and a retrier; ident returns its   *)
(* argument. The arguments of p and v, and of f if it is contained, are not normalized.  *)

MCUuidTokens ==
    <<"f", "g", "h", "ident", "k", "norm_int_coro", "norm_int_func", "norm_string_coro",
      "norm_string_func", "p", "t", "v", "+flattened", "+full", "+full_vb", "+mem", "+mem_vb", "+none",
      ":proxy">>
S(b) == [t |-> "string", b |-> b]
N(i) == [t |-> "int", b |-> <<i>>]
Texts == {S(<<>>), S(<<1>>), S(<<1, 2>>), S(<<2>>)}

PropsOf(px, base, level) ==
    Props(set_level(NewUuid(base), level), level,
          CASE px /\ base \in {"h", "k", "t"} -> "proxy_coro" [] px -> "proxy_plain"
            [] base \in {"h", "k", "t"} -> "coro" [] OTHER -> "plain",
          IF base = "t" THEN <<1>> ELSE <<>>, IF base = "t" THEN <<10, 3>> ELSE <<>>)
AsGiven(px, base, level, args) ==
    LET props == PropsOf(px, base, level)
    IN IF px THEN rq_proxy(props, args) ELSE rq_function(props, args)
Make(px, base, level, args) ==
    AsGiven(px, base, level, [i \in DOMAIN args |-> normalize_arg(PropsOf(px, base, level), args[i])])

\* Functions of whether a proxy is made, so that a proxy can be made with the request
Ident(px, b) == Make(px, "ident", "memory", <<ValArg(S(b))>>)
Twice(px, b) == Make(px, "ident", "memory", <<ReqArg(Ident(px, b))>>)
Shapes(level) ==
    {[px \in BOOLEAN |-> Make(px, base, level, <<ValArg(a), ValArg(b)>>)] :
        base \in {"f", "k"}, a, b \in {S(<<1>>), S(<<1, 2>>)}}
    \cup {[px \in BOOLEAN |-> Make(px, "g", level, <<ReqArg(Ident(px, b)), ValArg(S(<<1>>))>>)] :
        b \in {<<1>>, <<1, 2>>}}
    \cup {[px \in BOOLEAN |-> Make(px, "g", level, <<ReqArg(Twice(px, <<1>>)), ValArg(S(<<1>>))>>)]}
    \cup {[px \in BOOLEAN |-> Make(px, "k", level, <<value_request(S(<<1>>)), ValArg(S(<<2>>))>>)]}
    \cup {[px \in BOOLEAN |-> AsGiven(px, "v", level, <<value_request(N(i))>>)] : i \in {1, 2}}
    \cup {[px \in BOOLEAN |-> Make(px, "h", level, <<ValArg(N(i))>>)] : i \in {1, 2}}
    \cup {[px \in BOOLEAN |-> AsGiven(px, "p", level, <<ValArg(N(i))>>)] : i \in {1, 2}}
    \cup {[px \in BOOLEAN |-> Make(px, "t", level, <<ReqArg(Ident(px, b)), ValArg(N(1))>>)] : b \in {<<1>>, <<>>}}
MCLevels == {"none", "memory", "full", "memory_vb", "full_vb"}
Contained ==
    {set_containment(Make(FALSE, "f", "full", <<ValArg(a), ValArg(b)>>), << <<"f", "+none">>, "dir", "dll">>) : a, b \in Texts}
ContainedPlain == {AsGiven(FALSE, "f", "none", <<ValArg(a), ValArg(a)>>) : a \in Texts}
MCCatalog == {s[FALSE] : s \in UNION {Shapes(l) : l \in MCLevels}} \cup ContainedPlain

SerializeCalls ==
    {[op |-> "request", arg |-> <<s[px], s[FALSE]>>] : s \in UNION {Shapes(l) : l \in MCLevels}, px \in BOOLEAN}
        \cup {[op |-> "request", arg |-> <<r, r>>] : r \in Contained}
        \cup {[op |-> "contained", arg |-> <<r>>] : r \in Contained}
KeyCalls ==
    {[op |-> "keys", arg |-> <<r[FALSE], s[FALSE]>>] : r, s \in UNION {Shapes(l) : l \in MCLevels \ {"none"}}}
\* Arguments that are strings and not normalized
StringPairCalls ==
    {[op |-> "keys", arg |-> <<AsGiven(FALSE, "f", "full", a), AsGiven(FALSE, "f", "full", b)>>] :
        a, b \in {<<ValArg(x), ValArg(y)>> : x, y \in Texts}}

SimpleIds == {make_id(v) : v \in Texts \cup {N(1), N(2)}}
PairIds == {combine_ids(a, b) : a, b \in {make_id(S(<<1>>)), make_id(S(<<1, 2>>)), make_id(N(1))}}
IdCalls ==
    {[op |-> "ids", arg |-> <<a, b>>] :
        a, b \in {NoId} \cup SimpleIds \cup PairIds \cup {combine_ids(p, make_id(N(1))) : p \in PairIds}}

-----------------------------------------------------------------------------
(* Contexts, the types by which callers know them, and constraints that suit them *)

Classes ==
    {sync_context_base, root_local_async_context_base, local_async_context_base,
     proxy_async_context_base, atst_context, async_thinknode_context}
StaticTypes(class) ==
    {[final |-> TRUE, intfs |-> class]}
        \cup {Intf(i) : i \in {j \in {{}, {"local"}, {"remote"}, local_async_context_intf,
                                root_local_async_context_intf, remote_async_context_intf,
                                caching_context_intf, local_sync_context_intf} : j \subseteq class}}
ConstraintSets(T, ctx) ==
    {c \in SUBSET {"remote", "local", "sync", "async", "sub"} :
        /\ ResolutionConstraints(c) /\ MatchingContextConstraints(T, c)
        /\ ("sync" \in c => ~ctx.async) /\ ("async" \in c => ctx.async)
        /\ "sub" \in c <=> ctx.intfs = local_async_context_base}
        \cup {DefaultResolutionConstraints(T)}
Outcomes ==
    {<<"ok", "ok", "ok">>, <<"other", "ok", "ok">>, <<"remote_error", "other", "ok">>}
        \cup {<<x, x, x>> : x \in {"http_request_failure", "remote_error"}}
DispatchCalls ==
    UNION {UNION {UNION {
        {[op |-> "dispatch", arg |-> <<T, NewContext(class, proxied), is_proxy,
                                     [proxy |-> rp, max_attempts |-> n], c, o>>] :
            is_proxy \in {b \in BOOLEAN : MatchingRequestConstraints(b, c)},
            rp \in BOOLEAN, n \in {2, 9}, o \in Outcomes} :
        c \in ConstraintSets(T, NewContext(class, proxied))} :
        T \in {t \in StaticTypes(class) : ValidContext(t)}} :
        class \in Classes, proxied \in BOOLEAN}

AllCalls ==
    ValueCalls \cup DiffCalls \cup TreeCalls \cup RequestCalls
        \cup SerializeCalls \cup KeyCalls \cup IdCalls \cup DispatchCalls
=============================================================================
