------------------------------ MODULE Requests -------------------------------
(***************************************************************************)
(* Requests and their identity: uuids and their extensions, function and    *)
(* proxy requests, normalized arguments, equality and order, the keys of    *)
(* the memory cache and of the secondary cache, serialization in JSON and   *)
(* in MessagePack, flattened clones and contained requests.                 *)
(*                                                                          *)
(* The text of a uuid is a sequence of a base and its extensions. A value   *)
(* is [t, b]: its type and the sequence of bytes that stand for it.         *)
(***************************************************************************)
EXTENDS Integers, Sequences, FiniteSets, SequencesExt

CONSTANTS
    UuidTokens      \* bases and extensions, in the order of their characters

Failed == [failed |-> TRUE]
Levels == <<"none", "memory", "full", "memory_vb", "full_vb">>
LevelExts == <<"+none", "+mem", "+full", "+mem_vb", "+full_vb">>
Extensions == {"+none", "+mem", "+full", "+mem_vb", "+full_vb", "+flattened"}

IndexIn(seq, x) == CHOOSE i \in DOMAIN seq : seq[i] = x

-----------------------------------------------------------------------------
(* Caching levels *)

is_fully_cached(level) == level \in {"full", "full_vb"}
is_value_based(level) == level \in {"memory_vb", "full_vb"}
to_composition_based(level) ==
    CASE level = "memory_vb" -> "memory" [] level = "full_vb" -> "full" [] OTHER -> level

-----------------------------------------------------------------------------
(* uuids *)

NewUuid(base) ==
    [text |-> <<base>>, final |-> FALSE, level |-> "unset", flattened |-> FALSE, proxy |-> FALSE]
CompleteUuid(text) ==
    [text |-> text, final |-> TRUE, level |-> "unset", flattened |-> FALSE, proxy |-> FALSE]

\* Modifiers throw for a uuid that is finalized, or that is flattened or a proxy already
set_level(u, level) == IF u.final THEN Failed ELSE [u EXCEPT !.level = level]
set_flattened(u) ==
    IF u.final \/ u.flattened THEN Failed ELSE [u EXCEPT !.flattened = TRUE]
make_proxy(u) == IF u.final \/ u.proxy THEN Failed ELSE [u EXCEPT !.proxy = TRUE]

do_finalize(u) ==
    [u EXCEPT !.final = TRUE,
              !.text = @ \o (IF u.level = "unset" THEN <<>> ELSE <<LevelExts[IndexIn(Levels, u.level)]>>)
                         \o (IF u.flattened THEN <<"+flattened">> ELSE <<>>)
                         \o (IF u.proxy THEN <<":proxy">> ELSE <<>>)]
str(u) == IF u.final THEN u.text ELSE do_finalize(u).text
deproxy_uuid_str(text) == SelectSeq(text, LAMBDA e : e # ":proxy")

\* The base goes up to the first extension
make_base_string(text) ==
    IF \E i \in DOMAIN text : text[i] \in Extensions
    THEN SubSeq(text, 1, SelectInSeq(text, LAMBDA e : e \in Extensions) - 1)
    ELSE text

\* A uuid that was read as a whole has no modifiers: its clone has lost the level
clone(u) ==
    LET base == [CompleteUuid(make_base_string(u.text)) EXCEPT !.final = FALSE]
    IN  [base EXCEPT !.level = u.level, !.flattened = u.flattened, !.proxy = u.proxy]

-----------------------------------------------------------------------------
(* Requests *)

\* Arguments: a value, a value_request or another request
ValArg(v) == [kind |-> "val", val |-> v]
value_request(v) == [kind |-> "value_request", val |-> v]
ReqArg(r) == [kind |-> "req", req |-> r]
IsReq(arg) == arg.kind = "req"

\* request_props: level, function type, title (<<>> if not introspective) and retrier
\* (<<>> if none, otherwise base_millis and max_attempts)
Props(uuid, level, ftype, title, retrier) ==
    [uuid |-> uuid, level |-> level, ftype |-> ftype, title |-> title, retrier |-> retrier]
for_proxy(props) == props.ftype \in {"proxy_plain", "proxy_coro"}
for_coroutine(props) == props.ftype \in {"coro", "proxy_coro"}

function_request_impl(props, args) ==
    [proxy |-> FALSE, level |-> props.level, ftype |-> props.ftype, title |-> props.title,
     retrier |-> props.retrier, uuid |-> props.uuid, args |-> args, contain |-> <<>>]
proxy_request_impl(props, args) ==
    [proxy |-> TRUE, level |-> "none", ftype |-> props.ftype, title |-> props.title,
     retrier |-> props.retrier, uuid |-> make_proxy(props.uuid), args |-> args, contain |-> <<>>]
\* containment_data: uuid of the plain function, and the directory and name of the DLL
set_containment(r, data) == [r EXCEPT !.contain = data]

\* One uuid for each value type, for functions and for coroutines
NormBase(t, coro) ==
    CASE t = "string" /\ coro -> "norm_string_coro" [] t = "string" /\ ~coro -> "norm_string_func"
      [] t = "int" /\ coro -> "norm_int_coro" [] OTHER -> "norm_int_func"
NormBases == {"norm_string_coro", "norm_string_func", "norm_int_coro", "norm_int_func"}
make_normalization_props(props, t) ==
    Props(NewUuid(NormBase(t, for_coroutine(props))), "none", props.ftype, <<>>, <<>>)
make_normalization_request(props, v) ==
    IF for_proxy(props) THEN proxy_request_impl(make_normalization_props(props, v.t), <<ValArg(v)>>)
    ELSE function_request_impl(make_normalization_props(props, v.t), <<ValArg(v)>>)

\* A value, or the value of a value_request, becomes a request; a request stays
normalize_arg(props, arg) ==
    IF IsReq(arg) THEN arg ELSE ReqArg(make_normalization_request(props, arg.val))

rq_function(props, args) == function_request_impl(props, args)
rq_proxy(props, args) == proxy_request_impl(props, args)
is_normalizer(r) == str(r.uuid)[1] \in NormBases

-----------------------------------------------------------------------------
(* Identity *)

\* The classes that templates make of the props and of the types of the arguments
ArgType(arg) ==
    IF ~IsReq(arg) THEN <<arg.kind, arg.val.t, "">>
    ELSE <<"req", arg.req.ftype, IF arg.req.retrier = <<>> THEN "once" ELSE "retry">>
typeid(r) ==
    <<IF r.proxy THEN "proxy" ELSE "function", r.level, r.ftype,
      IF r.title = <<>> THEN "plain" ELSE "introspective", [i \in DOMAIN r.args |-> ArgType(r.args[i])]>>

RECURSIVE equals(_, _)
equals(r, s) ==
    /\ typeid(r) = typeid(s)
    /\ str(r.uuid) = str(s.uuid)
    /\ \A i \in DOMAIN r.args : IF IsReq(r.args[i]) THEN equals(r.args[i].req, s.args[i].req)
                                ELSE r.args[i].val = s.args[i].val

\* The order of std::type_info is any total order of the types
Names == <<"proxy", "function", "none", "memory", "full", "memory_vb", "full_vb", "plain", "coro",
           "proxy_plain", "proxy_coro", "introspective", "val", "value_request", "req", "string", "int", "once",
           "retry", "">>
LexLess(a, b) ==
    \/ IsStrictPrefix(a, b)
    \/ \E i \in DOMAIN a \cap DOMAIN b : a[i] < b[i] /\ \A j \in 1..(i - 1) : a[j] = b[j]
TypeCode(r) ==
    LET t == typeid(r)
        names == SubSeq(t, 1, 4) \o FlattenSeq(t[5])
    IN  [i \in DOMAIN names |-> IndexIn(Names, names[i])]
TextCode(text) == [i \in DOMAIN text |-> IndexIn(UuidTokens, text[i])]

RECURSIVE less_than(_, _)
less_than(r, s) ==
    IF typeid(r) # typeid(s) THEN LexLess(TypeCode(r), TypeCode(s))
    ELSE IF str(r.uuid) # str(s.uuid) THEN LexLess(TextCode(str(r.uuid)), TextCode(str(s.uuid)))
    ELSE \E i \in DOMAIN r.args :
            /\ IF IsReq(r.args[i]) THEN less_than(r.args[i].req, s.args[i].req)
               ELSE LexLess(r.args[i].val.b, s.args[i].val.b)
            /\ \A j \in 1..(i - 1) : IF IsReq(r.args[j]) THEN equals(r.args[j].req, s.args[j].req)
                                     ELSE r.args[j].val = s.args[j].val

\* What SHA-256 is fed with: the characters of the uuid, those of a string without its
\* length, and the digest of a subrequest, which has one size (here: between brackets)
Digest(bytes) == <<200>> \o bytes \o <<201>>
UuidBytes(u) == [i \in DOMAIN str(u) |-> 300 + IndexIn(UuidTokens, str(u)[i])]
update_unique_hash(v) == v.b
RECURSIVE update_hash(_)
update_hash(r) ==
    UuidBytes(r.uuid) \o
    FlattenSeq([i \in DOMAIN r.args |->
        IF IsReq(r.args[i]) THEN Digest(update_hash(r.args[i].req))
        ELSE update_unique_hash(r.args[i].val)])

-----------------------------------------------------------------------------
(* Resolution, as far as it decides what a key stands for *)

\* A function of one or more values is told by the base of its uuid; its result here is
\* the name of the function and its arguments, or for "ident" its argument
Invoke(u, vals) ==
    LET base == make_base_string(str(u))[1]
    IN  IF base = "ident" THEN vals[1]
        ELSE [t |-> "string",
              b |-> <<100 + IndexIn(UuidTokens, base)>>
                    \o FlattenSeq([i \in DOMAIN vals |-> <<98>> \o vals[i].b \o <<99>>])]

\* resolve_sync_local() and resolve_async_local(): a normalizer returns its argument,
\* any other function gets the values of its arguments
RECURSIVE resolve_value(_)
ArgValue(arg) == IF IsReq(arg) THEN resolve_value(arg.req) ELSE arg.val
resolve_value(r) ==
    IF is_normalizer(r) THEN r.args[1].val
    ELSE Invoke(r.uuid, [i \in DOMAIN r.args |-> ArgValue(r.args[i])])

\* make_flattened_clone(): composition-based, with the values of the arguments
make_clone_uuid(u) == set_flattened(clone(u))
make_flattened_clone_lazy(r) ==
    [r EXCEPT !.level = to_composition_based(@), !.uuid = make_clone_uuid(@), !.contain = <<>>]
make_flattened_clone(r) ==
    [r EXCEPT !.level = to_composition_based(@), !.uuid = make_clone_uuid(@), !.retrier = <<>>,
              !.args = [i \in DOMAIN r.args |-> ValArg(ArgValue(r.args[i]))], !.contain = <<>>]

\* The request that stands for r in the caches, and its key in the secondary one
get_captured_id(r) == IF is_value_based(r.level) THEN make_flattened_clone(r) ELSE r
get_unique_string(r) == update_hash(get_captured_id(r))

-----------------------------------------------------------------------------
(* IDs that are not requests: simple ones, pairs of IDs, or none *)

NoId == [k |-> "unset"]
make_id(v) == [k |-> "simple", val |-> v]
combine_ids(a, b) == [k |-> "pair", id0 |-> a, id1 |-> b]

RECURSIVE IdType(_)
IdType(id) ==
    IF id.k = "simple" THEN <<IndexIn(Names, id.val.t)>> ELSE <<0>> \o IdType(id.id0) \o IdType(id.id1)
RECURSIVE id_equals(_, _)
id_equals(a, b) ==
    IF a.k = "simple" THEN a.val = b.val ELSE id_equals(a.id0, b.id0) /\ id_equals(a.id1, b.id1)
RECURSIVE id_less_than(_, _)
id_less_than(a, b) ==
    IF a.k = "simple" THEN LexLess(a.val.b, b.val.b)
    ELSE id_less_than(a.id0, b.id0) \/ (id_equals(a.id0, b.id0) /\ id_less_than(a.id1, b.id1))

\* Captured IDs: the type first, then what is in it; none is before all others
captured_equal(a, b) ==
    /\ (a = NoId) = (b = NoId)
    /\ a = NoId \/ (IdType(a) = IdType(b) /\ id_equals(a, b))
captured_less(a, b) ==
    /\ b # NoId
    /\ \/ a = NoId
       \/ LexLess(IdType(a), IdType(b))
       \/ IdType(a) = IdType(b) /\ id_less_than(a, b)

-----------------------------------------------------------------------------
(* The tree of contexts that a root context makes when it meets the request *)

RECURSIVE accept(_)
accept(r) ==
    [essentials |-> <<str(r.uuid), r.title>>,
     subs |-> [i \in DOMAIN r.args |->
                CASE r.args[i].kind = "val" -> [is_req |-> FALSE]
                  [] r.args[i].kind = "value_request" -> [is_req |-> TRUE, sub |-> [subs |-> <<>>]]
                  [] IsReq(r.args[i]) -> [is_req |-> TRUE, sub |-> accept(r.args[i].req)]]]

-----------------------------------------------------------------------------
(* Serialization *)

\* register_uuid(): the request and the requests among its arguments
RECURSIVE register_uuid(_)
register_uuid(r) ==
    {[text |-> str(r.uuid), level |-> r.level, ftype |-> r.ftype, titled |-> r.title # <<>>]}
        \cup UNION {register_uuid(r.args[i].req) : i \in {j \in DOMAIN r.args : IsReq(r.args[j])}}

\* Parts of a request: only a backoff_retrier has a state, only an introspective request
\* has a title, and containment data has a placeholder if there is none. Members have
\* names in JSON and places in MessagePack.
Nothing == <<"nil">>
save_retrier_state(retrier) ==
    IF retrier = <<>> THEN <<>> ELSE <<[base_millis |-> retrier[1], max_attempts |-> retrier[2]]>>
load_retrier_state(state) ==
    IF state = <<>> THEN <<>> ELSE <<state[1].base_millis, state[1].max_attempts>>
pack_retrier_state(retrier) == IF retrier = <<>> THEN Nothing ELSE <<"array", retrier[1], retrier[2]>>
unpack_retrier_state(m) == IF m[1] # "array" THEN <<>> ELSE <<m[2], m[3]>>
save_intrsp_state(title) == IF title = <<>> THEN Nothing ELSE <<"title", title>>
load_intrsp_state(titled, state) == IF titled THEN state[2] ELSE <<>>
save_containment(data) ==
    IF data = <<>> THEN [plain_uuid |-> <<>>]
    ELSE [plain_uuid |-> data[1], dll_dir |-> data[2], dll_name |-> data[3]]
load_containment(j) ==
    IF j.plain_uuid = <<>> THEN <<>> ELSE <<j.plain_uuid, j.dll_dir, j.dll_name>>
pack_containment(data) == IF data = <<>> THEN Nothing ELSE <<"array">> \o data
unpack_containment(m) == IF m = Nothing THEN <<>> ELSE Tail(m)

RECURSIVE save(_)
SavedArgs(r) ==
    [i \in DOMAIN r.args |-> IF IsReq(r.args[i]) THEN ReqArg(save(r.args[i].req)) ELSE r.args[i]]
save(r) ==
    [uuid |-> str(r.uuid), retrier |-> save_retrier_state(r.retrier), title |-> save_intrsp_state(r.title),
     args |-> SavedArgs(r), containment |-> save_containment(r.contain)]

\* Creates a mostly empty object of the class that the registry has for the uuid
Registered(registry, text) == \E e \in registry : e.text = text
create_impl(registry, text) ==
    LET e == CHOOSE x \in registry : x.text = text
    IN  [uuid |-> CompleteUuid(text), level |-> e.level, ftype |-> e.ftype, titled |-> e.titled]
Filled(impl, retrier, title, args, data) ==
    [proxy |-> FALSE, level |-> impl.level, ftype |-> impl.ftype, uuid |-> impl.uuid,
     title |-> load_intrsp_state(impl.titled, title), retrier |-> retrier, args |-> args,
     contain |-> data]

RECURSIVE load(_, _)
load(registry, j) ==
    LET text == deproxy_uuid_str(j.uuid)
        args == [i \in DOMAIN j.args |-> IF IsReq(j.args[i]) THEN ReqArg(load(registry, j.args[i].req))
                                         ELSE j.args[i]]
    IN  IF ~Registered(registry, text) THEN Failed
        ELSE Filled(create_impl(registry, text), load_retrier_state(j.retrier), j.title, args,
                    load_containment(j.containment))

\* An array of five
RECURSIVE msgpack_pack(_)
PackedArgs(r) ==
    [i \in DOMAIN r.args |-> IF IsReq(r.args[i]) THEN ReqArg(msgpack_pack(r.args[i].req)) ELSE r.args[i]]
msgpack_pack(r) ==
    <<str(r.uuid), pack_retrier_state(r.retrier), save_intrsp_state(r.title), PackedArgs(r),
      pack_containment(r.contain)>>
RECURSIVE msgpack_unpack(_, _)
msgpack_unpack(registry, m) ==
    LET text == deproxy_uuid_str(m[1])
        args == [i \in DOMAIN m[4] |-> IF IsReq(m[4][i]) THEN ReqArg(msgpack_unpack(registry, m[4][i].req))
                                       ELSE m[4][i]]
    IN  IF Len(m) # 5 \/ ~Registered(registry, text) THEN Failed
        ELSE Filled(create_impl(registry, text), unpack_retrier_state(m[2]), m[3], args,
                    unpack_containment(m[5]))

\* The plain uuid and the values of the arguments, for a subprocess that has no retrier and
\* no containment
serialize_contained_request(r) ==
    [uuid |-> r.contain[1], title |-> save_intrsp_state(r.title), retrier |-> <<>>,
     containment |-> save_containment(<<>>),
     args |-> [i \in DOMAIN r.args |-> ValArg(ArgValue(r.args[i]))]]
=============================================================================
