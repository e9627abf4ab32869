------------------------------- MODULE Values --------------------------------
(***************************************************************************)
(* The pure operations on dynamic values, types, requests and contexts, one *)
(* call at a time: a call is chosen with its arguments, and its action      *)
(* computes the result with the operators of the modules below.             *)
(***************************************************************************)
EXTENDS Encodings, Calculations, Requests, Contexts

CONSTANTS
    Calls,          \* the calls that are made: [op |-> ..., arg |-> a tuple]
    CalcGraph,      \* calculations by ID, for the search
    Catalog         \* the requests that a server has registered

VARIABLES
    call,           \* the call that is made
    result          \* what it returned, as <<op, value...>>; <<>> before

vars == <<call, result>>

Init == call \in Calls /\ result = <<>>

Does(op) == call.op = op /\ result = <<>> /\ UNCHANGED call

Coerce ==
    /\ Does("coerce")
    /\ result' = <<"coerce", coerce_value(call.arg[1], call.arg[2]),
                   value_requires_coercion(call.arg[1], call.arg[2])>>

DiffAndApply ==
    /\ Does("diff")
    /\ LET diff == compute_value_diff(<<>>, call.arg[1], call.arg[2])
       IN result' = <<"diff", diff, apply_value_diff(call.arg[1], diff)>>

Encode ==
    /\ Does("encode")
    /\ LET v == call.arg[1]
       IN result' = <<"encode", JsonTrip(v), YamlTrip(v), MsgpackTrip(v), read_native(write_native(v))>>

HashArguments ==
    /\ Does("hash")
    /\ result' = <<"hash", write_native_list(call.arg[1]), write_native_list(call.arg[2])>>

Resolve ==
    /\ Does("resolve")
    /\ result' = <<"resolve", resolve_calc_to_value(<<>>, call.arg[1]),
                   resolve_calc_to_iss_object(<<>>, call.arg[1]),
                   locally_resolve_meta_chain(call.arg[1]), resolve_meta_chain(call.arg[1])>>

SubmitLet ==
    /\ Does("let")
    /\ result' = <<"let", submit_thinknode_let_calc({"x"}, call.arg[1])>>

NextStatus ==
    /\ Does("status")
    /\ result' = <<"status", calc_status_as_query_string(get_next_calculation_status(call.arg[1]))>>

Search ==
    /\ Does("search")
    /\ result' = <<"search", search_calculation(CalcGraph, call.arg[1], call.arg[2])>>

UrlType ==
    /\ Does("url")
    /\ result' = <<"url", parse_url_type_string(get_url_type_string("own", call.arg[1]))>>

TreeDiff ==
    /\ Does("tree")
    /\ result' = <<"tree", IF call.arg[1] = "iss"
                           THEN compute_iss_tree_diff(call.arg[2], call.arg[3])
                           ELSE compute_calc_tree_diff(call.arg[2], call.arg[3])>>

\* The uuids that the catalog registers
Registry == UNION {register_uuid(r) : r \in Catalog}

Serialize ==
    /\ Does("request")
    /\ result' = <<"request", load(Registry, save(call.arg[1])),
                   msgpack_unpack(Registry, msgpack_pack(call.arg[1]))>>

Contain ==
    /\ Does("contained")
    /\ result' = <<"contained", load(Registry, serialize_contained_request(call.arg[1]))>>

CompareKeys ==
    /\ Does("keys")
    /\ LET k == get_captured_id(call.arg[1])
           l == get_captured_id(call.arg[2])
       IN result' = <<"keys", equals(k, l), less_than(k, l), less_than(l, k),
                      get_unique_string(call.arg[1]), get_unique_string(call.arg[2])>>

CompareIds ==
    /\ Does("ids")
    /\ LET a == call.arg[1]
           b == call.arg[2]
       IN result' = <<"ids", captured_equal(a, b), captured_less(a, b), captured_less(b, a)>>

\* arg: static type, context, whether a proxy request, retrier, constraints, outcomes
Dispatch ==
    /\ Does("dispatch")
    /\ result' = <<"dispatch", resolve_request_with_retry(call.arg[1], call.arg[2], call.arg[3],
                                                call.arg[4], call.arg[5], call.arg[6])>>

Next ==
    \/ Coerce \/ DiffAndApply \/ Encode \/ HashArguments \/ Resolve
    \/ SubmitLet \/ NextStatus \/ Search \/ UrlType \/ TreeDiff
    \/ Serialize \/ Contain \/ CompareKeys \/ CompareIds \/ Dispatch

Spec == Init /\ [][Next]_vars

Done(op) == result # <<>> /\ result[1] = op

-----------------------------------------------------------------------------
\* coerce_value() settles: what it returns needs no coercion to the type any more, and
\* value_requires_coercion() foretells it: a value that needs none is returned as it is,
\* and one that it throws for cannot be coerced.
CoercionSettles ==
    Done("coerce") =>
        LET type == call.arg[1]
            v == result[2]
        IN /\ v # Error => /\ value_requires_coercion(type, v) = "no"
                           /\ coerce_value(type, v) = v
           /\ result[3] = "no" => v = call.arg[2]
           /\ result[3] = "error" => v = Error

\* Arrays of one length, or of which one continues the other, and maps with names as
\* keys, all the way down.
RECURSIVE Aligned(_, _)
Aligned(a, b) ==
    CASE a[1] = "array" /\ b[1] = "array" ->
            /\ \A i \in DOMAIN a[2] \cap DOMAIN b[2] : Aligned(a[2][i], b[2][i])
            /\ Len(a[2]) # Len(b[2]) => IsPrefix(a[2], b[2]) \/ IsPrefix(b[2], a[2])
      [] a[1] = "map" /\ b[1] = "map" ->
            /\ has_only_string_keys(a[2]) /\ has_only_string_keys(b[2])
            /\ \A k \in Keys(a[2]) \cap Keys(b[2]) : Aligned(Field(a[2], k), Field(b[2], k))
      [] OTHER -> TRUE

\* compute_value_diff() and apply_value_diff() agree, for values that are aligned: a
\* diff turns the one value into the other, and is empty only when they are equal.
DiffOfAlignedApplies ==
    Done("diff") /\ Aligned(call.arg[1], call.arg[2]) =>
        /\ result[3] = call.arg[2]
        /\ (result[2] = <<>>) <=> (call.arg[1] = call.arg[2])

\* A value that was sent as MessagePack or in the native encoding comes back as it was:
\* the type of every part, the keys of maps and dates of any width included, and the
\* native encoding has nothing left over.
BinaryExact ==
    Done("encode") =>
        /\ result[4] = call.arg[1]
        /\ result[5] = [value |-> call.arg[1], rest |-> <<>>]

\* Values that the text formats have no notation of their own for: strings that read as
\* dates, arrays and maps that look like the notation of maps and blobs
RECURSIVE PlainText(_)
PlainText(v) ==
    /\ v[1] = "string" => ParsePtime(v[2]) = Error
    /\ v[1] = "array" => ~array_resembles_map(to_json(v)[2])
    /\ v[1] = "map" => Str("type") \notin Keys(v[2])
    /\ \A i \in DOMAIN Elements(v) : PlainText(Elements(v)[i])

\* JSON and YAML keep a plain value, numbers in strings and keys that are no strings
\* included, except that YAML makes floats without a fraction integers, which a coercion
\* mends; and what was read from them once is not changed by another trip.
TextSettles ==
    Done("encode") =>
        LET v == call.arg[1]
        IN /\ PlainText(v) => result[2] = v
           /\ PlainText(v) /\ v[1] = "float" => coerce_value(<<"float">>, result[3]) = v
           /\ (/\ PlainText(v) /\ v[1] \in {"array", "string"}
               /\ \A i \in DOMAIN Elements(v) : Elements(v)[i][1] \notin {"float", "map"})
                => result[3] = v
           /\ result[2] # Error => JsonTrip(result[2]) = result[2]
           /\ result[3] # Error => YamlTrip(result[3]) = result[3]

\* Lists of arguments that differ are hashed from different bytes, although the native
\* encoding has no brackets: cached results of lambda and local calculations are never
\* those of other arguments.
ArgumentsToldApart ==
    Done("hash") => (result[2] = result[3] <=> call.arg[1] = call.arg[2])

\* Where a calculation is evaluated makes no difference: the object that Thinknode
\* computes from the posted pieces has the value that is computed here, or both fail.
\* The chain of meta requests that is resolved step by step gives the same, too, where
\* no schema coerces its result.
HostMakesNoDifference ==
    Done("resolve") =>
        /\ ThinknodeValue(result[3]) = result[2]
        /\ ThinknodeValue(result[5]) = result[4]

\* The variables of nested lets may refer to each other in the order of submission, and
\* then the submitted calculation has the value of the let request.
LetSubmissionRight ==
    Done("let") =>
        LET id == result[2].main
        IN id # Error => ThinknodeValue(id) = resolve_calc_to_value(<<>>, as_generic_calc(call.arg[1]))

StatusRank ==
    <<"waiting", "generating", "queued_pending", "queued_ready", "calculating", "uploading",
      "completed">>

\* A long poll always asks for a status that is later than the last one, however the
\* progress is rounded, so it cannot be answered at once forever; it ends when there is
\* nothing to wait for.
StatusAdvances ==
    Done("status") =>
        LET s == call.arg[1]
            n == result[2]
        IN IF s[1] \in {"completed", "failed", "canceled"} THEN n[1] = "none"
           ELSE \/ Position(StatusRank, n[1]) > Position(StatusRank, s[1])
                \/ n[1] = s[1] /\ n[2] > s[2]

\* The calculations that can be reached through the parts that are searched
Reached(id) ==
    LET step(s) == s \cup UNION {{c[2] : c \in {x \in Range(Children(CalcGraph[y])) :
                                                      x[1] = "reference"}} :
                                   y \in s \cap DOMAIN CalcGraph}
    IN FoldLeft(LAMBDA s, i : step(s), {id}, [i \in 1..Cardinality(DOMAIN CalcGraph) |-> i])

\* search_calculation() visits every calculation once and finds exactly the reachable
\* ones that apply the function, whatever of them is shared or cannot be read.
SearchExact ==
    Done("search") =>
        result[2] = {x \in Reached(call.arg[1]) \cap DOMAIN CalcGraph :
                        CalcGraph[x][1] = "function" /\ CalcGraph[x][2] = call.arg[2]}

\* A type without what its URL string leaves out, for the account "own"
RECURSIVE InUrl(_)
InUrl(type) ==
    CASE type[1] \in {"array", "optional", "reference"} -> <<type[1], InUrl(type[2])>>
      [] type[1] = "map" -> <<"map", InUrl(type[2]), InUrl(type[3])>>
      [] type[1] = "named" ->
            <<"named", IF type[2] = "none" THEN "own" ELSE type[2], type[3], type[4]>>
      [] type[1] \in {"structure", "union"} ->
            <<type[1], [i \in DOMAIN type[2] |-> <<type[2][i][1], InUrl(type[2][i][2]), FALSE>>]>>
      [] OTHER -> type

\* The string of a type in a URL, which has no brackets, is parsed as that type.
UrlTypeParsed == Done("url") => result[2] = InUrl(call.arg[1])

\* A value with the objects that it refers to in place of their IDs
RECURSIVE Deep(_)
Deep(v) ==
    CASE is_iss_id(v) -> Deep(Objects[v[2]])
      [] is_calc_id(v) -> Deep(Calculations[v[2]])
      [] v[1] = "array" -> <<"array", [i \in DOMAIN v[2] |-> Deep(v[2][i])]>>
      [] v[1] = "map" ->
            <<"map", [i \in DOMAIN v[2] |-> <<v[2][i][1], Deep(v[2][i][2])>>]>>
      [] OTHER -> v

\* The tree diff of two objects is empty exactly when the trees of objects that they
\* refer to have the same content, whatever the IDs.
TreeDiffComplete ==
    Done("tree") => (result[2] = <<>> <=> Deep(Str(call.arg[2])) = Deep(Str(call.arg[3])))

\* What is sent to a server, as JSON or as MessagePack, is the request it stands for:
\* deserialized there, a request or the proxy of one equals the original, with its title,
\* its retrier and its containment, gives the same value, has a tree of contexts of the
\* same shape and, unless it is value-based, the same key in the secondary cache. A
\* contained request gives the value of the request itself.
RequestSurvives ==
    /\ Done("request") =>
        \A l \in {result[2], result[3]} :
            LET r == call.arg[2]
            IN  /\ equals(l, r) /\ resolve_value(l) = resolve_value(r)
                /\ <<l.title, l.retrier, l.contain>> = <<r.title, r.retrier, r.contain>>
                /\ accept(l) = accept(r)
                /\ ~is_value_based(r.level) => get_unique_string(l) = get_unique_string(r)
    /\ Done("contained") =>
        /\ resolve_value(result[2]) = resolve_value(call.arg[1])
        /\ result[2].retrier = <<>> /\ result[2].contain = <<>>

\* A resolution goes where its context says, unless the request or the constraints say
\* otherwise, and then it throws before a context is prepared. Default constraints never
\* make it throw. Every try of a reusable context runs on the root that calls to the
\* context are passed on to, a local retry on that of the first try, and the tree of a
\* root is built once.
DispatchFollowsContext ==
    Done("dispatch") =>
        LET tries == result[2]
            T == call.arg[1]
            ctx == call.arg[2]
            c == call.arg[5]
            wanted == IF ctx.remotely THEN "remote" ELSE "local"
        IN  /\ tries # <<>>
            /\ \A i \in DOMAIN tries :
                /\ tries[i].way \in {wanted, "throws"}
                /\ tries[i].way = "throws" =>
                    /\ tries[i].ctx = ctx
                    /\ \/ call.arg[3] /\ wanted = "local"
                       \/ c \cap {"remote", "local"} \notin {{}, {wanted}}
                /\ tries[i].way # "throws" /\ ctx.async => tries[i].root = get_async_root(tries[i].ctx)
                /\ wanted = "local" /\ ctx.async => tries[i].root = tries[1].root
            /\ c = DefaultResolutionConstraints(T) /\ ~call.arg[3] => tries[1].way = wanted
            /\ LET last == tries[Len(tries)].ctx
                   built == tries[1].way = "local" /\ "root_local_async" \in ctx.intfs
               IN \A k \in DOMAIN last.roots : last.roots[k] = (IF built THEN 1 ELSE 0)

\* Requests arrive at the place and in the form that was meant.
RequestsKept == RequestSurvives /\ DispatchFollowsContext

\* A request whose bytes for the hash tell its arguments apart: strings are hashed
\* without their lengths, so at most one of them may be hashed as it is.
SizesTold(r) ==
    LET k == get_captured_id(r)
    IN Cardinality({i \in DOMAIN k.args : k.args[i].kind = "val" /\ k.args[i].val.t = "string"}) <= 1

\* The keys of the caches are right: they are totally ordered, which the map of the
\* memory cache needs; requests with the same key there have the same value and the same
\* key in the secondary cache; requests with the same key in the secondary cache have the
\* same value, if the sizes of their arguments are told; and value-based requests whose
\* arguments have the same values share a key, however these are computed.
KeysRight ==
    /\ Done("keys") =>
        LET r == call.arg[1]
            s == call.arg[2]
            values(q) == [i \in DOMAIN q.args |-> ArgValue(q.args[i])]
        IN  /\ Cardinality({k \in 2..4 : result[k]}) = 1
            /\ result[2] => resolve_value(r) = resolve_value(s) /\ result[5] = result[6]
            /\ result[5] = result[6] /\ SizesTold(r) /\ SizesTold(s) => resolve_value(r) = resolve_value(s)
            /\ (/\ is_value_based(r.level) /\ typeid(r) = typeid(s) /\ str(r.uuid) = str(s.uuid)
                /\ values(r) = values(s)) => result[2]
    /\ Done("ids") =>
        /\ Cardinality({k \in 2..4 : result[k]}) = 1
        /\ result[2] <=> call.arg[1] = call.arg[2]

\* Requests with different values have different keys in the secondary cache (the comment
\* on unique_hasher).
KeysToldApart ==
    Done("keys") /\ resolve_value(call.arg[1]) # resolve_value(call.arg[2]) => result[5] # result[6]

-----------------------------------------------------------------------------
\* Values keep what they are through coercions and encodings, and so do types in URLs and
\* lists of arguments in the bytes that are hashed.
ValuesKept ==
    CoercionSettles /\ BinaryExact /\ TextSettles /\ ArgumentsToldApart /\ UrlTypeParsed

\* Diffs of aligned values can be applied, and diffs of trees of objects miss nothing.
DiffsExact == DiffOfAlignedApplies /\ TreeDiffComplete

\* Calculations have the same value wherever they are evaluated and however they are
\* submitted, polls for them advance, and searches in them are exact.
CalculationsAgree == HostMakesNoDifference /\ LetSubmissionRight /\ StatusAdvances /\ SearchExact
=============================================================================
