----------------------------- MODULE Calculations ----------------------------
(***************************************************************************)
(* Calculation requests: their resolution to values and to ISS objects      *)
(* (websocket/calculations.cpp), the submission of nested lets, searching   *)
(* and the polling of a status (thinknode/calc.cpp), type strings           *)
(* (thinknode/iss.cpp) and tree diffs (websocket/server.cpp).               *)
(*                                                                         *)
(* A request is a tuple: <<"reference", id>>, <<"value", value>>,           *)
(* <<"lambda", name, args>>, <<"function", name, host, args>>,              *)
(* <<"array", items, schema>>, <<"item", array, index, schema>>,            *)
(* <<"object", properties, schema>>, <<"property", object, field, schema>>, *)
(* <<"let", variables, in>>, <<"variable", name>>,                          *)
(* <<"meta", generator, schema>> or <<"cast", schema, object>>, where       *)
(* properties and variables are sequences of <<name, request>>.             *)
(*                                                                         *)
(* The ID of a posted object stands for what was posted: <<"iss", value>>   *)
(* or <<"calc", request>>; the same content has the same ID.  <<"posted",   *)
(* name>> is the ID of an object that others posted.                        *)
(***************************************************************************)
EXTENDS Diff

CONSTANTS
    Objects,        \* ISS objects that others posted: ID to value
    Calculations    \* calculations that others posted: ID to request as a value

\* What a function gives: any value that tells the function and the arguments.
Apply(name, args) ==
    IF Error \in Range(args) THEN Error ELSE <<"array", <<Str(name)>> \o args>>

\* as_api_type(): an account is left out, the parts of a type are converted.
RECURSIVE as_api_type(_)
as_api_type(type) ==
    CASE type[1] \in {"array", "optional"} -> <<type[1], as_api_type(type[2])>>
      [] type[1] = "reference" -> <<"reference">>
      [] type[1] = "map" -> <<"map", as_api_type(type[2]), as_api_type(type[3])>>
      [] type[1] = "named" -> <<"named", <<type[3], type[4]>> >>
      [] type[1] \in {"structure", "union"} ->
            <<type[1], [i \in DOMAIN type[2] |->
                <<type[2][i][1], as_api_type(type[2][i][2]), type[2][i][3]>>]>>
      [] OTHER -> type

coerce_local_calc_result_never(schema, v) == v

coerce_local_calc_result(schema, v) ==
    IF v = Error THEN Error ELSE coerce_value(as_api_type(schema), v)

\* cast<dynamic_array>(array).at(numeric_cast<size_t>(cast<integer>(index)))
ItemAt(array, index) ==
    IF array[1] # "array" \/ index[1] # "integer" THEN Error
    ELSE IF index[2] \notin 0..(Len(array[2]) - 1) THEN Error ELSE array[2][index[2] + 1]

\* cast<dynamic_map>(object).at(cast<string>(field))
PropertyAt(object, field) ==
    IF object[1] # "map" \/ field[1] # "string" THEN Error
    ELSE IF field \notin Keys(object[2]) THEN Error ELSE Field(object[2], field)

ObjectOf(names, values) ==
    IF Error \in Range(values) THEN Error
    ELSE MapOf([i \in DOMAIN names |-> <<Str(names[i]), values[i]>>])

ArrayOf(items) == Whole(<<"array", items>>, Range(items))

\* from_dynamic<calculation_request>(): of the requests that a generator may make,
\* values, references and variables
RequestFrom(v) ==
    LET tag == UnionTag(v)
    IN CASE tag = Str("value") -> <<"value", Field(v[2], tag)>>
         [] tag = Str("reference") /\ Field(v[2], tag)[1] = "string" ->
              <<"reference", <<"posted", Field(v[2], tag)[2]>> >>
         [] tag = Str("variable") /\ Field(v[2], tag)[1] = "string" ->
              <<"variable", Field(v[2], tag)[2]>>
         [] OTHER -> Error

Extend(environment, variables) ==
    FoldLeft(LAMBDA e, v : [x \in DOMAIN e \cup {v[1]} |-> IF x = v[1] THEN v[2] ELSE e[x]],
             environment, variables)

Named(properties) == [i \in DOMAIN properties |-> properties[i][1]]
Parts(properties) == [i \in DOMAIN properties |-> properties[i][2]]

\* The requests that a request is made from, and the environment that they are in
PartsOf(env, r) ==
    CASE r[1] = "lambda" -> r[3]
      [] r[1] = "function" -> r[4]
      [] r[1] = "array" -> r[2]
      [] r[1] \in {"item", "property"} -> <<r[2], r[3]>>
      [] r[1] = "object" -> Parts(r[2])
      [] r[1] \in {"let", "cast"} -> <<r[3]>>
      [] r[1] = "variable" /\ r[2] \in DOMAIN env -> <<env[r[2]]>>
      [] r[1] = "meta" -> <<r[2]>>
      [] OTHER -> <<>>
Scope(env, r) == IF r[1] = "let" THEN Extend(env, r[2]) ELSE env

\* The value of a request whose parts have these values, other than a reference or a meta
\* request: an exception of any part is the exception of the whole.
Combined(r, values, Coerce(_, _)) ==
    CASE r[1] = "value" -> r[2]
      [] r[1] \in {"lambda", "function"} -> Apply(r[2], values)
      [] r[1] = "array" -> ArrayOf([i \in DOMAIN values |-> Coerce(r[3], values[i])])
      [] r[1] \in {"item", "property", "object", "cast"} ->
            Coerce(IF r[1] = "cast" THEN r[2] ELSE r[Len(r)],
                   CASE r[1] = "item" -> ItemAt(values[1], values[2])
                     [] r[1] = "property" -> PropertyAt(values[1], values[2])
                     [] r[1] = "object" -> ObjectOf(Named(r[2]), values)
                     [] r[1] = "cast" -> values[1])
      [] r[1] \in {"let", "variable"} /\ values # <<>> -> values[1]
      [] OTHER -> Error

-----------------------------------------------------------------------------
(***************************************************************************)
(* What Thinknode computes for a calculation that was posted to it: the     *)
(* service is not part of the repository.  It evaluates a request whose     *)
(* parts are references; it knows no variables and no environment.          *)
(***************************************************************************)
ThinknodeCoerces(schema, v) ==
    IF v = Error THEN Error ELSE coerce_value(as_api_type(schema), v)

RECURSIVE ThinknodeEvaluates(_)
ThinknodeEvaluates(r) ==
    LET value(x) == ThinknodeEvaluates(x)
    IN CASE r[1] = "reference" ->
              CASE r[2][1] = "iss" -> r[2][2]
                [] r[2][1] = "posted" -> Objects[r[2][2]]
                [] r[2][1] = "calc" -> value(r[2][2])
                [] OTHER -> Error
         [] r[1] \in {"lambda", "let", "variable"} -> Error
         [] r[1] = "meta" -> ThinknodeCoerces(r[3], value(RequestFrom(value(r[2]))))
         [] OTHER -> Combined(r, [i \in DOMAIN PartsOf(<<>>, r) |-> value(PartsOf(<<>>, r)[i])],
                              ThinknodeCoerces)

Reference(id) == <<"reference", id>>
ThinknodeValue(id) == ThinknodeEvaluates(Reference(id))

-----------------------------------------------------------------------------
(* websocket/calculations.cpp *)

\* post_iss_object() with the dynamic type
post_value(v) == IF v = Error THEN Error ELSE <<"iss", v>>

\* post_calculation() of a request whose parts are references to these IDs; an error in a
\* part prevents it. A let and a variable are not posted.
post_calc(r, ids) ==
    LET refs == [i \in DOMAIN ids |-> Reference(ids[i])]
    IN IF Error \in Range(ids) THEN Error
       ELSE CASE r[1] = "function" -> <<"calc", <<"function", r[2], "none", refs>> >>
              [] r[1] = "array" -> <<"calc", <<"array", refs, r[3]>> >>
              [] r[1] \in {"item", "property"} -> <<"calc", <<r[1], refs[1], refs[2], r[4]>> >>
              [] r[1] = "object" ->
                    <<"calc", <<"object", [i \in DOMAIN refs |-> <<r[2][i][1], refs[i]>>], r[3]>> >>
              [] r[1] = "meta" -> <<"calc", <<"meta", refs[1], r[3]>> >>
              [] r[1] = "cast" -> <<"calc", <<"cast", r[2], refs[1]>> >>
              [] r[1] \in {"let", "variable"} /\ ids # <<>> -> ids[1]
              [] OTHER -> Error

RECURSIVE resolve_calc_to_value(_, _)
RECURSIVE resolve_calc_to_iss_object(_, _)

resolve_calc_to_value(env, r) ==
    LET value(e, x) == resolve_calc_to_value(e, x)
    IN CASE r[1] = "reference" \/ (r[1] = "function" /\ r[3] = "thinknode") ->
              ThinknodeValue(resolve_calc_to_iss_object(env, r))
         [] r[1] = "meta" ->
              coerce_local_calc_result(r[3], value(env, RequestFrom(value(env, r[2]))))
         [] OTHER ->
              Combined(r, [i \in DOMAIN PartsOf(env, r) |-> value(Scope(env, r), PartsOf(env, r)[i])],
                       coerce_local_calc_result)

resolve_calc_to_iss_object(env, r) ==
    CASE r[1] = "reference" -> r[2]
      [] r[1] \in {"value", "lambda"} \/ (r[1] = "function" /\ r[3] = "local") ->
            post_value(resolve_calc_to_value(env, r))
      [] OTHER ->
            post_calc(r, [i \in DOMAIN PartsOf(env, r) |->
                            resolve_calc_to_iss_object(Scope(env, r), PartsOf(env, r)[i])])

\* resolve_meta_chain() and locally_resolve_meta_chain(): generators are evaluated until
\* the request is no meta request.
RECURSIVE Unmeta(_)
Unmeta(r) ==
    IF r[1] # "meta" THEN r ELSE Unmeta(RequestFrom(resolve_calc_to_value(<<>>, r[2])))

resolve_meta_chain(r) == resolve_calc_to_iss_object(<<>>, Unmeta(r))
locally_resolve_meta_chain(r) == resolve_calc_to_value(<<>>, Unmeta(r))

\* as_generic_calc(): functions that Thinknode knows are evaluated there.
RECURSIVE as_generic_calc(_)
as_generic_calc(r) ==
    LET all(s) == [i \in DOMAIN s |-> as_generic_calc(s[i])]
        named(s) == [i \in DOMAIN s |-> <<s[i][1], as_generic_calc(s[i][2])>>]
    IN CASE r[1] = "function" -> <<"function", r[2], "thinknode", all(r[4])>>
         [] r[1] = "array" -> <<"array", all(r[2]), r[3]>>
         [] r[1] \in {"item", "property"} ->
              <<r[1], as_generic_calc(r[2]), as_generic_calc(r[3]), r[4]>>
         [] r[1] = "object" -> <<"object", named(r[2]), r[3]>>
         [] r[1] = "let" -> <<"let", named(r[2]), as_generic_calc(r[3])>>
         [] r[1] = "meta" -> <<"meta", as_generic_calc(r[2]), r[3]>>
         [] r[1] = "cast" -> <<"cast", r[2], as_generic_calc(r[3])>>
         [] OTHER -> r

-----------------------------------------------------------------------------
(* thinknode/calc.cpp: nested lets *)

\* substitute_variables() does not look at the index of an item or the field of a
\* property.
RECURSIVE substitute_variables(_, _)
substitute_variables(sub, r) ==
    LET all(s) == [i \in DOMAIN s |-> substitute_variables(sub, s[i])]
        one(x) == substitute_variables(sub, x)
        part(x, whole) == IF one(x) = Error THEN Error ELSE whole
    IN CASE r[1] = "function" ->
              Whole(<<"function", r[2], r[3], all(r[4])>>, Range(all(r[4])))
         [] r[1] = "array" -> Whole(<<"array", all(r[2]), r[3]>>, Range(all(r[2])))
         [] r[1] \in {"item", "property"} -> part(r[2], <<r[1], one(r[2]), r[3], r[4]>>)
         [] r[1] = "object" ->
              Whole(<<"object", [i \in DOMAIN r[2] |-> <<r[2][i][1], one(r[2][i][2])>>], r[3]>>,
                    Range(all(Parts(r[2]))))
         [] r[1] = "variable" -> IF r[2] \in DOMAIN sub THEN sub[r[2]] ELSE Error
         [] r[1] = "meta" -> part(r[2], <<"meta", one(r[2]), r[3]>>)
         [] r[1] = "cast" -> part(r[3], <<"cast", r[2], one(r[3])>>)
         [] r[1] = "let" -> Error
         [] OTHER -> r

\* submitter.submit(), with the ID of a reference as it is
submit(r) == IF r = Error THEN Error ELSE IF r[1] = "reference" THEN r[2] ELSE <<"calc", r>>

\* submit_thinknode_let_calc(): the variables of a let are submitted in their order, each
\* with the substitutions made so far.
RECURSIVE submit_let(_, _, _)
submit_let(sub, reported, r) ==
    IF r[1] # "let"
    THEN [main |-> submit(substitute_variables(sub, r)), reported |-> <<>>, other |-> <<>>]
    ELSE LET step(s, v) ==
                LET id == submit(substitute_variables(s.sub, v[2]))
                IN [sub |-> Extend(s.sub, << <<v[1], Reference(id)>> >>),
                    failed |-> s.failed \/ id = Error,
                    reported |-> IF v[1] \in reported THEN Append(s.reported, id) ELSE s.reported,
                    other |-> IF v[1] \in reported THEN s.other ELSE Append(s.other, id)]
             done == FoldLeft(step, [sub |-> sub, failed |-> FALSE, reported |-> <<>>,
                                     other |-> <<>>], r[2])
             rest == submit_let(done.sub, reported, r[3])
         IN [main |-> IF done.failed THEN Error ELSE rest.main,
             reported |-> done.reported \o rest.reported, other |-> done.other \o rest.other]

submit_thinknode_let_calc(reported, r) == submit_let(<<>>, reported, r)

-----------------------------------------------------------------------------
(* thinknode/calc.cpp: statuses.  Progress is in thousandths. *)

\* floor(progress * 100 + 1.0001) / 100
next_progress(p) == 10 * ((p + 10) \div 10)

get_next_calculation_status(s) ==
    CASE s[1] = "waiting" -> <<"queued_pending", 0>>
      [] s[1] \in {"generating", "queued_pending"} -> <<"queued_ready", 0>>
      [] s[1] = "queued_ready" -> <<"calculating", 0>>
      [] s[1] = "calculating" ->
            IF next_progress(s[2]) < 1000 THEN <<"calculating", next_progress(s[2])>>
            ELSE <<"uploading", 0>>
      [] s[1] = "uploading" ->
            IF next_progress(s[2]) < 1000 THEN <<"uploading", next_progress(s[2])>>
            ELSE <<"completed", 0>>
      [] s[1] \in {"completed", "failed", "canceled"} -> <<"none", 0>>

\* calc_status_as_query_string(): progress with two digits, rounded
calc_status_as_query_string(s) ==
    IF s[1] \in {"calculating", "uploading"} THEN <<s[1], 10 * ((s[2] + 5) \div 10)>> ELSE s

-----------------------------------------------------------------------------
(***************************************************************************)
(* thinknode/calc.cpp: searching.  CalcGraph maps the IDs of calculations   *)
(* to shallow requests; an ID that it lacks gives status 404.               *)
(***************************************************************************)
Children(r) ==
    CASE r[1] = "function" -> r[4]
      [] r[1] = "array" -> r[2]
      [] r[1] \in {"item", "property", "meta"} -> <<r[2]>>
      [] r[1] = "object" -> Parts(r[2])
      [] r[1] = "cast" -> <<r[3]>>
      [] OTHER -> <<>>

RECURSIVE search(_, _, _, _)
search(graph, matching, id, name) ==
    IF id \in DOMAIN matching THEN matching
    ELSE IF id \notin DOMAIN graph THEN Extend(matching, << <<id, FALSE>> >>)
    ELSE LET r == graph[id]
             marked == Extend(matching, << <<id, r[1] = "function" /\ r[2] = name>> >>)
             visit(m, c) ==
                IF c[1] = "reference" THEN search(graph, m, c[2], name) ELSE m
         IN FoldLeft(visit, marked, Children(r))

search_calculation(graph, id, name) ==
    LET matching == search(graph, <<>>, id, name)
    IN {x \in DOMAIN matching : matching[x]}

-----------------------------------------------------------------------------
(* thinknode/iss.cpp: a type as the components of a URL *)

RECURSIVE get_url_type_template(_)
get_url_type_template(type) ==
    LET members == FoldLeft(LAMBDA s, m : s \o <<m[1]>> \o get_url_type_template(m[2]),
                            <<>>, type[2])
    IN CASE type[1] \in {"array", "optional", "reference"} ->
              <<type[1]>> \o get_url_type_template(type[2])
         [] type[1] = "map" ->
              <<"map">> \o get_url_type_template(type[2]) \o get_url_type_template(type[3])
         [] type[1] = "named" ->
              <<"named", IF type[2] = "none" THEN "{account}" ELSE type[2], type[3], type[4]>>
         [] type[1] = "enum" -> <<"enum", ToString(Len(type[2]))>> \o type[2]
         [] type[1] \in {"structure", "union"} -> <<type[1], ToString(Len(type[2]))>> \o members
         [] OTHER -> <<type[1]>>

\* get_url_type_string_from_template(): the account is the first part of the host name.
get_url_type_string(account, type) ==
    LET template == get_url_type_template(type)
    IN [i \in DOMAIN template |-> IF template[i] = "{account}" THEN account ELSE template[i]]

\* parse_url_type(): the type at the start of the components and what follows it
RECURSIVE parse_url_type(_)
RECURSIVE parse_members(_, _)
parse_members(n, tokens) ==
    IF n = 0 THEN [members |-> <<>>, rest |-> tokens]
    ELSE LET first == parse_url_type(Tail(tokens))
             others == parse_members(n - 1, first.rest)
         IN [members |-> << <<tokens[1], first.type, FALSE>> >> \o others.members,
             rest |-> others.rest]

parse_url_type(tokens) ==
    LET code == Head(tokens)
        size == CHOOSE n \in 0..Len(tokens) : ToString(n) = tokens[2]
        inner == parse_url_type(Tail(tokens))
        second == parse_url_type(inner.rest)
        after(n) == SubSeq(tokens, n + 1, Len(tokens))
        listed == parse_members(size, after(2))
    IN CASE code \in {"array", "optional", "reference"} ->
              [type |-> <<code, inner.type>>, rest |-> inner.rest]
         [] code = "map" -> [type |-> <<"map", inner.type, second.type>>, rest |-> second.rest]
         [] code = "named" ->
              [type |-> <<"named", tokens[2], tokens[3], tokens[4]>>, rest |-> after(4)]
         [] code = "enum" ->
              [type |-> <<"enum", SubSeq(tokens, 3, 2 + size)>>, rest |-> after(2 + size)]
         [] code \in {"structure", "union"} ->
              [type |-> <<code, listed.members>>, rest |-> listed.rest]
         [] OTHER -> [type |-> <<code>>, rest |-> after(1)]

\* parse_url_type_string()
parse_url_type_string(tokens) ==
    LET parsed == parse_url_type(tokens)
    IN IF parsed.rest = <<>> THEN parsed.type ELSE <<"error">>

-----------------------------------------------------------------------------
(* websocket/server.cpp: tree diffs *)

is_iss_id(v) == v[1] = "string" /\ v[2] \in DOMAIN Objects
is_calc_id(v) == v[1] = "string" /\ v[2] \in DOMAIN Calculations

NodeDiff(service, a, b, diff) ==
    IF diff = <<>> THEN <<>>
    ELSE << [service |-> service, path |-> <<>>, a |-> a, b |-> b, diff |-> diff] >>

\* The path to the node is put before the paths of its subtree, without its last step.
UnderPath(path, tree) ==
    [i \in DOMAIN tree |-> [tree[i] EXCEPT !.path = Front(path) \o @]]

\* Items that lead to other nodes are replaced by the diffs of these nodes' trees, which
\* come before the diff of the node itself.
Subtrees(refs, Tree(_, _)) ==
    FlattenSeq([i \in DOMAIN refs |-> UnderPath(refs[i].path, Tree(refs[i].a, refs[i].b))])

\* compute_iss_tree_diff() of nodes with this diff
is_iss_update(item) == item.op = "update" /\ is_iss_id(item.a) /\ is_iss_id(item.b)
IssTree(a, b, diff, Tree(_, _)) ==
    Subtrees(SelectSeq(diff, is_iss_update), Tree)
        \o NodeDiff("iss", a, b, SelectSeq(diff, LAMBDA x : ~is_iss_update(x)))

\* process_iss_tree_subdiff() and compute_iss_tree_diff()
RECURSIVE compute_iss_tree_diff(_, _)
compute_iss_tree_diff(a, b) ==
    IssTree(a, b, compute_value_diff(<<>>, Objects[a], Objects[b]),
            LAMBDA x, y : compute_iss_tree_diff(x[2], y[2]))

\* compute_calc_tree_diff() of nodes with this diff
is_reference_update(item) ==
    item.op = "update" /\ item.path # <<>> /\ Last(item.path) = Str("reference")
CalcTree(a, b, diff, Tree(_, _)) ==
    Subtrees(SelectSeq(diff, is_reference_update), Tree)
        \o NodeDiff("calc", a, b, SelectSeq(diff, LAMBDA x : ~is_reference_update(x)))

\* process_calc_tree_subdiff() and compute_calc_tree_diff()
RECURSIVE compute_calc_tree_diff(_, _)
compute_calc_tree_diff(a, b) ==
    CalcTree(a, b, compute_value_diff(<<>>, Calculations[a], Calculations[b]),
             LAMBDA x, y : IF is_calc_id(x) /\ is_calc_id(y)
                           THEN compute_calc_tree_diff(x[2], y[2])
                           ELSE compute_iss_tree_diff(x[2], y[2]))
=============================================================================
