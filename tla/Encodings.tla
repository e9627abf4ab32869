------------------------------ MODULE Encodings ------------------------------
(***************************************************************************)
(* The encodings of dynamic values: JSON, YAML, MessagePack and the native  *)
(* one (typing/encodings).  A document is a tree of the nodes that the      *)
(* parsing library gives; the characters in between are left out.  A node   *)
(* is <<kind, content>>, like a value.                                      *)
(***************************************************************************)
EXTENDS Dynamic

CONSTANTS
    TextOf,         \* what a string looks like when it is not quoted: a value
    Base64,         \* blob to the string that base64_encode() makes of it
    BitsPerByte     \* 8; less for small instances

ASSUME EncodingAssumption ==
    /\ IsInjective(Base64)
    /\ BitsPerByte \in Nat \ {0}

\* base64_decode(), for what base64_encode() made
Unbase64(s) == IF \E b \in DOMAIN Base64 : Base64[b] = s
               THEN <<"blob", CHOOSE b \in DOMAIN Base64 : Base64[b] = s>> ELSE Error

\* to_value_string() of a date
DateString(d) == CHOOSE s \in DOMAIN DateOf : DateOf[s] = d

\* Both text formats write a blob as an object with these two members.
BlobNode(b) == << <<"type", <<"string", "base64-encoded-blob">>>>,
                  <<"blob", <<"string", Base64[b]>>>> >>

Has(members, name) == \E i \in DOMAIN members : members[i][1] = name
At(members, name) == members[CHOOSE i \in DOMAIN members : members[i][1] = name][2]

-----------------------------------------------------------------------------
(* JSON *)

has_only_string_keys(pairs) == \A k \in Keys(pairs) : k[1] = "string"

\* to_nlohmann_json(): an object is a sequence of <<name, node>>
RECURSIVE to_json(_)
to_json(v) ==
    CASE v[1] = "blob" -> <<"object", BlobNode(v[2])>>
      [] v[1] = "datetime" -> Str(DateString(v[2]))
      [] v[1] = "array" -> <<"array", [i \in DOMAIN v[2] |-> to_json(v[2][i])]>>
      [] v[1] = "map" /\ has_only_string_keys(v[2]) ->
            <<"object", [i \in DOMAIN v[2] |-> <<v[2][i][1][2], to_json(v[2][i][2])>>]>>
      [] v[1] = "map" /\ ~has_only_string_keys(v[2]) ->
            <<"array", [i \in DOMAIN v[2] |->
                <<"object", << <<"key", to_json(v[2][i][1])>>,
                               <<"value", to_json(v[2][i][2])>> >> >>]>>
      [] OTHER -> v

array_resembles_map(nodes) ==
    /\ nodes # <<>>
    /\ \A i \in DOMAIN nodes :
        /\ nodes[i][1] = "object"
        /\ Len(nodes[i][2]) = 2
        /\ Has(nodes[i][2], "key") /\ Has(nodes[i][2], "value")

\* A string is read as a date if that does not change it.
ReadString(s) == IF ParsePtime(s) # Error THEN ParsePtime(s) ELSE Str(s)

\* An object that says that it is a blob, in either format
ReadBlob(members) ==
    IF Has(members, "blob") /\ At(members, "blob")[1] = "string"
    THEN Unbase64(At(members, "blob")[2]) ELSE Error

IsBlobNode(members) ==
    Has(members, "type") /\ At(members, "type") = Str("base64-encoded-blob")

MapOrError(pairs) ==
    IF \E i \in DOMAIN pairs : Error \in Range(pairs[i]) THEN Error ELSE MapOf(pairs)

RECURSIVE read_json_value(_)
read_json_value(node) ==
    CASE node[1] = "string" -> ReadString(node[2])
      [] node[1] = "array" /\ array_resembles_map(node[2]) ->
            MapOrError([i \in DOMAIN node[2] |->
                <<read_json_value(At(node[2][i][2], "key")),
                  read_json_value(At(node[2][i][2], "value"))>>])
      [] node[1] = "array" /\ ~array_resembles_map(node[2]) ->
            LET items == [i \in DOMAIN node[2] |-> read_json_value(node[2][i])]
            IN Whole(<<"array", items>>, Range(items))
      [] node[1] = "object" /\ IsBlobNode(node[2]) -> ReadBlob(node[2])
      [] node[1] = "object" /\ ~IsBlobNode(node[2]) ->
            MapOrError([i \in DOMAIN node[2] |->
                <<Str(node[2][i][1]), read_json_value(node[2][i][2])>>])
      [] OTHER -> node

JsonTrip(v) == read_json_value(to_json(v))

-----------------------------------------------------------------------------
(* YAML *)

\* What read_yaml_value() makes of a scalar that is not quoted.
Unquoted(text) == IF text \in DOMAIN TextOf THEN TextOf[text] ELSE Str(text)

\* emit_yaml_value(): a string that reads as something else is quoted; dates are.  The
\* text of a float without a fraction is that of the integer.  Scalars are their texts:
\* those of numbers and booleans are given by their values.
RECURSIVE emit_yaml(_)
emit_yaml(v) ==
    CASE v[1] = "string" -> <<IF Unquoted(v[2])[1] # "string" THEN "quoted" ELSE "plain", v[2]>>
      [] v[1] = "datetime" -> <<"quoted", DateString(v[2])>>
      [] v[1] = "float" /\ AsInteger(v) # Error -> AsInteger(v)
      [] v[1] = "blob" ->
            <<"map", << << <<"plain", "type">>, <<"plain", "base64-encoded-blob">> >>,
                        << <<"plain", "blob">>, <<"plain", Base64[v[2]]>> >> >> >>
      [] v[1] = "array" -> <<"array", [i \in DOMAIN v[2] |-> emit_yaml(v[2][i])]>>
      [] v[1] = "map" ->
            <<"map", [i \in DOMAIN v[2] |-> <<emit_yaml(v[2][i][1]), emit_yaml(v[2][i][2])>>]>>
      [] OTHER -> v

\* yaml[name]: the value of a key whose text is name
YamlHas(pairs, name) ==
    \E i \in DOMAIN pairs : pairs[i][1] \in {<<"plain", name>>, <<"quoted", name>>}
YamlAt(pairs, name) ==
    pairs[CHOOSE i \in DOMAIN pairs : pairs[i][1] \in {<<"plain", name>>, <<"quoted", name>>}][2]
IsYamlBlob(pairs) ==
    /\ YamlHas(pairs, "type")
    /\ YamlAt(pairs, "type") \in {<<"plain", "base64-encoded-blob">>,
                                  <<"quoted", "base64-encoded-blob">>}

RECURSIVE read_yaml_value(_)
read_yaml_value(node) ==
    CASE node[1] = "quoted" -> ReadString(node[2])
      [] node[1] = "plain" -> Unquoted(node[2])
      [] node[1] = "array" ->
            LET items == [i \in DOMAIN node[2] |-> read_yaml_value(node[2][i])]
            IN Whole(<<"array", items>>, Range(items))
      [] node[1] = "map" /\ IsYamlBlob(node[2]) ->
            IF YamlHas(node[2], "blob") /\ YamlAt(node[2], "blob")[1] \in {"plain", "quoted"}
            THEN Unbase64(YamlAt(node[2], "blob")[2]) ELSE Error
      [] node[1] = "map" /\ ~IsYamlBlob(node[2]) ->
            MapOrError([i \in DOMAIN node[2] |->
                <<read_yaml_value(node[2][i][1]), read_yaml_value(node[2][i][2])>>])
      [] OTHER -> node

YamlTrip(v) == read_yaml_value(emit_yaml(v))

-----------------------------------------------------------------------------
(* MessagePack *)

ExtSize_unsigned(t) ==
    LET fits(n) == 0 <= t /\ t < 2^(n * BitsPerByte)
    IN CASE fits(1) -> 1 [] fits(2) -> 2 [] fits(4) -> 4 [] OTHER -> 8

\* The bytes of a date, most significant first, in the smallest of the four widths
ExtSize(t) ==
    LET fits(n) == -(2^(n * BitsPerByte - 1)) <= t /\ t < 2^(n * BitsPerByte - 1)
    IN CASE fits(1) -> 1 [] fits(2) -> 2 [] fits(4) -> 4 [] OTHER -> 8

ExtBytes(t) ==
    LET n == ExtSize(t)
        base == 2^BitsPerByte
        unsigned == t % base^n
    IN [i \in 1..n |-> (unsigned \div base^(n - i)) % base]

\* The number in those bytes, by its size: signed
ExtValue(bytes) ==
    LET base == 2^BitsPerByte
        unsigned == FoldLeft(LAMBDA x, b : x * base + b, 0, bytes)
    IN IF bytes[1] >= base \div 2 THEN unsigned - base^Len(bytes) ELSE unsigned

\* write_msgpack_value() and read_msgpack_value()
RECURSIVE write_msgpack(_)
write_msgpack(v) ==
    CASE v[1] = "integer" -> <<IF v[2] < 0 THEN "negative" ELSE "positive", v[2]>>
      [] v[1] = "datetime" -> <<"ext", ExtBytes(v[2])>>
      [] v[1] = "array" -> <<"array", [i \in DOMAIN v[2] |-> write_msgpack(v[2][i])]>>
      [] v[1] = "map" ->
            <<"map", [i \in DOMAIN v[2] |->
                        <<write_msgpack(v[2][i][1]), write_msgpack(v[2][i][2])>>]>>
      [] OTHER -> v

RECURSIVE read_msgpack_value(_)
read_msgpack_value(object) ==
    CASE object[1] \in {"negative", "positive"} -> <<"integer", object[2]>>
      [] object[1] = "ext" -> <<"datetime", ExtValue(object[2])>>
      [] object[1] = "array" ->
            <<"array", [i \in DOMAIN object[2] |-> read_msgpack_value(object[2][i])]>>
      [] object[1] = "map" ->
            MapOf([i \in DOMAIN object[2] |->
                     <<read_msgpack_value(object[2][i][1]), read_msgpack_value(object[2][i][2])>>])
      [] OTHER -> object

MsgpackTrip(v) == read_msgpack_value(write_msgpack(v))

-----------------------------------------------------------------------------
(* Native encoding: a sequence of fields, without brackets *)

RECURSIVE write_native(_)
write_native(v) ==
    CASE v[1] = "nil" -> << <<"type", "nil">> >>
      [] v[1] \in {"array", "map"} ->
            << <<"type", v[1]>>, <<"size", Len(v[2])>> >>
                \o FoldLeft(LAMBDA s, x : s \o write_native(x), <<>>, Elements(v))
      [] OTHER -> << <<"type", v[1]>>, <<v[1], v[2]>> >>

\* read_natively_encoded_value(): the value at the start of the fields and what follows it
RECURSIVE read_native(_)
RECURSIVE read_native_items(_, _)
read_native_items(n, fields) ==
    IF n = 0 THEN [values |-> <<>>, rest |-> fields]
    ELSE LET first == read_native(fields)
             others == read_native_items(n - 1, first.rest)
         IN [values |-> <<first.value>> \o others.values, rest |-> others.rest]

read_native(fields) ==
    LET type == fields[1][2]
        items == read_native_items(IF type = "map" THEN 2 * fields[2][2] ELSE fields[2][2],
                                   SubSeq(fields, 3, Len(fields)))
    IN CASE type = "nil" -> [value |-> Nil, rest |-> Tail(fields)]
         [] type = "array" -> [value |-> <<"array", items.values>>, rest |-> items.rest]
         [] type = "map" ->
              [value |-> MapOf([i \in 1..fields[2][2] |->
                            <<items.values[2 * i - 1], items.values[2 * i]>>]),
               rest |-> items.rest]
         [] OTHER -> [value |-> <<type, fields[2][2]>>, rest |-> SubSeq(fields, 3, Len(fields))]

\* What natively_encoded_sha256() of a list of values hashes: one value after the other
write_native_list(values) ==
    FoldLeft(LAMBDA s, x : s \o write_native(x), <<>>, values)
=============================================================================
