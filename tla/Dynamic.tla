------------------------------- MODULE Dynamic -------------------------------
(***************************************************************************)
(* cradle's dynamic values (typing/core/dynamic.cpp): their order, the      *)
(* lookup of fields, and the coercion of a value to a type.  A value is     *)
(* <<type, content>>.  The content of an array is a sequence of values, of  *)
(* a map the sequence of its <<key, value>> pairs in the order of the keys, *)
(* of a string a TLA+ string, of a float the number of halves in it, and of *)
(* everything else an integer.  An exception is the value Error.            *)
(***************************************************************************)
EXTENDS Integers, Sequences, SequencesExt, FiniteSets

CONSTANTS
    Strings,        \* the strings that occur, in alphabetical order
    DateOf,         \* the date that a string denotes, for those that do
    NamedTypes      \* look_up_named_type: the named types that exist

ASSUME DynamicAssumption ==
    /\ IsInjective(Strings)
    /\ DOMAIN DateOf \subseteq Range(Strings)

Nil == <<"nil", 0>>
Str(s) == <<"string", s>>
Error == <<"error", 0>>

\* value_type, in the order of its enumerators.
TypeOrder ==
    <<"nil", "boolean", "integer", "float", "string", "blob", "datetime", "array", "map">>

Position(order, x) == CHOOSE i \in DOMAIN order : order[i] = x

\* What two values of one type are compared by: a sequence for arrays and maps.
Elements(v) ==
    CASE v[1] = "array" -> v[2]
      [] v[1] = "map" -> FlattenSeq(v[2])
      [] OTHER -> <<>>

\* operator<: by type, then by content; arrays and maps lexicographically.
RECURSIVE Less(_, _)
Less(a, b) ==
    CASE a[1] # b[1] -> Position(TypeOrder, a[1]) < Position(TypeOrder, b[1])
      [] a[1] = "string" -> Position(Strings, a[2]) < Position(Strings, b[2])
      [] a[1] \in {"array", "map"} ->
            LET s == Elements(a)
                t == Elements(b)
                differ == {i \in DOMAIN s \cap DOMAIN t : s[i] # t[i]}
            IN IF differ = {} THEN Len(s) < Len(t)
               ELSE LET i == CHOOSE i \in differ : \A j \in differ : i <= j
                    IN Less(s[i], t[i])
      [] OTHER -> a[2] < b[2]

\* map[key] = value
Put(pairs, key, value) ==
    SelectSeq(pairs, LAMBDA p : Less(p[1], key))
        \o << <<key, value>> >>
        \o SelectSeq(pairs, LAMBDA p : Less(key, p[1]))

\* map.erase(key)
Erase(pairs, key) == SelectSeq(pairs, LAMBDA p : p[1] # key)

Keys(pairs) == {pairs[i][1] : i \in DOMAIN pairs}

\* get_field(), on a map that has the field
Field(pairs, key) == pairs[CHOOSE i \in DOMAIN pairs : pairs[i][1] = key][2]

\* The pairs of a sequence that come later overwrite the earlier ones.
MapOf(pairs) ==
    <<"map", FoldLeft(LAMBDA m, p : Put(m, p[1], p[2]), <<>>, pairs)>>

\* get_union_tag(): throws for a map that has not exactly one entry, and the cast
\* to a string throws for a key that is none.
UnionTag(v) ==
    IF v[1] # "map" \/ Len(v[2]) # 1 \/ v[2][1][1][1] # "string"
    THEN Error ELSE v[2][1][1]

\* initializer_list constructor: a list of pairs with string keys is a map
FromList(list) ==
    IF \A i \in DOMAIN list :
        list[i][1] = "array" /\ Len(list[i][2]) = 2 /\ list[i][2][1][1] = "string"
    THEN MapOf([i \in DOMAIN list |-> list[i][2]])
    ELSE <<"array", list>>

-----------------------------------------------------------------------------
(***************************************************************************)
(* Types are tuples: <<"array", type>>, <<"map", key type, value type>>,    *)
(* <<"optional", type>>, <<"structure", fields>> and <<"union", members>>   *)
(* with sequences of <<name, type, omissible>>, <<"enum", strings>>,        *)
(* <<"named", name>>, and <<tag>> for the others.                           *)
(***************************************************************************)

\* The value of a string as a date: parse_ptime() of dynamic.cpp
ParsePtime(s) == IF s \in DOMAIN DateOf THEN <<"datetime", DateOf[s]>> ELSE Error

\* An integer is a double without a fraction.
AsFloat(i) == <<"float", 2 * i[2]>>
AsInteger(f) == IF f[2] % 2 = 0 THEN <<"integer", f[2] \div 2>> ELSE Error

\* check_type()
Checked(expected, v) == IF v[1] = expected THEN v ELSE Error

\* The types of values that a type admits as they are, for the types without parts.
PlainTypes ==
    [blob |-> "blob", boolean |-> "boolean", reference |-> "string",
     string |-> "string", nil |-> "nil"]

Member(members, tag) ==
    SelectSeq(members, LAMBDA m : Str(m[1]) = tag)

-----------------------------------------------------------------------------
(* coerce_value_impl() *)

\* The errors of the parts are errors of the whole.
Whole(v, parts) == IF Error \in parts THEN Error ELSE v

RECURSIVE coerce_value(_, _)

\* case ARRAY_TYPE
coerce_array(type, v) ==
    IF v[1] # "array" THEN Error
    ELSE LET items == [i \in DOMAIN v[2] |-> coerce_value(type[2], v[2][i])]
         IN Whole(<<"array", items>>, Range(items))

\* case DATETIME_TYPE .. INTEGER_TYPE
coerce_scalar(type, v) ==
    CASE type[1] = "datetime" ->
            IF v[1] = "string" THEN ParsePtime(v[2]) ELSE Checked("datetime", v)
      [] type[1] = "enum" ->
            IF v[1] = "string" /\ v[2] \in Range(type[2]) THEN v ELSE Error
      [] type[1] = "float" ->
            IF v[1] = "integer" THEN AsFloat(v) ELSE Checked("float", v)
      [] type[1] = "integer" ->
            IF v[1] = "float" THEN AsInteger(v) ELSE Checked("integer", v)

RECURSIVE value_requires_coercion(_, _)

\* case MAP_TYPE: if no key needs a coercion the keys are left alone, else a new map
\* is made, where a pair overwrites an earlier one whose key became the same.  The
\* check of the keys ends at the first one that needs a coercion.
coerce_map(type, v) ==
    IF v = <<"array", <<>>>> THEN <<"map", <<>>>>
    ELSE IF v[1] # "map" THEN Error
    ELSE LET required(i) == value_requires_coercion(type[2], v[2][i][1])
             first == {i \in DOMAIN v[2] : required(i) # "no"
                                             /\ \A j \in 1..(i - 1) : required(j) = "no"}
             remade == first # {} /\ \A i \in first : required(i) = "yes"
             pairs == [i \in DOMAIN v[2] |->
                         <<IF remade THEN coerce_value(type[2], v[2][i][1]) ELSE v[2][i][1],
                           coerce_value(type[3], v[2][i][2])>>]
         IN IF \E i \in first : required(i) = "error" THEN Error
            ELSE IF \E i \in DOMAIN pairs : Error \in Range(pairs[i]) THEN Error
            ELSE MapOf(pairs)

\* case OPTIONAL_TYPE
coerce_optional(type, v) ==
    LET tag == UnionTag(v)
    IN CASE tag = Str("some") ->
              LET x == coerce_value(type[2], Field(v[2], tag))
              IN Whole(MapOf(<< <<tag, x>> >>), {x})
         [] tag = Str("none") -> IF Field(v[2], tag)[1] = "nil" THEN v ELSE Error
         [] OTHER -> Error

\* case STRUCTURE_TYPE: fields that the type does not have are kept.
coerce_structure(type, v) ==
    IF v[1] # "map" THEN Error
    ELSE LET present == SelectSeq(type[2], LAMBDA f : Str(f[1]) \in Keys(v[2]))
             coerced == [i \in DOMAIN present |->
                           <<Str(present[i][1]),
                             coerce_value(present[i][2], Field(v[2], Str(present[i][1])))>>]
         IN IF \E i \in DOMAIN type[2] : Str(type[2][i][1]) \notin Keys(v[2]) /\ ~type[2][i][3]
            THEN Error
            ELSE Whole(MapOf(v[2] \o coerced), {coerced[i][2] : i \in DOMAIN coerced})

\* case UNION_TYPE
coerce_union(type, v) ==
    LET tag == UnionTag(v)
        member == Member(type[2], tag)
    IN IF member = <<>> THEN Error
       ELSE LET x == coerce_value(member[1][2], Field(v[2], tag))
            IN Whole(MapOf(<< <<tag, x>> >>), {x})

coerce_value(type, v) ==
    CASE type[1] = "dynamic" -> v
      [] type[1] \in DOMAIN PlainTypes -> Checked(PlainTypes[type[1]], v)
      [] type[1] = "array" -> coerce_array(type, v)
      [] type[1] = "map" -> coerce_map(type, v)
      [] type[1] = "optional" -> coerce_optional(type, v)
      [] type[1] = "structure" -> coerce_structure(type, v)
      [] type[1] = "union" -> coerce_union(type, v)
      [] type[1] = "named" -> coerce_value(NamedTypes[type[2]], v)
      [] OTHER -> coerce_scalar(type, v)

-----------------------------------------------------------------------------
(* value_requires_coercion(): "yes", "no" or, for an exception, "error" *)

\* The parts are looked at in order, until one needs a coercion or throws.
FirstOf(answers) ==
    LET told == SelectSeq(answers, LAMBDA x : x # "no")
    IN IF told = <<>> THEN "no" ELSE told[1]

Unless(ok) == IF ok THEN "no" ELSE "error"

\* cases MAP_TYPE, STRUCTURE_TYPE and UNION_TYPE
requires_in_map(type, v) ==
    CASE type[1] = "map" /\ v = <<"array", <<>>>> -> "yes"
      [] v[1] # "map" -> "error"
      [] type[1] = "map" /\ v[1] = "map" ->
            FirstOf(FlattenSeq([i \in DOMAIN v[2] |->
                <<value_requires_coercion(type[2], v[2][i][1]),
                  value_requires_coercion(type[3], v[2][i][2])>>]))
      [] type[1] = "structure" /\ v[1] = "map" ->
            FirstOf([i \in DOMAIN type[2] |->
                LET name == Str(type[2][i][1])
                IN IF name \in Keys(v[2])
                   THEN value_requires_coercion(type[2][i][2], Field(v[2], name))
                   ELSE Unless(type[2][i][3])])
      [] type[1] = "union" /\ v[1] = "map" ->
            LET member == Member(type[2], UnionTag(v))
            IN IF member = <<>> THEN "error"
               ELSE value_requires_coercion(member[1][2], Field(v[2], UnionTag(v)))

\* cases DATETIME_TYPE .. INTEGER_TYPE
requires_in_scalar(type, v) ==
    CASE type[1] = "datetime" ->
            IF v[1] = "string" /\ ParsePtime(v[2]) # Error THEN "yes"
            ELSE Unless(v[1] = "datetime")
      [] type[1] = "enum" -> Unless(v[1] = "string" /\ v[2] \in Range(type[2]))
      [] type[1] = "float" -> IF v[1] = "integer" THEN "yes" ELSE Unless(v[1] = "float")
      [] type[1] = "integer" ->
            IF v[1] = "float" /\ AsInteger(v) # Error THEN "yes" ELSE Unless(v[1] = "integer")

value_requires_coercion(type, v) ==
    CASE type[1] = "dynamic" -> "no"
      [] type[1] \in DOMAIN PlainTypes -> Unless(v[1] = PlainTypes[type[1]])
      [] type[1] \in {"map", "structure", "union"} -> requires_in_map(type, v)
      [] type[1] = "array" ->
            IF v[1] # "array" THEN "error"
            ELSE FirstOf([i \in DOMAIN v[2] |-> value_requires_coercion(type[2], v[2][i])])
      [] type[1] = "optional" ->
            (CASE UnionTag(v) = Str("some") ->
                    value_requires_coercion(type[2], Field(v[2], Str("some")))
               [] UnionTag(v) = Str("none") -> Unless(Field(v[2], Str("none"))[1] = "nil")
               [] OTHER -> "error")
      [] type[1] = "named" -> value_requires_coercion(NamedTypes[type[2]], v)
      [] OTHER -> requires_in_scalar(type, v)
=============================================================================
