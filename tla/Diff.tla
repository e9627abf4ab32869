-------------------------------- MODULE Diff ---------------------------------
(***************************************************************************)
(* Differences between dynamic values (typing/utilities/diff.cpp): the      *)
(* computation of a diff as a sequence of items, and its application.       *)
(***************************************************************************)
EXTENDS Dynamic

insert_item(path, b) == [path |-> path, op |-> "insert", a |-> Nil, b |-> b]
update_item(path, a, b) == [path |-> path, op |-> "update", a |-> a, b |-> b]
delete_item(path, a) == [path |-> path, op |-> "delete", a |-> a, b |-> Nil]

Index(i) == <<"integer", i>>

\* deep_sizeof() and natively_encoded_sizeof(), in units of the least value: both add a
\* constant for each value to the sizes of its parts.
RECURSIVE SizeOf(_)
SizeOf(v) == 1 + FoldLeft(LAMBDA n, x : n + SizeOf(x), 0, Elements(v))

\* An optional that holds nothing is smaller than any value.
ItemSize(item) ==
    Len(item.path) + 1
        + (IF item.op = "insert" THEN 0 ELSE SizeOf(item.a))
        + (IF item.op = "delete" THEN 0 ELSE SizeOf(item.b))

DiffSize(diff) == FoldLeft(LAMBDA n, item : n + ItemSize(item), 0, diff)

-----------------------------------------------------------------------------
\* detect_insertion(a, b): where, and how many, items of b that a has not; count 0 when
\* there is no such place.  b is longer than a.  The places in a and b are those of the
\* code, plus one.  Reading past the end of b gives a value that may be anything; such
\* an item is taken to be different from the one in a.
NoInsertion == [index |-> 0, count |-> 0]

\* The items from i on are found again after the inserted ones, or nowhere.
FoundAfter(a, b, i, offset) ==
    IF \A j \in i..Len(a) : j + offset <= Len(b) /\ a[j] = b[j + offset]
    THEN [index |-> i - 1, count |-> offset] ELSE NoInsertion

InsertionFrom(a, b, i) ==
    LET matches == {n \in 1..(Len(b) - i) : a[i] = b[i + n]}
    IN IF matches = {} THEN NoInsertion ELSE FoundAfter(a, b, i, Min(matches))

detect_insertion(a, b) ==
    LET differ == {i \in DOMAIN a : a[i] # b[i]}
    IN IF differ = {} THEN [index |-> Len(a), count |-> Len(b) - Len(a)]
       ELSE InsertionFrom(a, b, Min(differ))

RECURSIVE compute_value_diff(_, _, _)

\* The diffs at these keys of one map or the other
KeyDiffs(path, a, b, keys) ==
    [i \in DOMAIN keys |->
        CASE keys[i] \notin Keys(b) -> <<delete_item(Append(path, keys[i]), Field(a, keys[i]))>>
          [] keys[i] \notin Keys(a) -> <<insert_item(Append(path, keys[i]), Field(b, keys[i]))>>
          [] OTHER -> compute_value_diff(Append(path, keys[i]), Field(a, keys[i]), Field(b, keys[i]))]

\* The keys are looked at in their order.
compute_map_diff(path, a, b) ==
    FlattenSeq(KeyDiffs(path, a, b, SortSeq(SetToSeq(Keys(a) \cup Keys(b)), Less)))

Inserted(path, b, place) ==
    [i \in 1..place.count |->
        insert_item(Append(path, Index(place.index + i - 1)), b[place.index + i])]

Removed_forward(path, a, place) ==
    [i \in 1..place.count |->
        delete_item(Append(path, Index(place.index + i - 1)), a[place.index + i])]

\* The last of the removed items comes first.
Removed(path, a, place) ==
    LET last == place.index + place.count
    IN [i \in 1..place.count |-> delete_item(Append(path, Index(last - i)), a[last - i + 1])]

\* Items that were inserted or removed in one place, or a change in each place.
compute_array_diff(path, a, b) ==
    CASE Len(a) < Len(b) -> Inserted(path, b, detect_insertion(a, b))
      [] Len(a) > Len(b) -> Removed(path, a, detect_insertion(b, a))
      [] OTHER ->
            FlattenSeq([i \in DOMAIN a |->
                compute_value_diff(Append(path, Index(i - 1)), a[i], b[i])])

\* The whole is replaced where that is no larger than the diff of the parts.
Smaller(compressed, simple) ==
    IF compressed # <<>> /\ DiffSize(compressed) < DiffSize(simple) THEN compressed ELSE simple

compute_value_diff(path, a, b) ==
    LET compressed ==
            CASE a[1] = "map" /\ b[1] = "map" -> compute_map_diff(path, a[2], b[2])
              [] a[1] = "array" /\ b[1] = "array" -> compute_array_diff(path, a[2], b[2])
              [] OTHER -> <<>>
    IN IF a = b THEN <<>> ELSE Smaller(compressed, <<update_item(path, a, b)>>)

-----------------------------------------------------------------------------
\* apply_value_diff_item(): Error stands for invalid_diff_path.
RECURSIVE apply_item(_, _, _, _)

apply_in_map(v, path, op, b) ==
    LET pairs == v[2]
        key == Head(path)
        replaced(x) == Whole(<<"map", Put(pairs, key, x)>>, {x})
    IN CASE v[1] # "map" -> Error
         [] v[1] = "map" /\ Len(path) = 1 ->
              IF op = "delete" THEN <<"map", Erase(pairs, key)>> ELSE replaced(b)
         [] v[1] = "map" /\ Len(path) > 1 ->
              IF key \notin Keys(pairs) THEN Error
              ELSE replaced(apply_item(Field(pairs, key), Tail(path), op, b))

apply_in_array(v, path, op, b) ==
    LET i == Head(path)[2] + 1
        replaced(x) == Whole(<<"array", [v[2] EXCEPT ![i] = x]>>, {x})
    IN CASE v[1] # "array" -> Error
         [] v[1] = "array" /\ Len(path) = 1 /\ op = "insert" ->
              IF i > Len(v[2]) + 1 THEN Error ELSE <<"array", InsertAt(v[2], i, b)>>
         [] v[1] = "array" /\ i > Len(v[2]) /\ (Len(path) > 1 \/ op # "insert") -> Error
         [] v[1] = "array" /\ i <= Len(v[2]) /\ Len(path) = 1 /\ op = "delete" ->
              <<"array", RemoveAt(v[2], i)>>
         [] v[1] = "array" /\ i <= Len(v[2]) /\ Len(path) = 1 /\ op = "update" -> replaced(b)
         [] v[1] = "array" /\ i <= Len(v[2]) /\ Len(path) > 1 ->
              replaced(apply_item(v[2][i], Tail(path), op, b))

apply_item(v, path, op, b) ==
    CASE path = <<>> -> b
      [] path # <<>> /\ Head(path)[1] = "string" -> apply_in_map(v, path, op, b)
      [] path # <<>> /\ Head(path)[1] = "integer" -> apply_in_array(v, path, op, b)
      [] OTHER -> Error

apply_value_diff(v, diff) ==
    FoldLeft(LAMBDA x, item : apply_item(x, item.path, item.op, item.b), v, diff)
=============================================================================
