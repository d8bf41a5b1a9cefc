---------------------------- MODULE JsonReading -----------------------------
(* How a parsed document is read: the value class of sajson over the words of *)
(* module JsonDocument.  The operators recurse over the tree, so this module  *)
(* is for model checking only.                                                *)
EXTENDS JsonDocument, Bags

get_length(payload) == words[payload]

\* get_array_element, get_object_value: the element's type and its own payload.
ValueAt(payload, element) ==
  <<get_element_type(element), payload + get_element_value(element)>>
get_array_element(payload, index) == ValueAt(payload, words[payload + 1 + index])
get_object_value(payload, index) == ValueAt(payload, words[payload + 3 + 3 * index])

get_object_key(payload, index) ==
  KeyOf(words[payload + 1 + 3 * index], words[payload + 2 + 3 * index])

\* std::lower_bound: the first entry that is not less than the key, found by halving.
RECURSIVE lower_bound(_, _, _, _)
lower_bound(payload, first, count, key) ==
  IF count = 0 THEN first
  ELSE LET half == count \div 2
           entry == get_object_key(payload, first + half)
       IN IF Len(entry) < Len(key) \/ (Len(entry) = Len(key) /\ memcmpLess(entry, key))
          THEN lower_bound(payload, first + half + 1, count - half - 1, key)
          ELSE lower_bound(payload, first, half, key)

find_object_key(payload, key) ==
  LET i == lower_bound(payload, 0, get_length(payload), key)
  IN IF i < get_length(payload) /\ get_object_key(payload, i) = key
     THEN i ELSE get_length(payload)

\* The objects of a document hold their members in no order.
RECURSIVE AsBags(_)
AsBags(tree) ==
  CASE tree[1] = TYPE_ARRAY -> <<TYPE_ARRAY, [i \in DOMAIN tree[2] |-> AsBags(tree[2][i])]>>
    [] tree[1] = TYPE_OBJECT ->
         LET member(i) == <<tree[2][i][1], AsBags(tree[2][i][2])>>
         IN <<TYPE_OBJECT,
              [m \in { member(i) : i \in DOMAIN tree[2] } |->
                 Cardinality({ i \in DOMAIN tree[2] : member(i) = m })]>>
    [] OTHER -> tree

\* Everything the value at a payload shows through its accessors.
RECURSIVE Shown(_, _)
Shown(type, payload) ==
  LET element(i) == LET v == get_array_element(payload, i - 1) IN Shown(v[1], v[2])
      member(i) == LET v == get_object_value(payload, i - 1)
                   IN <<get_object_key(payload, i - 1), Shown(v[1], v[2])>>
  IN CASE type = TYPE_ARRAY -> <<type, [i \in 1..get_length(payload) |-> element(i)]>>
       [] type = TYPE_OBJECT -> <<type, [i \in 1..get_length(payload) |-> member(i)]>>
       [] type = TYPE_STRING -> <<type, KeyOf(words[payload], words[payload + 1])>>
       [] type \in {TYPE_INTEGER, TYPE_DOUBLE} -> <<type, words[payload]>>
       [] OTHER -> <<type, <<>>>>

\* Every key of an object, nested ones too, is found by the halving search, and no other is.
RECURSIVE KeysFound(_, _)
KeysFound(type, payload) ==
  LET n == get_length(payload)
      keys == { get_object_key(payload, i) : i \in 0..(n - 1) }
      below(v) == KeysFound(v[1], v[2])
  IN CASE type = TYPE_ARRAY -> \A i \in 0..(n - 1) : below(get_array_element(payload, i))
       [] type = TYPE_OBJECT ->
            /\ \A i \in 0..(n - 1) : below(get_object_value(payload, i))
            /\ \A s \in Strings : find_object_key(payload, s.content) < n
                                    <=> s.content \in keys
       [] OTHER -> TRUE

\* A document that parses shows the tree its text describes, through every
\* accessor: no element, key or number was lost to the sharing of one buffer by
\* stack and tree, to the relocation of elements, or to the sort of the keys.
ReadBack ==
  label = "done" =>
    AsBags(Shown(current_structure_type, write_cursor)) = AsBags(meant)

\* In a parsed document a lookup by key finds a member exactly when the object has one.
Lookup ==
  label = "done" => KeysFound(current_structure_type, write_cursor)

\* What was parsed can be read: element by element and by key.
DocumentReadable == ReadBack /\ Lookup
=============================================================================
