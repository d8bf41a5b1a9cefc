------------------------------ MODULE JsonModel -----------------------------
(* Models written to json and read back: JsonBuilder and JsonBuilderWriter on *)
(* one side, JsonValueConverter on the other.  A model type is a description: *)
(*   [kind |-> "integer", low, high]   an integer type and its range          *)
(*   [kind |-> "bool"]   [kind |-> "string"]                                  *)
(*   [kind |-> "collection", of]   [kind |-> "pointer", of]                   *)
(*   [kind |-> "model", members]       members: <<[key, type, static], ...>>  *)
(* A pointer is <<>> or holds one value; a model is the tuple of its members. *)
(* Tokens stand for the bytes; what a text of tokens means is the tree that   *)
(* module JsonDocument checks sajson to build, and strings and numbers are    *)
(* read back as module JsonText checks.                                       *)
EXTENDS Integers, Sequences, FiniteSets

CONSTANTS
  IntMax,      \* INT_MAX of the parser
  Samples      \* <<type, value>>: the models that are written

VARIABLES
  sample,      \* the model and its type
  tokens,      \* what the builder has written
  target,      \* the model that is read into
  result,      \* what convert returned
  stage        \* "model", "written", "read"

modelVars == <<sample, tokens, target, result, stage>>

-----------------------------------------------------------------------------
(* JsonBuilder: what it has written, and whether the next entry needs a comma. *)

writeRaw(builder, raw) == [builder EXCEPT !.out = @ \o raw]

startObject(builder) == [writeRaw(builder, << <<"{">> >>) EXCEPT !.addPreviousComma = FALSE]
startArray(builder) == [writeRaw(builder, << <<"[">> >>) EXCEPT !.addPreviousComma = FALSE]
endArray(builder) == [writeRaw(builder, << <<"]">> >>) EXCEPT !.addPreviousComma = TRUE]

\* A slip: closing an object does not ask for a comma after it.
EndObjectNoComma(builder) == [writeRaw(builder, << <<"}">> >>) EXCEPT !.addPreviousComma = FALSE]

endObject(builder) == [writeRaw(builder, << <<"}">> >>) EXCEPT !.addPreviousComma = TRUE]

\* The comma before an entry, if one is due; from now on one is.
Separated(builder) ==
  [writeRaw(builder, IF builder.addPreviousComma THEN << <<",">> >> ELSE <<>>)
     EXCEPT !.addPreviousComma = TRUE]

\* Both forms of addMember up to the value: a static key comes with its colon.
MemberKey(builder, member) ==
  LET key == << <<"string", member.key>>, <<":">> >>
  IN IF member.static
     THEN [writeRaw(builder, IF builder.addPreviousComma THEN << <<",">> >> \o key ELSE key)
             EXCEPT !.addPreviousComma = TRUE]
     ELSE writeRaw(Separated(builder), key)

\* JsonBuilderWriter<T>::write
RECURSIVE write(_, _, _), WriteItems(_, _, _, _), WriteMembers(_, _, _, _)
write(type, value, builder) ==
  CASE type.kind = "integer" -> writeRaw(builder, << <<"number", value>> >>)
    [] type.kind = "bool" -> writeRaw(builder, << <<IF value THEN "true" ELSE "false">> >>)
    [] type.kind = "string" -> writeRaw(builder, << <<"string", value>> >>)
    [] type.kind = "collection" -> endArray(WriteItems(type.of, value, 1, startArray(builder)))
    [] type.kind = "pointer" ->
         IF value = <<>> THEN writeRaw(builder, << <<"null">> >>)
         ELSE write(type.of, value[1], builder)
    [] type.kind = "model" -> endObject(WriteMembers(type.members, value, 1, startObject(builder)))

\* addItem for each element
WriteItems(type, values, i, builder) ==
  IF i > Len(values) THEN builder
  ELSE WriteItems(type, values, i + 1, write(type, values[i], Separated(builder)))

\* dumpJson: addMember for each member
WriteMembers(members, values, i, builder) ==
  IF i > Len(members) THEN builder
  ELSE WriteMembers(members, values, i + 1,
                    write(members[i].type, values[i], MemberKey(builder, members[i])))

\* JsonSerializer<T>::serialize
serialize(type, value) == write(type, value, [out |-> <<>>, addPreviousComma |-> FALSE]).out

-----------------------------------------------------------------------------
(* What a text means: json's grammar.  A read gives the tree and the number   *)
(* of the next token, or Wrong.                                               *)

Wrong == << <<"wrong">>, 0>>

\* parse_number stores an int only while every digit is sure to fit.
ReadNumber(value) ==
  LET magnitude == IF value < 0 THEN -value ELSE value
  IN IF magnitude \div 10 > IntMax \div 10 - 9 THEN <<"double", value>> ELSE <<"int", value>>

Is(text, i, token) == i <= Len(text) /\ text[i][1] = token

RECURSIVE Value(_, _), Elements(_, _, _), Members(_, _, _)
Value(text, i) ==
  CASE i > Len(text) -> Wrong
    [] Is(text, i, "number") -> <<ReadNumber(text[i][2]), i + 1>>
    [] Is(text, i, "string") -> <<text[i], i + 1>>
    [] Is(text, i, "null") \/ Is(text, i, "true") \/ Is(text, i, "false") -> <<text[i], i + 1>>
    [] Is(text, i, "[") -> IF Is(text, i + 1, "]") THEN << <<"array", <<>>>>, i + 2>>
                           ELSE Elements(text, i + 1, <<>>)
    [] Is(text, i, "{") -> IF Is(text, i + 1, "}") THEN << <<"object", <<>>>>, i + 2>>
                           ELSE Members(text, i + 1, <<>>)
    [] OTHER -> Wrong

Elements(text, i, read) ==
  LET v == Value(text, i)
      next == Append(read, v[1])
  IN CASE v = Wrong -> Wrong
       [] v # Wrong /\ Is(text, v[2], ",") -> Elements(text, v[2] + 1, next)
       [] v # Wrong /\ Is(text, v[2], "]") -> << <<"array", next>>, v[2] + 1>>
       [] OTHER -> Wrong

Members(text, i, read) ==
  LET v == Value(text, i + 2)
      next == Append(read, <<text[i][2], v[1]>>)
  IN CASE ~Is(text, i, "string") \/ ~Is(text, i + 1, ":") -> Wrong
       [] v = Wrong -> Wrong
       [] v # Wrong /\ Is(text, v[2], ",") -> Members(text, v[2] + 1, next)
       [] v # Wrong /\ Is(text, v[2], "}") -> << <<"object", next>>, v[2] + 1>>
       [] OTHER -> Wrong

Document(text) == LET v == Value(text, 1) IN IF v[2] = Len(text) + 1 THEN v[1] ELSE Wrong[1]

-----------------------------------------------------------------------------
(* JsonValueConverter<T>::convert: the result and the new target.             *)

RECURSIVE Fresh(_)
Fresh(type) ==
  CASE type.kind = "integer" -> 0
    [] type.kind = "bool" -> FALSE
    [] type.kind = "model" -> [i \in DOMAIN type.members |-> Fresh(type.members[i].type)]
    [] OTHER -> <<>>

Kept(model) == [ok |-> FALSE, model |-> model]
Set(model) == [ok |-> TRUE, model |-> model]

\* static_cast<T>: an integer that the type cannot hold wraps.
StaticCast(type, i) == type.low + ((i - type.low) % (type.high - type.low + 1))

\* value[key]
MemberOf(tree, key) ==
  LET found == { i \in DOMAIN tree[2] : tree[2][i][1] = key }
  IN IF found = {} THEN <<"nokey">> ELSE tree[2][CHOOSE i \in found : TRUE][2]

RECURSIVE convert(_, _, _), ConvertItems(_, _, _), LoadJson(_, _, _, _)
convert(type, model, tree) ==
  CASE type.kind = "integer" ->
         IF tree[1] = "int" THEN Set(StaticCast(type, tree[2])) ELSE Kept(model)
    [] type.kind = "bool" ->
         IF tree[1] \in {"true", "false"} THEN Set(tree[1] = "true") ELSE Kept(model)
    [] type.kind = "string" -> IF tree[1] = "string" THEN Set(tree[2]) ELSE Kept(model)
    [] type.kind = "collection" ->
         IF tree[1] = "array" THEN ConvertItems(type.of, Set(model), tree[2])
         ELSE Kept(model)
    [] type.kind = "pointer" ->
         IF tree[1] = "null" THEN Set(<<>>)
         ELSE LET inner == convert(type.of, IF model = <<>> THEN Fresh(type.of) ELSE model[1], tree)
              IN [ok |-> inner.ok, model |-> <<inner.model>>]
    [] type.kind = "model" ->
         IF tree[1] = "object" THEN LoadJson(type.members, model, 1, tree) ELSE Kept(model)

\* An element is added behind those the collection has, then converted, and stays
\* when that fails.
ConvertItems(type, sofar, trees) ==
  IF trees = <<>> THEN sofar
  ELSE LET item == convert(type, Fresh(type), Head(trees))
       IN ConvertItems(type, [ok |-> item.ok /\ sofar.ok, model |-> Append(sofar.model, item.model)],
                       Tail(trees))

\* loadJson is the model's own; here every member is required: one that cannot be
\* converted ends it.
LoadJson(members, model, i, tree) ==
  IF i > Len(members) THEN Set(model)
  ELSE LET member == convert(members[i].type, model[i], MemberOf(tree, members[i].key))
           next == [model EXCEPT ![i] = member.model]
       IN IF member.ok THEN LoadJson(members, next, i + 1, tree) ELSE Kept(next)

-----------------------------------------------------------------------------
JsonModelInit ==
  /\ sample \in Samples
  /\ tokens = <<>>
  /\ target = Fresh(sample[1])
  /\ result = FALSE
  /\ stage = "model"

Serialize ==
  /\ stage = "model"
  /\ tokens' = serialize(sample[1], sample[2])
  /\ stage' = "written"
  /\ UNCHANGED <<sample, target, result>>

\* JsonDeserializer<T>::deserialize
Deserialize ==
  /\ stage = "written"
  /\ LET tree == Document(tokens)
         read == convert(sample[1], target, tree)
     IN IF tree = Wrong[1]
        THEN result' = FALSE /\ UNCHANGED target
        ELSE result' = read.ok /\ target' = read.model
  /\ stage' = "read"
  /\ UNCHANGED <<sample, tokens>>

JsonModelNext == Serialize \/ Deserialize

JsonModelSpec == JsonModelInit /\ [][JsonModelNext]_modelVars

-----------------------------------------------------------------------------
(* Properties *)

\* The integers that come back from a text as doubles.
RECURSIVE HasLargeInteger(_, _)
HasLargeInteger(type, value) ==
  CASE type.kind = "integer" -> ReadNumber(value)[1] = "double"
    [] type.kind = "collection" -> \E i \in DOMAIN value : HasLargeInteger(type.of, value[i])
    [] type.kind = "pointer" -> value # <<>> /\ HasLargeInteger(type.of, value[1])
    [] type.kind = "model" -> \E i \in DOMAIN value : HasLargeInteger(type.members[i].type, value[i])
    [] OTHER -> FALSE

\* What the serializer writes is a json text, and the deserializer makes the same
\* model of it in a new object - or reports a failure, and then only because an
\* integer was too large for the parser to keep as one.
ModelReturns ==
  stage # "model" =>
    /\ Document(tokens) # Wrong[1]
    /\ stage = "read" => /\ result => target = sample[2]
                         /\ ~result => HasLargeInteger(sample[1], sample[2])

=============================================================================
