--------------------------- MODULE StepFunctions ---------------------------
(***************************************************************************)
(* What the pure steps compute, and what PostgreSQL makes of a stored      *)
(* value: executeTransform, executeFilter, resolveInputPath and a JSONB    *)
(* column.  A JSON value is a tree, given by the node at every path inside *)
(* it: <<>> leads to its root, <<"a", "b">> to input.a.b, and an array's   *)
(* items have parts that no path of a config can have.  An object's node   *)
(* has its keys in order, because JavaScript and JSON.stringify keep it.   *)
(* A string is the sequence of its pieces: characters, a placeholder       *)
(* {{input.path}}, and the JSON text of a value, which differs for values  *)
(* that differ in anything, the order of keys included.  Keys that look    *)
(* like integers, which JavaScript moves to the front, are left out.       *)
(***************************************************************************)
EXTENDS Naturals, SequencesExt

CONSTANT JsonbOrder  \* the order in which JSONB keeps each set of keys that occurs

ASSUME OrderKeepsKeys == \A keys \in DOMAIN JsonbOrder : ToSet(JsonbOrder[keys]) = keys

Null       == [kind |-> "null"]
Number(n)  == [kind |-> "number", number |-> n]
Boolean(b) == [kind |-> "boolean", boolean |-> b]
String(s)  == [kind |-> "string", text |-> s]
Array      == [kind |-> "array"]
Object(s)  == [kind |-> "object", keys |-> s]

Undefined == [path \in {<<>>} |-> [kind |-> "undefined"]]
Kind(value) == value[<<>>].kind

Chars(c)          == [chars |-> c]
Placeholder(path) == [path |-> path]
JsonText(value)   == [json |-> value]

\* The ways on from a path, and the data the engine accepts: a tree whose root
\* is an object, and whose objects have the keys their paths go on with.
Parts(value, path) ==
  {p[Len(path) + 1] : p \in {q \in DOMAIN value : IsStrictPrefix(path, q)}}

workflowData(value) ==
  /\ value = [path \in DOMAIN value |-> value[path]]
  /\ DOMAIN value \subseteq Seq(STRING)
  /\ <<>> \in DOMAIN value /\ Kind(value) = "object"
  /\ \A path \in DOMAIN value :
       CASE value[path].kind = "object" ->
              /\ ToSet(value[path].keys) = Parts(value, path)
              /\ Parts(value, path) \in DOMAIN JsonbOrder
         [] value[path].kind = "array" -> TRUE
         [] OTHER -> Parts(value, path) = {}
-----------------------------------------------------------------------------
\* The loop ends at undefined where a part is missing, or where it meets a
\* value that is not an object (what every object inherits is left out).
resolveInputPath(input, path) ==
  IF path \notin DOMAIN input THEN Undefined
  ELSE LET inside == {SubSeq(p, Len(path) + 1, Len(p)) : p \in DOMAIN input}
       IN  [p \in {q \in inside : path \o q \in DOMAIN input} |-> input[path \o p]]

\* What replaces a placeholder: it stays where its path leads nowhere.
Replacement(input, piece) ==
  LET value == resolveInputPath(input, piece.path)
      root  == value[<<>>]
  IN  CASE root.kind = "undefined" -> <<piece>>
        [] root.kind = "string"    -> root.text
        [] root.kind = "number"    -> <<Chars(ToString(root.number))>>
        [] root.kind = "boolean"   -> <<Chars(ToString(root.boolean))>>
        [] root.kind = "null"      -> <<Chars("null")>>
        [] OTHER                   -> <<JsonText(value)>>

Render(input, text) ==
  FlattenSeq([i \in DOMAIN text |->
    IF "path" \in DOMAIN text[i] THEN Replacement(input, text[i]) ELSE <<text[i]>>])

\* Mutated: the output is the input with the template's entries added to it.
MergedTransform(template, input) ==
  LET kept == {p \in DOMAIN input : p # <<>> /\ p[1] \notin ToSet(template[<<>>].keys)}
  IN  [p \in DOMAIN template \union kept |->
         IF p = <<>>
         THEN Object(SelectSeq(input[p].keys, LAMBDA k : k \notin ToSet(template[p].keys))
                       \o template[p].keys)
         ELSE IF p \in kept THEN input[p]
         ELSE IF Len(p) = 1 /\ template[p].kind = "string"
         THEN String(Render(input, template[p].text)) ELSE template[p]]

\* The output is the template, in its order, with the strings that are its own
\* entries rendered; those inside of objects and arrays are not.
executeTransform(template, input) ==
  [p \in DOMAIN template |->
     IF Len(p) = 1 /\ template[p].kind = "string"
     THEN String(Render(input, template[p].text)) ELSE template[p]]

\* Mutated: values are compared by their JSON text.
SameText(a, b) == a = b

\* ===, which compares objects and arrays by identity: an input is never the
\* value of the filter.
Identical(a, b) == a[<<>>] = b[<<>>] /\ Kind(a) \notin {"object", "array"}

executeFilter(config, input) ==
  LET actual   == resolveInputPath(input, config.field)
      expected == config.value
      numbers  == Kind(actual) = "number" /\ Kind(expected) = "number"
  IN  CASE config.operator = "EQUALS"       -> Identical(actual, expected)
        [] config.operator = "NOT_EQUALS"   -> ~ Identical(actual, expected)
        [] config.operator = "GREATER_THAN" ->
             numbers /\ actual[<<>>].number > expected[<<>>].number
        [] config.operator = "LESS_THAN"    ->
             numbers /\ actual[<<>>].number < expected[<<>>].number

\* Mutated: a filter passes on the field it looks at.
FieldPassedOn(step, input, response) ==
  CASE step.type = "TRANSFORM" ->
         [output |-> executeTransform(step.template, input), shouldContinue |-> TRUE]
    [] step.type = "FILTER" ->
         [output |-> resolveInputPath(input, step.field),
          shouldContinue |-> executeFilter(step, input)]
    [] step.type = "HTTP_REQUEST" -> [output |-> response, shouldContinue |-> TRUE]

\* The response of a request is an object by workflowDataSchema.
executeStep(step, input, response) ==
  CASE step.type = "TRANSFORM" ->
         [output |-> executeTransform(step.template, input), shouldContinue |-> TRUE]
    [] step.type = "FILTER" ->
         [output |-> input, shouldContinue |-> executeFilter(step, input)]
    [] step.type = "HTTP_REQUEST" -> [output |-> response, shouldContinue |-> TRUE]
-----------------------------------------------------------------------------
\* A value that was written to a JSONB column and read again: the keys of every
\* object come back in JSONB's order.
Jsonb(value) ==
  [path \in DOMAIN value |->
     IF value[path].kind = "object"
     THEN Object(JsonbOrder[ToSet(value[path].keys)]) ELSE value[path]]
=============================================================================
