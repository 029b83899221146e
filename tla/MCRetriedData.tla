--------------------------- MODULE MCRetriedData ---------------------------
(***************************************************************************)
(* Small instances of RetriedData: objects with the keys a and b in either *)
(* order, nested once, inside an array, and with every kind of scalar.     *)
(***************************************************************************)
EXTENDS RetriedData

MCJsonbOrder ==
  [keys \in SUBSET {"a", "b"} |-> SelectSeq(<<"a", "b">>, LAMBDA key : key \in keys)]

\* Trees from their root and the trees below it.
Leaf(node) == [path \in {<<>>} |-> node]
Tree(root, below) ==
  [path \in {<<>>} \union UNION {{<<part>> \o p : p \in DOMAIN below[part]} : part \in DOMAIN below} |->
     IF path = <<>> THEN root ELSE below[path[1]][Tail(path)]]

Text(c) == Leaf(String(<<Chars(c)>>))
Num(n) == Leaf(Number(n))
Bool(b) == Leaf(Boolean(b))
One(key, x) == Tree(Object(<<key>>), [k \in {key} |-> x])
Pair(first, x, second, y) ==
  Tree(Object(<<first, second>>), [k \in {first, second} |-> IF k = first THEN x ELSE y])
Items(x, y) == Tree(Array, [i \in {"[0]", "[1]"} |-> IF i = "[0]" THEN x ELSE y])

Ordered == Pair("a", Num(1), "b", Text("1"))
Swapped == Pair("b", Text("1"), "a", Num(1))

MCPayloads == {Ordered, One("a", Ordered), Leaf(Object(<<>>))}

MCResponses ==
  {Swapped,
   Pair("b", Num(2), "a", Swapped),
   Pair("a", Items(Swapped, Bool(TRUE)), "b", Bool(FALSE)),
   Pair("b", One("b", Swapped), "a", Leaf(Null))}

Paths == {<<"a">>, <<"b">>, <<"a", "b">>, <<"b", "a">>}

Transform(template) == [type |-> "TRANSFORM", template |-> template]
Filter(field, operator, value) ==
  [type |-> "FILTER", field |-> field, operator |-> operator, value |-> value]
Request == [type |-> "HTTP_REQUEST"]

Transforms ==
  {Transform(Pair("a", Leaf(String(<<Placeholder(p)>>)),
                   "b", Leaf(String(<<Chars("x"), Placeholder(q)>>)))) :
     p \in Paths, q \in Paths}
  \union {Transform(One("a", Ordered))}

Filters ==
  {Filter(p, operator, value) :
     p \in Paths, operator \in {"EQUALS", "NOT_EQUALS"},
     value \in {Num(1), Text("1"), Leaf(Null), Bool(FALSE), Ordered, Leaf(String(<<JsonText(Ordered)>>))}}
  \union {Filter(p, operator, Num(1)) :
     p \in Paths, operator \in {"GREATER_THAN", "LESS_THAN"}}

MCSteps == {Request} \union Transforms \union Filters
=============================================================================
