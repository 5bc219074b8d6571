----------------------------- MODULE MCComments -----------------------------
\* Shapes with a nested field, a list, an item that is a map, and a field that
\* is of another kind in another version of the object.
EXTENDS Comments, TLC

CONSTANTS t1, t2, v1, v2

spec == <<"spec">>
a == <<"spec", "a">>
b == <<"spec", "b">>
list == <<"list">>
item == <<"list", "1">>
field == <<"list", "1", "x">>

WithField(f) == spec :> "map" @@ f :> v1
WithItem(l) == list :> "list" @@ l

MCShapes ==
  {WithField(a), WithField(b), WithField(a) @@ WithItem(item :> v1), WithItem(item :> v2),
   WithItem(item :> "map" @@ field :> v1), spec :> v1}

Symmetry == Permutations({t1, t2})
=============================================================================
