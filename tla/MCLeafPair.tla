----------------------------- MODULE MCLeafPair -----------------------------
(* Small instances of LeafPair. *)
EXTENDS LeafPair, TLC

CONSTANTS A, B, x, y, b1, b2

MCLeafs == {A, B}

\* A has the terminals and B the bindings.
OneWayTerminals == (A :> {x}) @@ (B :> {})
OneWayBindings  == (A :> {}) @@ (B :> {x})

\* A has terminals under two names, B bindings to both.
TwoNamesTerminals == (A :> {x, y}) @@ (B :> {})
TwoNamesBindings  == (A :> {}) @@ (B :> {x, y})

OfX == [b \in Members |-> x]

\* Names and bindings are interchangeable.
Symmetry == Permutations({x, y}) \cup Permutations({b1, b2})
=============================================================================
