----------------------------- MODULE MCNetwork ------------------------------
(* Small instances of Network. *)
EXTENDS Network, TLC

CONSTANTS A, B, C, N, M, tx, ty, b1

\* Two leafs on one node, a third on the next.  All have a terminal under the
\* same name, B and C have bindings to it.
TeeLeafs     == {A, B, C}
TeeNodes     == {N, M}
TeeLinks     == {{A, N}, {B, N}, {N, M}, {M, C}}
TeeTerminals == [l \in TeeLeafs |-> {tx}]
TeeBindings  == [l \in TeeLeafs |-> IF l = A THEN {} ELSE {tx}]

\* The connection of a leaf or the one between the nodes may die, or only the latter.
LeafAndNodeLink == {{A, N}, {N, M}}
NodeLink        == {{N, M}}

\* Only A has the terminal, the others have bindings to it.
SourceTerminals == [l \in TeeLeafs |-> IF l = A THEN {tx} ELSE {}]
SinkBindings    == [l \in TeeLeafs |-> IF l = A THEN {} ELSE {tx}]

\* Three leafs on one node.  A scatters; the bindings of the others belong to
\* terminals with a name of their own.  The connection of B may die.
HubNodes     == {N}
HubLinks     == {{A, N}, {B, N}, {C, N}}
HubTerminals == [l \in TeeLeafs |-> IF l = A THEN {tx} ELSE {ty}]
LinkOfB      == {{B, N}}

OfTx == [b \in Members |-> tx]
OfTy == [b \in Members |-> ty]

\* Two leafs on one node: A has the terminal, B the binding.
StarLeafs     == {A, B}
StarNodes     == {N}
StarLinks     == {{A, N}, {B, N}}
StarTerminals == [l \in StarLeafs |-> IF l = A THEN {tx} ELSE {}]
StarBindings  == [l \in StarLeafs |-> IF l = B THEN {tx} ELSE {}]

\* A binding is created again only after the removal of the one before it has
\* been acknowledged.
OneBindingAtATime == [s \in Sides |-> IF s = "Binding" THEN 1 ELSE 2]
TwoIds            == [s \in Sides |-> 2]
=============================================================================
