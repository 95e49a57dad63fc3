---------------------- MODULE IdentifiedObjectRegister ----------------------
(***************************************************************************)
(* The register in which a Leaf or a Node keeps its terminals and its      *)
(* groups of bindings: yogi-core/src/base/IdentifiedObjectRegister.hpp.    *)
(* An element is found by its id (the lookup table) and, unless it is      *)
(* hidden, by its identifier (the map).  Ids of erased elements are kept   *)
(* on a stack and the one freed last is given out first.                   *)
(*                                                                         *)
(* A register is a record: elem is the lookup table restricted to its      *)
(* non-null entries, size the length of the table, free the stack.         *)
(***************************************************************************)
EXTENDS Naturals, Sequences, FiniteSets

\* r is a register whose elements are in S.
IsRegister(r, S) ==
    /\ r = [size |-> r.size, free |-> r.free, elem |-> r.elem]
    /\ r.size \in Nat
    /\ r.free \in Seq(1..r.size)
    /\ DOMAIN r.elem \subseteq 1..r.size
    /\ r.elem \in [DOMAIN r.elem -> S]

FreeIds(r) == {r.free[i] : i \in 1..Len(r.free)}

EmptyRegister == [size |-> 0, free |-> <<>>, elem |-> <<>>]

Used(r, id) == id \in DOMAIN r.elem

\* Lookup by identifier: the ids of the visible elements with it (at most one).
Visible(r, identifier) ==
    {id \in DOMAIN r.elem : r.elem[id].identifier = identifier /\ ~r.elem[id].hidden}

\* The element that find(identifier) returns; only for a non-empty Visible.
Find(r, identifier) == CHOOSE id \in Visible(r, identifier) : TRUE

\* Mutant: the lookup table grows before the id is computed from its size.
Grow_OffByOne(r) == IF r.free = <<>>
                      THEN [r EXCEPT !.size = @ + 1, !.free = <<r.size + 2>>]
                      ELSE r

\* The first lines of insert: an id is made when there is none on the stack,
\* whether or not the insertion then takes place.
Grow(r) == IF r.free = <<>>
             THEN [r EXCEPT !.size = @ + 1, !.free = <<r.size + 1>>]
             ELSE r

NextId(r) == Grow(r).free[Len(Grow(r).free)]

Insert(r, e) ==
    [size |-> Grow(r).size,
     free |-> SubSeq(Grow(r).free, 1, Len(Grow(r).free) - 1),
     elem |-> [id \in DOMAIN r.elem \cup {NextId(r)} |->
                  IF id = NextId(r) THEN e ELSE r.elem[id]]]

Put(r, id, e) == [r EXCEPT !.elem[id] = e]

Hide(r, id) == [r EXCEPT !.elem[id].hidden = TRUE]

\* Mutant: the id of an erased element is not put on the stack.
Erase_LosesId(r, id) ==
    [r EXCEPT !.elem = [i \in DOMAIN r.elem \ {id} |-> r.elem[i]]]

Erase(r, id) ==
    [size |-> r.size,
     free |-> Append(r.free, id),
     elem |-> [i \in DOMAIN r.elem \ {id} |-> r.elem[i]]]

\* The ids of a set in the order in which a loop over the lookup table meets
\* them: the i-th is the one that has i ids of the set up to it.
Ascending(S) ==
    [i \in 1..Cardinality(S) |->
        CHOOSE id \in S : Cardinality({j \in S : j <= id}) = i]

Hidden(r) == {id \in DOMAIN r.elem : r.elem[id].hidden}

\* The loop that erases every hidden element in the order of the ids.
EraseHidden(r) ==
    [size |-> r.size,
     free |-> r.free \o Ascending(Hidden(r)),
     elem |-> [i \in DOMAIN r.elem \ Hidden(r) |-> r.elem[i]]]
=============================================================================
