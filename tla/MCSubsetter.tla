----------------------------- MODULE MCSubsetter -----------------------------
(* Instances of Subsetter for TLC. *)
EXTENDS Subsetter

CONSTANTS a, b, c, d, r1, r2

Ref(t, u) == [from |-> t, to |-> u]

\* A tree, a chain, a fork; a diamond; a table with two foreign keys to another one,
\* which refers to a third; a cycle, a self reference.
Tree == <<Ref(a, b), Ref(c, b), Ref(c, d)>>
Path == <<Ref(a, b), Ref(b, c), Ref(c, d)>>
Fork == <<Ref(a, b), Ref(a, c), Ref(d, a)>>
Diamond == <<Ref(a, b), Ref(a, c), Ref(b, d), Ref(c, d)>>
Twice == <<Ref(a, b), Ref(a, b), Ref(b, c)>>
Cycle == <<Ref(a, b), Ref(b, c), Ref(c, a)>>
Self == <<Ref(a, b), Ref(b, b), Ref(b, c)>>

AllShapes == {Tree, Path, Fork, Diamond, Twice, Cycle, Self}
Meeting == {Twice}

\* The rows refer to one each, both to one, and one of them to none.
Few == {[r \in Rows |-> r], [r \in Rows |-> IF r = r1 THEN r2 ELSE r1],
        [r \in Rows |-> r1], [r \in Rows |-> IF r = r1 THEN r2 ELSE Null]}
=============================================================================
