------------------------------ MODULE MCHistory ------------------------------
EXTENDS HistoryCommands

CONSTANTS a, b, r, p, q

\* Two migrations and a repeatable one; two rows fill a batch, or one on MySQL.
Names == <<a, b, r>>
Args == {<<>>, <<r, b, b, a>>}

\* Of a repeatable migration to one that is not.
Renamings == {<<r, a>>}

\* Every file, or the repeatable one alone, which a user may then remove.
Present == {[f \in {a, b, r} |-> IF f = r THEN 1 ELSE n] : n \in {0, 1}}

\* No table yet, or all but a have been run, r before it was edited.
Applied(checksum) == [valid |-> TRUE, checksum |-> checksum, success |-> TRUE]
Rows == {[f \in {a, b, r} |-> NoRow],
         [f \in {a, b, r} |-> CASE f = a -> NoRow [] f = b -> Applied(0) [] f = r -> Applied(2)]}

Limits == [d \in {"postgres", "mysql", "sqlite", "sqlserver"} |-> IF d = "mysql" THEN 10 ELSE 15]
=============================================================================
