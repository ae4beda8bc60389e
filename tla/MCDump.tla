-------------------------------- MODULE MCDump --------------------------------
(* Instances of Dump for TLC. *)
EXTENDS Dump, MCSubsetter

CONSTANTS public, other

\* Two schemas; a and c have the same name.
InOrder == <<public, other>>
InSchema == [t \in Tables |-> IF t \in {a, b} THEN public ELSE other]
Names == [t \in Tables |-> CASE t \in {a, c} -> "1" [] OTHER -> "2"]

Swapped == [r \in Rows |-> IF r = r1 THEN r2 ELSE r1]
Stored == <<Swapped, [r \in Rows |-> r], Swapped, [r \in Rows |-> IF r = r1 THEN r2 ELSE Null]>>

Selections == {{r1}}

Flags(dialect, container, only) == [dialect |-> dialect, container |-> container, only |-> only]
FewKinds == {Flags("postgres", "dir", ""), Flags("mysql", "dir", "schema"),
             Flags("sqlserver", "zip", ""), Flags("postgres", "tgz", "data")}
KeyedTables == {Flags("sqlserver", "dir", "")}
=============================================================================
